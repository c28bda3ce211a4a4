----------------------------- MODULE RuntimeProofs -----------------------------
(***************************************************************************)
(* Every step of RuntimeResources keeps its types, and the invariant of    *)
(* RuntimeInvariant: one lemma per action.  The journal a step writes is   *)
(* well typed because of what the invariant knows of its process.  From    *)
(* the steps follow the properties, for any processes, engines, attempts,  *)
(* taken names and faults.                                                 *)
(* ClientFails alone needs the assumption that no request outlives a       *)
(* Docker client that exited by itself.                                    *)
(***************************************************************************)
EXTENDS RuntimeInvariant, TLAPS

-----------------------------------------------------------------------------
(* Type correctness. *)

\* A result that became an operator failure is still a result.
LEMMA InfraType ==
  ASSUME NEW res \in Result,
         NEW flags \in SUBSET {"cleanup_pending", "operator_terminated"}
  PROVE  Infra(res, flags) \in Result
  BY DEF Infra, Result

\* So is what the container's recorded state makes of it.
LEMMA ClassifyType ==
  ASSUME NEW res \in Result, NEW s \in Seen
  PROVE  Classify(res, s) \in Result
  BY InfraType DEF Classify, Failed, Result

\* The fault budget never leaves its range.
LEMMA FaultType ==
  ASSUME TypeOK, Calm \/ Fault PROVE faults' \in 0..MaxFaults
  BY ConstantsAssumption DEF TypeOK, Calm, Fault

\* Writing the journal, or failing to, keeps the types of what it touches.
LEMMA WriteType ==
  ASSUME TypeOK, NEW p \in Proc, NEW j \in Journal \cup {NoJournal},
         NEW next \in Label, Write(p, j, next)
  PROVE  /\ disk' \in Journal \cup {NoJournal}
         /\ pc' \in [Proc -> Label] /\ cont' \in [Proc -> Label]
         /\ result' \in [Proc -> Result]
         /\ faults' \in 0..MaxFaults
<1>1. CASE Fault
  BY <1>1, InfraType, FaultType
  DEF Write, TypeOK, FailedWrite, AfterFailedWrite, FlagsAfterFailedWrite,
      Goto, Label, Pending
<1>2. CASE Calm
  BY <1>2, InfraType, FaultType
  DEF Write, TypeOK, FailedWrite, AfterFailedWrite, FlagsAfterFailedWrite,
      Goto, Label, Pending
<1> QED
  BY <1>1, <1>2 DEF Write

\* A process that returned or died is back in its initial local state.
LEMMA VanishType ==
  ASSUME TypeOK, NEW P \in SUBSET Proc, Vanish(P)
  PROVE  /\ lock' \in Proc \cup {NoProc}
         /\ pc' \in [Proc -> Label] /\ cont' \in [Proc -> Label]
         /\ mode' \in [Proc -> Mode]
         /\ home' \in [Proc -> Engine \cup {NoEngine}]
         /\ tok' \in [Proc -> Token \cup {NoToken}]
         /\ memory' \in [Proc -> SUBSET Role] /\ missing' \in [Proc -> SUBSET Role]
         /\ cursor' \in [Proc -> 1..3]
         /\ seen' \in [Proc -> Seen]
         /\ result' \in [Proc -> Result]
         /\ box' \in [Proc -> Box]
  BY DEF Vanish, TypeOK, NoResult, NoSeen, NoBox, Seen, Box, Status, Result,
         Label, Mode

\* The two ways a reconciliation goes on to the next role.
LEMMA NextRoleType ==
  ASSUME TypeOK, NEW p \in Proc, NextRole(p)
  PROVE  pc' \in [Proc -> Label] /\ cursor' \in [Proc -> 1..3]
  BY DEF NextRole, TypeOK, Goto, Label, RoleOrder

\* Giving up keeps types.
LEMMA RefuseType ==
  ASSUME TypeOK, NEW p \in Proc, Refuse(p)
  PROVE  /\ pc' \in [Proc -> Label] /\ cont' \in [Proc -> Label]
         /\ result' \in [Proc -> Result]
  BY InfraType DEF Refuse, TypeOK, Goto, Label, Pending

\* What a process in the middle of its work holds is well formed.
LEMMA HoldsIdentity ==
  ASSUME Inv, NEW p \in Proc
  PROVE  /\ At(p) \in Reconciling \cup Attempting =>
              tok[p] \in Token /\ home[p] \in Engine /\ home[p] = born[tok[p]]
         /\ At(p) \in Reconciling =>
              disk \in Journal /\ disk.tok = tok[p] /\ disk.eng = home[p]
<1>1. At(p) \in Reconciling \cup Attempting => pc[p] # "idle"
  BY DEF At, Reconciling, Attempting, Working
<1> QED
  BY <1>1 DEF Inv, Local, Bearings, Identity, JournalHeld, OnRecord, TypeOK

\* A request names a resource.
LEMMA RequestType ==
  ASSUME Inv, NEW p \in Proc, NEW role \in Role, At(p) \in Attempting,
         Request(p, role)
  PROVE  pending' \subseteq Resource /\ settled' \subseteq Engine
<1>1. Name(p, role) \in Resource
  BY HoldsIdentity DEF Name, Resource, Inv, TypeOK
<1> QED
  BY <1>1 DEF Request, Inv, TypeOK

\* The client's verdict is a result.
LEMMA VerdictType ==
  ASSUME TypeOK, NEW p \in Proc,
         NEW kind \in {"valid", "execution", "infrastructure"},
         NEW flags \in {{}, Killed}, NEW rc \in {0, 1, 125, 127},
         Verdict(p, kind, flags, rc)
  PROVE  result' \in [Proc -> Result] /\ pc' \in [Proc -> Label]
<1>1. [kind |-> kind, flags |-> flags, rc |-> rc] \in Result
  BY DEF Result, Killed
<1> QED
  BY <1>1 DEF Verdict, TypeOK, Goto, Label

\* Every action keeps the variables in their types.
LEMMA TypeStep ==
  ASSUME Inv, [Next]_vars PROVE TypeOK'
<1>a. TypeOK
  BY DEF Inv
<1> USE <1>a DEF dockerVars, diskVars, localVars, Pending, Killed
<1>1. ASSUME NEW p \in Proc, LoadJournal(p) PROVE TypeOK'
  BY <1>1, FaultType, RefuseType, ConstantsAssumption
  DEF LoadJournal, TypeOK, Goto, Label, AfterReconcile, Journal
<1>2. ASSUME NEW p \in Proc, ReconcileFails(p) PROVE TypeOK'
  BY <1>2, FaultType, RefuseType
  DEF ReconcileFails, TypeOK
<1>3. ASSUME NEW p \in Proc, ReAbsent(p) PROVE TypeOK'
  BY <1>3, FaultType, NextRoleType
  DEF ReAbsent, TypeOK, RoleOrder, Role
<1>4. ASSUME NEW p \in Proc, ReKnown(p) PROVE TypeOK'
  BY <1>4, FaultType
  DEF ReKnown, TypeOK, Goto, Label
<1>5. ASSUME NEW p \in Proc, ReDiscovered(p) PROVE TypeOK'
  <2>1. Observing(disk, memory[p] \cup {RoleOrder[cursor[p]]}) \in Journal \cup {NoJournal}
    BY <1>5, HoldsIdentity DEF ReDiscovered, Observing, Journal, At, Reconciling, TypeOK, RoleOrder, Role, Resource
  <2>2. "reRemove" \in Label
    BY DEF Label, AfterReconcile
  <2>3. memory[p] \cup {RoleOrder[cursor[p]]} \in SUBSET Role
    BY DEF TypeOK, RoleOrder, Role
  <2>4. memory' \in [Proc -> SUBSET Role]
    BY <1>5, <2>3 DEF ReDiscovered, TypeOK
  <2>5. /\ disk' \in Journal \cup {NoJournal}
        /\ pc' \in [Proc -> Label] /\ cont' \in [Proc -> Label]
        /\ result' \in [Proc -> Result] /\ faults' \in 0..MaxFaults
    BY <1>5, <2>1, <2>2, WriteType DEF ReDiscovered
  <2> QED
    BY <1>5, <2>4, <2>5 DEF ReDiscovered, TypeOK
<1>6. ASSUME NEW p \in Proc, ReTaken(p) \/ ReUnremoved(p) PROVE TypeOK'
  BY <1>6, FaultType, RefuseType
  DEF ReTaken, ReUnremoved, TypeOK
<1>7. ASSUME NEW p \in Proc, ReRemove(p) PROVE TypeOK'
  BY <1>7, FaultType, RefuseType
  DEF ReRemove, RemoveByName, TypeOK, Goto, Label
<1>8. ASSUME NEW p \in Proc, ReVerify(p) PROVE TypeOK'
  BY <1>8, FaultType, NextRoleType
  DEF ReVerify, TypeOK
<1>9. ASSUME NEW p \in Proc, ReInDoubt(p) PROVE TypeOK'
  BY <1>9, FaultType, RefuseType
  DEF ReInDoubt, TypeOK
<1>10. ASSUME NEW p \in Proc, ReFinish(p) PROVE TypeOK'
  <2>1. Observing(disk, memory[p]) \in Journal \cup {NoJournal}
    BY <1>10, HoldsIdentity DEF ReFinish, Observing, Journal, At, Reconciling, TypeOK
  <2>2. "reForget" \in Label
    BY DEF Label, AfterReconcile
  <2> QED
    BY <1>10, <2>1, <2>2, WriteType DEF ReFinish, TypeOK
<1>11. ASSUME NEW p \in Proc, ReForget(p) PROVE TypeOK'
  <2>1. NoJournal \in Journal \cup {NoJournal}
    BY <1>11 DEF TypeOK
  <2>2. AfterReconcile(p) \in Label
    BY DEF Label, AfterReconcile
  <2> QED
    BY <1>11, <2>1, <2>2, WriteType DEF ReForget, TypeOK
<1>12. ASSUME NEW p \in Proc, ReMoved(p) PROVE TypeOK'
  BY <1>12, FaultType, RefuseType
  DEF ReMoved, TypeOK
<1>13. ASSUME NEW p \in Proc, Prepare(p) PROVE TypeOK'
  <2>1. faults' \in 0..MaxFaults
    BY <1>13, FaultType DEF Prepare
  <2>2. box' \in [Proc -> Box]
    BY <1>13 DEF Prepare, TypeOK, NoBox, Box, Status
  <2>3. result' \in [Proc -> Result] /\ pc' \in [Proc -> Label]
    BY <1>13, InfraType DEF Prepare, TypeOK, Goto, Label
  <2> QED
    BY <1>13, <2>1, <2>2, <2>3 DEF Prepare, TypeOK
<1>14. ASSUME NEW p \in Proc, Intend(p) PROVE TypeOK'
  <2>1. Entry(p, {}) \in Journal \cup {NoJournal}
    BY <1>14, HoldsIdentity DEF Intend, Entry, Journal, At, Attempting
  <2>2. "createVolume" \in Label
    BY DEF Label, AfterReconcile
  <2> QED
    BY <1>14, <2>1, <2>2, WriteType DEF Intend, TypeOK
<1>15. ASSUME NEW p \in Proc, CreateVolume(p) PROVE TypeOK'
  <2>1. pending' \subseteq Resource /\ settled' \subseteq Engine
    BY <1>15, RequestType DEF CreateVolume, At, Attempting, Working, Role
  <2> QED
    BY <1>15, <2>1, FaultType DEF CreateVolume, TypeOK, Goto, Label
<1>16. ASSUME NEW p \in Proc, VolumeReply(p) PROVE TypeOK'
  <2>1. Entry(p, memory[p] \cup {"volume"}) \in Journal \cup {NoJournal}
    BY <1>16, HoldsIdentity DEF VolumeReply, Entry, Journal, TypeOK, Role, At, Attempting, Working
  <2>2. "createHelper" \in Label
    BY DEF Label, AfterReconcile
  <2> QED
    BY <1>16, <2>1, <2>2, WriteType DEF VolumeReply, Recorded, TypeOK, Role
<1>17. ASSUME NEW p \in Proc, CreateHelper(p) PROVE TypeOK'
  <2>1. pending' \subseteq Resource /\ settled' \subseteq Engine
    BY <1>17, RequestType DEF CreateHelper, At, Attempting, Working, Role
  <2> QED
    BY <1>17, <2>1, FaultType DEF CreateHelper, TypeOK, Goto, Label
<1>18. ASSUME NEW p \in Proc, HelperReply(p) PROVE TypeOK'
  <2>1. Entry(p, memory[p] \cup {"helper"}) \in Journal \cup {NoJournal}
    BY <1>18, HoldsIdentity DEF HelperReply, Entry, Journal, TypeOK, Role, At, Attempting, Working
  <2>2. "hostPolicy" \in Label
    BY DEF Label, AfterReconcile
  <2> QED
    BY <1>18, <2>1, <2>2, WriteType DEF HelperReply, Recorded, TypeOK, Role
<1>19. ASSUME NEW p \in Proc, ReplyInDoubt(p) PROVE TypeOK'
  BY <1>19, FaultType, InfraType
  DEF ReplyInDoubt, TypeOK, Goto, Label
<1>20. ASSUME NEW p \in Proc, HostPolicy(p) PROVE TypeOK'
  BY <1>20, FaultType, InfraType
  DEF HostPolicy, TypeOK, Goto, Label
<1>21. ASSUME NEW p \in Proc, Launch(p) PROVE TypeOK'
  <2>1. pending' \subseteq Resource /\ settled' \subseteq Engine
    BY <1>21, RequestType DEF Launch, At, Attempting, Working, Role, TypeOK
  <2>2. faults' \in 0..MaxFaults
    BY <1>21, FaultType DEF Launch
  <2> QED
    BY <1>21, <2>1, <2>2, InfraType DEF Launch, TypeOK, Goto, Label
<1>22. ASSUME NEW p \in Proc, RunEnds(p) PROVE TypeOK'
  <2>1. faults' \in 0..MaxFaults
    BY <1>22, FaultType DEF RunEnds
  <2>2. result' \in [Proc -> Result] /\ pc' \in [Proc -> Label]
    BY <1>22, VerdictType DEF RunEnds, TypeOK, Box
  <2> QED
    BY <1>22, <2>1, <2>2 DEF RunEnds, TypeOK
<1>23. ASSUME NEW p \in Proc, RunTerminated(p) PROVE TypeOK'
  <2>1. faults' \in 0..MaxFaults
    BY <1>23, FaultType DEF RunTerminated
  <2>2. result' \in [Proc -> Result] /\ pc' \in [Proc -> Label]
    BY <1>23, VerdictType DEF RunTerminated, TypeOK, Box
  <2> QED
    BY <1>23, <2>1, <2>2 DEF RunTerminated, TypeOK
<1>24. ASSUME NEW p \in Proc, ClientFails(p) PROVE TypeOK'
  <2>1. faults' \in 0..MaxFaults
    BY <1>24, FaultType DEF ClientFails
  <2>2. result' \in [Proc -> Result] /\ pc' \in [Proc -> Label]
    BY <1>24, VerdictType DEF ClientFails, TypeOK, Box
  <2> QED
    BY <1>24, <2>1, <2>2 DEF ClientFails, TypeOK
<1>25. ASSUME NEW p \in Proc, RunRaises(p) PROVE TypeOK'
  BY <1>25, FaultType
  DEF RunRaises, Raised, TypeOK, Goto, Label, Result
<1>26. ASSUME NEW p \in Proc, Identify(p) PROVE TypeOK'
  BY <1>26, FaultType, InfraType
  DEF Identify, TypeOK, Goto, Label
<1>27. ASSUME NEW p \in Proc, InspectAbsent(p) PROVE TypeOK'
  BY <1>27, FaultType, InfraType
  DEF InspectAbsent, TypeOK, Goto, Label
<1>28. ASSUME NEW p \in Proc, InspectFails(p) PROVE TypeOK'
  BY <1>28, FaultType, InfraType
  DEF InspectFails, TypeOK, Goto, Label
<1>29. ASSUME NEW p \in Proc, InspectOwned(p) PROVE TypeOK'
  <2>1. Entry(p, memory[p] \cup {"participant"}) \in Journal \cup {NoJournal}
    BY <1>29, HoldsIdentity DEF InspectOwned, Entry, Journal, TypeOK, Role, At, Attempting, Working
  <2>2. "stop" \in Label
    BY DEF Label, AfterReconcile
  <2> QED
    BY <1>29, <2>1, <2>2, WriteType DEF InspectOwned, TypeOK, Role, Seen, Box
<1>30. ASSUME NEW p \in Proc, Stop(p) PROVE TypeOK'
  <2>1. faults' \in 0..MaxFaults
    BY <1>30, FaultType DEF Stop
  <2>2. box' \in [Proc -> Box]
    <3>1. [status |-> "exited", code |-> 1, health |-> box[p].health] \in Box
      BY DEF TypeOK, Box, Status
    <3> QED
      BY <1>30, <3>1 DEF Stop, TypeOK
  <2>3. result' \in [Proc -> Result] /\ pc' \in [Proc -> Label]
    BY <1>30, InfraType DEF Stop, TypeOK, Goto, Label
  <2> QED
    BY <1>30, <2>1, <2>2, <2>3 DEF Stop, TypeOK
<1>31. ASSUME NEW p \in Proc, Restat(p) PROVE TypeOK'
  <2>1. faults' \in 0..MaxFaults
    BY <1>31, FaultType DEF Restat
  <2>2. seen' \in [Proc -> Seen]
    <3>1. [first |-> seen[p].first, now |-> box[p]] \in Seen
      BY DEF TypeOK, Seen
    <3> QED
      BY <1>31, <3>1 DEF Restat, TypeOK
  <2>3. result' \in [Proc -> Result] /\ pc' \in [Proc -> Label]
    BY <1>31, InfraType DEF Restat, TypeOK, Goto, Label
  <2> QED
    BY <1>31, <2>1, <2>2, <2>3 DEF Restat, TypeOK
<1>32. ASSUME NEW p \in Proc, Remove(p) PROVE TypeOK'
  <2>1. Classify(result[p], seen[p]) \in Result
    BY ClassifyType DEF TypeOK
  <2>2. Infra(Classify(result[p], seen[p]), Pending) \in Result
    BY <2>1, InfraType
  <2>3. faults' \in 0..MaxFaults
    BY <1>32, FaultType DEF Remove
  <2> QED
    BY <1>32, <2>1, <2>2, <2>3 DEF Remove, TypeOK, Goto, Label
<1>33. ASSUME NEW p \in Proc, Clean(p) PROVE TypeOK'
  BY <1>33, FaultType, InfraType
  DEF Clean, TypeOK, Goto, Label
<1>34. ASSUME NEW p \in Proc, CleanHelper(p) PROVE TypeOK'
  BY <1>34, FaultType, InfraType
  DEF CleanHelper, CleanRole, TypeOK, Goto, Label
<1>35. ASSUME NEW p \in Proc, CleanVolume(p) PROVE TypeOK'
  BY <1>35, FaultType, InfraType
  DEF CleanVolume, CleanRole, TypeOK, Goto, Label
<1>55. ASSUME NEW p \in Proc, DropHelper(p) PROVE TypeOK'
  BY <1>55, FaultType, InfraType
  DEF DropHelper, DropRole, RemoveByName, TypeOK, Goto, Label
<1>56. ASSUME NEW p \in Proc, DropVolume(p) PROVE TypeOK'
  BY <1>56, FaultType, InfraType
  DEF DropVolume, DropRole, RemoveByName, TypeOK, Goto, Label
<1>36. ASSUME NEW p \in Proc, KeepJournal(p) PROVE TypeOK'
  BY <1>36, FaultType
  DEF KeepJournal, TypeOK, Goto, Label
<1>37. ASSUME NEW p \in Proc, Settle(p) PROVE TypeOK'
  <2>1. Entry(p, Role) \in Journal \cup {NoJournal}
    BY <1>37, HoldsIdentity DEF Settle, Entry, Journal, At, Attempting, Working
  <2>2. "forget" \in Label
    BY DEF Label, AfterReconcile
  <2>3. CASE disk = NoJournal /\ Calm /\ Goto(p, "publish") /\ UNCHANGED <<disk, cont, result>>
    BY <1>37, <2>3, FaultType DEF Settle, TypeOK, Goto, Label
  <2>4. CASE Write(p, Entry(p, Role), "forget")
    BY <1>37, <2>1, <2>2, <2>4, WriteType DEF Settle, TypeOK
  <2> QED
    BY <1>37, <2>3, <2>4 DEF Settle
<1>38. ASSUME NEW p \in Proc, Forget(p) PROVE TypeOK'
  <2>1. NoJournal \in Journal \cup {NoJournal}
    BY <1>38 DEF Forget
  <2>2. "publish" \in Label
    BY DEF Label, AfterReconcile
  <2> QED
    BY <1>38, <2>1, <2>2, WriteType DEF Forget, TypeOK
<1>39. ASSUME NEW p \in Proc, ForgetFails(p) PROVE TypeOK'
  BY <1>39, FaultType, RefuseType
  DEF ForgetFails, TypeOK
<1>40. ASSUME NEW p \in Proc, Publish(p) PROVE TypeOK'
  BY <1>40, FaultType, InfraType
  DEF Publish, TypeOK, Goto, Label
<1>41. ASSUME NEW p \in Proc, Fsync(p) PROVE TypeOK'
  BY <1>41, FaultType, InfraType
  DEF Fsync, FailedWrite, AfterFailedWrite, FlagsAfterFailedWrite, TypeOK,
      Goto, Label
<1>42. ASSUME NEW p \in Proc, Release(p) PROVE TypeOK'
  BY <1>42, FaultType, VanishType
  DEF Release, TypeOK
<1>43. ASSUME NEW p \in Proc, NEW m \in Mode, Start(p, m) PROVE TypeOK'
  BY <1>43, FaultType DEF Start, TypeOK, Goto, Label
<1>44. ASSUME NEW p \in Proc, ContainerStarts(p) PROVE TypeOK'
  <2>1. [status |-> "running", code |-> box[p].code, health |-> box[p].health] \in Box
    BY DEF TypeOK, Box, Status
  <2> QED
    BY <1>44, <2>1, FaultType DEF ContainerStarts, TypeOK
<1>45. ASSUME NEW p \in Proc, ContainerExits(p) PROVE TypeOK'
  <2>1. PICK b \in Box : box' = [box EXCEPT ![p] = b]
    BY <1>45 DEF ContainerExits, Box, Status
  <2> QED
    BY <1>45, <2>1, FaultType DEF ContainerExits, TypeOK
<1>46. ASSUME NEW p \in Proc, Crash(p) PROVE TypeOK'
  <2>1. faults' \in 0..MaxFaults
    BY <1>46, FaultType DEF Crash
  <2>2. {p} \in SUBSET Proc
    OBVIOUS
  <2> QED
    BY <1>46, <2>1, <2>2, VanishType DEF Crash, TypeOK
<1>47. ASSUME NEW r \in pending, DaemonCreates(r) PROVE TypeOK'
  <2>1. Created \in Box
    BY DEF Created, Box, Status
  <2> QED
    BY <1>47, <2>1, FaultType DEF DaemonCreates, TypeOK
<1>48. ASSUME NEW r \in pending, DaemonRefuses(r) PROVE TypeOK'
  BY <1>48, FaultType DEF DaemonRefuses, TypeOK
<1>49. ASSUME NEW e \in Engine, EngineRestarts(e) PROVE TypeOK'
  BY <1>49, FaultType DEF EngineRestarts, TypeOK
<1>50. ASSUME NEW e \in Engine, Repoint(e) PROVE TypeOK'
  BY <1>50, FaultType DEF Repoint, TypeOK
<1>51. CASE PointAtJournal
  BY <1>51, FaultType DEF PointAtJournal, TypeOK, Journal
<1>52. CASE PowerLoss
  <2>1. faults' \in 0..MaxFaults
    BY <1>52, FaultType DEF PowerLoss
  <2> QED
    BY <1>52, <2>1, VanishType DEF PowerLoss, TypeOK
<1>53. CASE UNCHANGED vars
  BY <1>53 DEF vars, TypeOK
<1>54. ASSUME NEW p \in Proc, Step(p) PROVE TypeOK'
  BY <1>54, <1>1, <1>2, <1>3, <1>4, <1>5, <1>6, <1>7, <1>8, <1>9, <1>10, <1>11, <1>12, <1>13, <1>14, <1>15, <1>16, <1>17, <1>18, <1>19, <1>20, <1>21, <1>22, <1>23, <1>24, <1>25, <1>26, <1>27, <1>28, <1>29, <1>30, <1>31, <1>32, <1>33, <1>34, <1>35, <1>36, <1>37, <1>38, <1>39, <1>40, <1>41, <1>42, <1>55, <1>56 DEF Step
<1> QED
  BY <1>43, <1>44, <1>45, <1>46, <1>47, <1>48, <1>49, <1>50, <1>51, <1>52, <1>53, <1>54 DEF Next

-----------------------------------------------------------------------------
(* What the steps have in common. *)

\* p alone takes the step, and goes on.
Own(p) ==
  /\ lock' = lock
  /\ pc[p] # "idle" /\ pc'[p] # "idle"
  /\ \A q \in Proc \ {p} :
       pc'[q] = pc[q] /\ cursor'[q] = cursor[q] /\ result'[q] = result[q]

\* The others are idle, so that a step is judged by what it does to the shared
\* state and by what the one who takes it knows afterwards.
LEMMA Reduce ==
  ASSUME Inv, TypeOK', NEW p \in Proc, Own(p), Global', Local(p)'
  PROVE  Inv'
  BY DEF Inv, Own, MutualExclusion, IdleIsFresh

\* Resources and requests that go away endanger nothing.
LEMMA GlobalLess ==
  ASSUME Inv, live' \subseteq live, pending' \subseteq pending,
         UNCHANGED <<settled, born, disk, durable>>
  PROVE  Global'
  BY DEF Inv, Global, JournalsKnown, SettledMeansQuiet, OneRequestPerRole,
         NoOrphan, ObservedIsSettled, Covers

\* What giving up adds to a result: it stays raised, or it gains the flags.
LEMMA InfraFlags ==
  ASSUME NEW res \in Result,
         NEW flags \in SUBSET {"cleanup_pending", "operator_terminated"}
  PROVE  /\ Infra(res, flags).kind = "raised" <=> res.kind = "raised"
         /\ res.kind # "raised" => Infra(res, flags).flags = res.flags \cup flags
  BY DEF Infra, Result

\* A verdict given up with cleanup_pending lets nobody forget the journal.
LEMMA GiveUp ==
  ASSUME TypeOK, NEW p \in Proc,
         result' = [result EXCEPT ![p] = Infra(@, Pending)]
  PROVE  ~Clear(p)'
<1>1. result[p] \in Result /\ result'[p] = Infra(result[p], Pending)
  BY DEF TypeOK
<1> QED
  BY <1>1, InfraFlags DEF Clear, CleanupPending, Pending

\* A run that refuses to start is over and says cleanup_pending.
LEMMA RefuseGivesUp ==
  ASSUME TypeOK, NEW p \in Proc, Refuse(p)
  PROVE  pc'[p] = "finish" /\ ~Clear(p)'
  BY GiveUp DEF Refuse, Goto, TypeOK

-----------------------------------------------------------------------------
(* The reconciliation. *)

\* The role is accounted for: nothing of it is left, or it is known to be in doubt.
Visited(p, role) == role \in missing[p] \/ Gone(p, role)

\* Once the role in turn is accounted for too, every role up to the cursor is,
\* and after the last one every role.
LEMMA VisitedAll ==
  ASSUME TypeOK, NEW p \in Proc, NextRole(p), pc'[p] # "sync",
         NEW k \in 1..3, k = cursor[p],
         Visited(p, RoleOrder[k])',
         \A i \in 1..(k - 1) : Visited(p, RoleOrder[i])'
  PROVE  ReconcileKnows(p)'
<1>1. \A i \in 1..k : Visited(p, RoleOrder[i])'
  <2>1. \A i \in 1..k : i \in 1..(k - 1) \/ i = k
    OBVIOUS
  <2> QED
    BY <2>1
<1>2. CASE k = 3
  <2>1. pc'[p] = "reFinish" /\ At(p)' = "reFinish"
    BY <1>2 DEF NextRole, Goto, TypeOK, RoleOrder, At
  <2>2. \A role \in Role : \E i \in 1..3 : role = RoleOrder[i]
    BY DEF Role, RoleOrder
  <2>3. \A role \in Role : Visited(p, role)'
    BY <1>1, <1>2, <2>2
  <2> QED
    BY <2>1, <2>3 DEF ReconcileKnows, Visited
<1>3. CASE k # 3
  <2>1. /\ pc'[p] = "reInspect" /\ At(p)' = "reInspect"
        /\ cursor'[p] = k + 1 /\ (k + 1) - 1 = k
    BY <1>3 DEF NextRole, Goto, TypeOK, RoleOrder, At
  <2>2. \A i \in 1..(cursor'[p] - 1) : Visited(p, RoleOrder[i])'
    BY <1>1, <2>1
  <2> QED
    BY <2>1, <2>2 DEF ReconcileKnows, Visited
<1> QED
  BY <1>2, <1>3

\* Reading the journal: the reconciler comes to know what the disk says.
LEMMA LoadJournalStep ==
  ASSUME Inv, TypeOK', NEW p \in Proc, LoadJournal(p) PROVE Inv'
<1>1. TypeOK /\ Local(p) /\ pc[p] = "load" /\ At(p) = "load"
  BY DEF Inv, LoadJournal, At
<1>2. pc'[p] \in {"prepare", "finish", "reInspect"} /\ At(p)' = pc'[p]
  BY <1>1 DEF LoadJournal, Goto, TypeOK, At, Refuse, AfterReconcile
<1>3. Own(p)
  BY <1>1 DEF Own, TypeOK, LoadJournal, Goto, Refuse, AfterReconcile, localVars, diskVars
<1>4. Global'
  BY GlobalLess DEF LoadJournal, dockerVars, diskVars, Refuse, AfterReconcile
<1>5. \/ disk = NoJournal /\ pc'[p] \in {"prepare", "finish"}
      \/ pc'[p] = "finish" /\ ~Clear(p)'
      \/ /\ disk # NoJournal /\ disk.eng = engine /\ pc'[p] = "reInspect"
         /\ home'[p] = engine /\ tok'[p] = disk.tok
         /\ memory'[p] = disk.observed /\ UNCHANGED result
  BY <1>1, RefuseGivesUp DEF LoadJournal, Goto, TypeOK, AfterReconcile
<1>6. Bearings(p)'
  <2>1. CASE pc'[p] = "reInspect"
    <3>1. disk \in Journal /\ disk.eng = born[disk.tok]
      BY <1>2, <1>5, <2>1 DEF Inv, TypeOK, Global, JournalsKnown
    <3>2. \A role \in disk.observed :
            [eng |-> disk.eng, tok |-> disk.tok, role |-> role] \notin pending
      BY <1>2, <1>5, <2>1 DEF Inv, Global, ObservedIsSettled
    <3>3. Identity(p)' /\ Remembered(p)'
      BY <1>1, <1>5, <2>1, <3>1, <3>2
      DEF Identity, Remembered, AtHome, LoadJournal, dockerVars, Journal
    <3>4. SyncKnows(p)' /\ NotRaised(p)' /\ Confirmed(p)'
      BY <1>1, <1>2, <1>5, <2>1
      DEF Local, Bearings, SyncKnows, NotRaised, Cleaning, Confirmed, LoadJournal,
          dockerVars, diskVars, localVars, Reconciling
    <3> QED
      BY <3>3, <3>4 DEF Bearings
  <2>2. CASE pc'[p] # "reInspect"
    BY <1>1, <1>2, <1>5, <2>2, InfraFlags
    DEF Local, Bearings, SyncKnows, NotRaised, Cleaning, Identity, Remembered, Confirmed,
        LoadJournal, Refuse, Goto, TypeOK, dockerVars, diskVars, localVars,
        Reconciling, Attempting, Working, Pending
  <2> QED
    BY <2>1, <2>2
<1>7. JournalHeld(p)'
  BY <1>1, <1>2, <1>5
  DEF JournalHeld, OnRecord, LoadJournal, diskVars, Reconciling, Working, Clear
<1>8. ReconcileKnows(p)'
  BY <1>1, <1>2, <1>5
  DEF Local, ReconcileKnows, Gone, AtHome, LoadJournal, Goto, TypeOK,
      dockerVars, diskVars, localVars, Refuse, AfterReconcile
<1>9. AttemptStarts(p)' /\ ParticipantKnows(p)' /\ CleanupKnows(p)'
  BY <1>2 DEF AttemptStarts, ParticipantKnows, CleanupKnows, Cleaning
<1> QED
  BY <1>3, <1>4, <1>6, <1>7, <1>8, <1>9, Reduce DEF Local

\* A reconciliation that fails leaves the journal where it is.
LEMMA ReconcileFailsStep ==
  ASSUME Inv, TypeOK', NEW p \in Proc, ReconcileFails(p) PROVE Inv'
<1>1. TypeOK /\ Local(p) /\ pc[p] # "idle" /\ pc[p] # "sync" /\ At(p) = pc[p]
  BY DEF Inv, ReconcileFails, At
<1>2. pc'[p] = "finish" /\ At(p)' = pc'[p]
  BY <1>1 DEF ReconcileFails, Goto, TypeOK, At, Refuse
<1>3. Own(p)
  BY <1>1 DEF Own, TypeOK, ReconcileFails, Goto, Refuse, localVars, diskVars
<1>4. Global'
  BY GlobalLess DEF ReconcileFails, dockerVars, diskVars, Refuse
<1>5. ~Clear(p)'
  BY <1>1, RefuseGivesUp DEF ReconcileFails
<1>6. Bearings(p)'
  BY <1>1, <1>2, <1>5
  DEF Local, Bearings, SyncKnows, NotRaised, Cleaning, Identity, Remembered, Confirmed,
      AtHome, Reconciling, Attempting, Working, ReconcileFails, Goto, TypeOK,
      dockerVars, diskVars, localVars, Refuse
<1>7. JournalHeld(p)'
  BY <1>1, <1>2, <1>5
  DEF Local, JournalHeld, OnRecord, Clear, Reconciling, Working, ReconcileFails, Goto, TypeOK,
      dockerVars, diskVars, localVars, Refuse
<1>8. ReconcileKnows(p)' /\ AttemptStarts(p)' /\ ParticipantKnows(p)' /\ CleanupKnows(p)'
  BY <1>2 DEF ReconcileKnows, AttemptStarts, ParticipantKnows, CleanupKnows, Cleaning
<1> QED
  BY <1>3, <1>4, <1>6, <1>7, <1>8, Reduce DEF Local

\* An absent role is settled only if the journal says that it was observed.
LEMMA ReAbsentStep ==
  ASSUME Inv, TypeOK', NEW p \in Proc, ReAbsent(p) PROVE Inv'
<1>1. TypeOK /\ Local(p) /\ pc[p] = "reInspect" /\ At(p) = "reInspect"
  BY DEF Inv, ReAbsent, At
<1>2. pc'[p] \in {"reInspect", "reFinish"} /\ At(p)' = pc'[p]
  BY <1>1 DEF ReAbsent, Goto, TypeOK, At, NextRole
<1>3. Own(p)
  BY <1>1 DEF Own, TypeOK, ReAbsent, Goto, NextRole, localVars, diskVars
<1>4. Global'
  BY GlobalLess DEF ReAbsent, dockerVars, diskVars, NextRole
<1>5. Bearings(p)'
  <2>1. AtHome(p, RoleOrder[cursor[p]]) \notin pending
        \/ RoleOrder[cursor[p]] \notin memory'[p]
    BY <1>1
    DEF Inv, Global, SettledMeansQuiet, Local, Bearings, Remembered, Confirmed,
        Reconciling, AtHome, ReAbsent, TypeOK
  <2>2. Remembered(p)'
    BY <1>1, <1>2, <2>1
    DEF Local, Bearings, Remembered, Reconciling, AtHome, ReAbsent, TypeOK,
        dockerVars
  <2>3. SyncKnows(p)' /\ NotRaised(p)' /\ Identity(p)' /\ Confirmed(p)'
    BY <1>1, <1>2
    DEF Local, Bearings, SyncKnows, NotRaised, Cleaning, Identity, Confirmed, Reconciling,
        ReAbsent, dockerVars, diskVars
  <2> QED
    BY <2>2, <2>3 DEF Bearings
<1>6. JournalHeld(p)'
  BY <1>1, <1>2
  DEF Local, JournalHeld, OnRecord, Clear, Reconciling, Working, ReAbsent, Goto, TypeOK,
      dockerVars, diskVars, localVars, NextRole
<1>7. ReconcileKnows(p)'
  <2>1. PICK k \in 1..3 : k = cursor[p]
    BY <1>1 DEF TypeOK
  <2>2. RoleOrder[k] \in missing'[p] \/ AtHome(p, RoleOrder[k]) \notin pending
    BY <1>1, <2>1
    DEF Inv, Global, SettledMeansQuiet, Local, Bearings, Remembered, Confirmed,
        Reconciling, AtHome, ReAbsent, TypeOK
  <2>3. engine = home[p] => AtHome(p, RoleOrder[k]) \notin live
    BY <2>1 DEF ReAbsent, Absent, Name, AtHome
  <2>4. Visited(p, RoleOrder[k])'
    BY <2>2, <2>3 DEF Visited, Gone, AtHome, ReAbsent, dockerVars
  <2>5. \A i \in 1..(k - 1) : Visited(p, RoleOrder[i])'
    BY <1>1, <2>1
    DEF Local, ReconcileKnows, Visited, ReAbsent, Gone, AtHome, TypeOK, dockerVars
  <2> QED
    BY <1>1, <1>2, <2>1, <2>4, <2>5, VisitedAll DEF ReAbsent
<1>8. AttemptStarts(p)' /\ ParticipantKnows(p)' /\ CleanupKnows(p)'
  BY <1>2 DEF AttemptStarts, ParticipantKnows, CleanupKnows, Cleaning
<1> QED
  BY <1>3, <1>4, <1>5, <1>6, <1>7, <1>8, Reduce DEF Local

\* A role that is there and was observed before goes on to its removal.
LEMMA ReKnownStep ==
  ASSUME Inv, TypeOK', NEW p \in Proc, ReKnown(p) PROVE Inv'
<1>1. TypeOK /\ Local(p) /\ pc[p] = "reInspect" /\ At(p) = "reInspect"
  BY DEF Inv, ReKnown, At
<1>2. pc'[p] = "reRemove" /\ At(p)' = pc'[p]
  BY <1>1 DEF ReKnown, Goto, TypeOK, At
<1>3. Own(p)
  BY <1>1 DEF Own, TypeOK, ReKnown, Goto, localVars, diskVars
<1>4. Global'
  BY GlobalLess DEF ReKnown, dockerVars, diskVars
<1>5. Bearings(p)'
  BY <1>1, <1>2
  DEF Local, Bearings, SyncKnows, NotRaised, Cleaning, Identity, Remembered, Confirmed,
      AtHome, Reconciling, Attempting, Working, ReKnown, Goto, TypeOK,
      dockerVars, diskVars, localVars
<1>6. JournalHeld(p)'
  BY <1>1, <1>2
  DEF Local, JournalHeld, OnRecord, Clear, Reconciling, Working, ReKnown, Goto, TypeOK,
      dockerVars, diskVars, localVars
<1>7. ReconcileKnows(p)'
  BY <1>1, <1>2
  DEF Local, ReconcileKnows, Gone, AtHome, ReKnown, Goto, TypeOK,
      dockerVars, diskVars, localVars
<1>8. AttemptStarts(p)' /\ ParticipantKnows(p)' /\ CleanupKnows(p)'
  BY <1>2 DEF AttemptStarts, ParticipantKnows, CleanupKnows, Cleaning
<1> QED
  BY <1>3, <1>4, <1>5, <1>6, <1>7, <1>8, Reduce DEF Local

\* A name under another label, and one that is not free after its removal, end the
\* reconciliation and touch nothing.
LEMMA ReTakenStep ==
  ASSUME Inv, TypeOK', NEW p \in Proc, ReTaken(p) \/ ReUnremoved(p) PROVE Inv'
<1>1. TypeOK /\ Local(p) /\ At(p) = pc[p] /\ pc[p] \in {"reInspect", "reVerify"}
  BY DEF Inv, ReTaken, ReUnremoved, At
<1>2. pc'[p] = "finish" /\ At(p)' = pc'[p]
  BY <1>1 DEF ReTaken, ReUnremoved, Goto, TypeOK, At, Refuse
<1>3. Own(p)
  BY <1>1 DEF Own, TypeOK, ReTaken, ReUnremoved, Goto, Refuse, localVars, diskVars
<1>4. Global'
  BY GlobalLess DEF ReTaken, ReUnremoved, dockerVars, diskVars, Refuse
<1>5. ~Clear(p)'
  BY <1>1, RefuseGivesUp DEF ReTaken, ReUnremoved
<1>6. Bearings(p)'
  BY <1>1, <1>2, <1>5
  DEF Local, Bearings, SyncKnows, NotRaised, Cleaning, Identity, Remembered, Confirmed,
      AtHome, Reconciling, Attempting, Working, ReTaken, ReUnremoved, Goto, TypeOK,
      dockerVars, diskVars, localVars, Refuse
<1>7. JournalHeld(p)'
  BY <1>1, <1>2, <1>5
  DEF Local, JournalHeld, OnRecord, Clear, Reconciling, Working, ReTaken,
      ReUnremoved, Goto, TypeOK, dockerVars, diskVars, localVars, Refuse
<1>8. ReconcileKnows(p)' /\ AttemptStarts(p)' /\ ParticipantKnows(p)' /\ CleanupKnows(p)'
  BY <1>2 DEF ReconcileKnows, AttemptStarts, ParticipantKnows, CleanupKnows, Cleaning
<1> QED
  BY <1>3, <1>4, <1>6, <1>7, <1>8, Reduce DEF Local

\* Only a role that is on record as observed is removed.
LEMMA ReRemoveStep ==
  ASSUME Inv, TypeOK', NEW p \in Proc, ReRemove(p) PROVE Inv'
<1>1. TypeOK /\ Local(p) /\ pc[p] = "reRemove" /\ At(p) = "reRemove"
  BY DEF Inv, ReRemove, At
<1>2. pc'[p] \in {"reVerify", "finish"} /\ At(p)' = pc'[p]
  BY <1>1 DEF ReRemove, Goto, TypeOK, At, Refuse, RemoveByName
<1>3. Own(p)
  BY <1>1 DEF Own, TypeOK, ReRemove, Goto, Refuse, RemoveByName, localVars, diskVars
<1>4. Global'
  BY GlobalLess DEF ReRemove, dockerVars, diskVars, Refuse, RemoveByName
<1>5. pc'[p] = "reVerify" \/ ~Clear(p)'
  BY <1>1, RefuseGivesUp DEF ReRemove, Goto, TypeOK
<1>6. Bearings(p)'
  BY <1>1, <1>2, <1>5
  DEF Local, Bearings, SyncKnows, NotRaised, Cleaning, Identity, Remembered, Confirmed,
      AtHome, Reconciling, Attempting, Working, ReRemove, Goto, TypeOK,
      dockerVars, diskVars, localVars, Refuse, RemoveByName
<1>7. JournalHeld(p)'
  BY <1>1, <1>2, <1>5
  DEF Local, JournalHeld, OnRecord, Clear, Reconciling, Working, ReRemove, Goto, TypeOK,
      dockerVars, diskVars, localVars, Refuse, RemoveByName
<1>8. ReconcileKnows(p)'
  <2>1. \A i \in 1..(cursor[p] - 1) :
          RoleOrder[i] \in missing'[p] \/ Gone(p, RoleOrder[i])'
    BY <1>1
    DEF Local, ReconcileKnows, ReRemove, RemoveByName, Gone, AtHome, TypeOK,
        localVars
  <2> QED
    BY <1>1, <1>2, <2>1 DEF Local, ReconcileKnows, ReRemove, localVars
<1>9. AttemptStarts(p)' /\ ParticipantKnows(p)' /\ CleanupKnows(p)'
  BY <1>2 DEF AttemptStarts, ParticipantKnows, CleanupKnows, Cleaning
<1> QED
  BY <1>3, <1>4, <1>6, <1>7, <1>8, <1>9, Reduce DEF Local

\* The second inspection finds nothing: the role is gone for good.
LEMMA ReVerifyStep ==
  ASSUME Inv, TypeOK', NEW p \in Proc, ReVerify(p) PROVE Inv'
<1>1. TypeOK /\ Local(p) /\ pc[p] = "reVerify" /\ At(p) = "reVerify"
  BY DEF Inv, ReVerify, At
<1>2. pc'[p] \in {"reInspect", "reFinish"} /\ At(p)' = pc'[p]
  BY <1>1 DEF ReVerify, Goto, TypeOK, At, NextRole
<1>3. Own(p)
  BY <1>1 DEF Own, TypeOK, ReVerify, Goto, NextRole, localVars, diskVars
<1>4. Global'
  BY GlobalLess DEF ReVerify, dockerVars, diskVars, NextRole
<1>5. Bearings(p)'
  BY <1>1, <1>2
  DEF Local, Bearings, SyncKnows, NotRaised, Cleaning, Identity, Remembered, Confirmed,
      AtHome, Reconciling, Attempting, Working, ReVerify, Goto, TypeOK,
      dockerVars, diskVars, localVars, NextRole
<1>6. JournalHeld(p)'
  BY <1>1, <1>2
  DEF Local, JournalHeld, OnRecord, Clear, Reconciling, Working, ReVerify, Goto, TypeOK,
      dockerVars, diskVars, localVars, NextRole
<1>7. ReconcileKnows(p)'
  <2>1. PICK k \in 1..3 : k = cursor[p]
    BY <1>1 DEF TypeOK
  <2>2. AtHome(p, RoleOrder[k]) \notin pending
    BY <1>1, <2>1
    DEF Local, Bearings, Remembered, ReconcileKnows, Reconciling
  <2>3. engine = home[p] => AtHome(p, RoleOrder[k]) \notin live
    BY <2>1 DEF ReVerify, Absent, Name, AtHome
  <2>4. Visited(p, RoleOrder[k])'
    BY <2>2, <2>3 DEF Visited, Gone, AtHome, ReVerify, dockerVars
  <2>5. \A i \in 1..(k - 1) : Visited(p, RoleOrder[i])'
    BY <1>1, <2>1
    DEF Local, ReconcileKnows, Visited, ReVerify, Gone, AtHome, dockerVars
  <2> QED
    BY <1>1, <1>2, <2>1, <2>4, <2>5, VisitedAll DEF ReVerify
<1>8. AttemptStarts(p)' /\ ParticipantKnows(p)' /\ CleanupKnows(p)'
  BY <1>2 DEF AttemptStarts, ParticipantKnows, CleanupKnows, Cleaning
<1> QED
  BY <1>3, <1>4, <1>5, <1>6, <1>7, <1>8, Reduce DEF Local

\* A role that nobody ever saw keeps the journal.
LEMMA ReInDoubtStep ==
  ASSUME Inv, TypeOK', NEW p \in Proc, ReInDoubt(p) PROVE Inv'
<1>1. TypeOK /\ Local(p) /\ pc[p] = "reFinish" /\ At(p) = "reFinish"
  BY DEF Inv, ReInDoubt, At
<1>2. pc'[p] = "finish" /\ At(p)' = pc'[p]
  BY <1>1 DEF ReInDoubt, Goto, TypeOK, At, Refuse
<1>3. Own(p)
  BY <1>1 DEF Own, TypeOK, ReInDoubt, Goto, Refuse, localVars, diskVars
<1>4. Global'
  BY GlobalLess DEF ReInDoubt, dockerVars, diskVars, Refuse
<1>5. ~Clear(p)'
  BY <1>1, RefuseGivesUp DEF ReInDoubt
<1>6. Bearings(p)'
  BY <1>1, <1>2, <1>5
  DEF Local, Bearings, SyncKnows, NotRaised, Cleaning, Identity, Remembered, Confirmed,
      AtHome, Reconciling, Attempting, Working, ReInDoubt, Goto, TypeOK,
      dockerVars, diskVars, localVars, Refuse
<1>7. JournalHeld(p)'
  BY <1>1, <1>2, <1>5
  DEF Local, JournalHeld, OnRecord, Clear, Reconciling, Working, ReInDoubt, Goto, TypeOK,
      dockerVars, diskVars, localVars, Refuse
<1>8. ReconcileKnows(p)' /\ AttemptStarts(p)' /\ ParticipantKnows(p)' /\ CleanupKnows(p)'
  BY <1>2 DEF ReconcileKnows, AttemptStarts, ParticipantKnows, CleanupKnows, Cleaning
<1> QED
  BY <1>3, <1>4, <1>6, <1>7, <1>8, Reduce DEF Local

\* Another engine answers now: the journal is kept.
LEMMA ReMovedStep ==
  ASSUME Inv, TypeOK', NEW p \in Proc, ReMoved(p) PROVE Inv'
<1>1. TypeOK /\ Local(p) /\ pc[p] = "reForget" /\ At(p) = "reForget"
  BY DEF Inv, ReMoved, At
<1>2. pc'[p] = "finish" /\ At(p)' = pc'[p]
  BY <1>1 DEF ReMoved, Goto, TypeOK, At, Refuse
<1>3. Own(p)
  BY <1>1 DEF Own, TypeOK, ReMoved, Goto, Refuse, localVars, diskVars
<1>4. Global'
  BY GlobalLess DEF ReMoved, dockerVars, diskVars, Refuse
<1>5. ~Clear(p)'
  BY <1>1, RefuseGivesUp DEF ReMoved
<1>6. Bearings(p)'
  BY <1>1, <1>2, <1>5
  DEF Local, Bearings, SyncKnows, NotRaised, Cleaning, Identity, Remembered, Confirmed,
      AtHome, Reconciling, Attempting, Working, ReMoved, Goto, TypeOK,
      dockerVars, diskVars, localVars, Refuse
<1>7. JournalHeld(p)'
  BY <1>1, <1>2, <1>5
  DEF Local, JournalHeld, OnRecord, Clear, Reconciling, Working, ReMoved, Goto, TypeOK,
      dockerVars, diskVars, localVars, Refuse
<1>8. ReconcileKnows(p)' /\ AttemptStarts(p)' /\ ParticipantKnows(p)' /\ CleanupKnows(p)'
  BY <1>2 DEF ReconcileKnows, AttemptStarts, ParticipantKnows, CleanupKnows, Cleaning
<1> QED
  BY <1>3, <1>4, <1>6, <1>7, <1>8, Reduce DEF Local

-----------------------------------------------------------------------------
(* The attempt. *)

\* A fresh token has nothing, and no journal either.
LEMMA PrepareGlobal ==
  ASSUME Inv, NEW p \in Proc, Prepare(p), At(p) = "prepare", pc[p] # "idle" PROVE Global'
<1>1. CASE UNCHANGED born
  BY <1>1, GlobalLess DEF Prepare
<1>2. CASE ~ UNCHANGED born
  <2>1. PICK t \in Token : born[t] = NoEngine /\ born' = [born EXCEPT ![t] = engine]
    BY <1>2 DEF Prepare
  <2>2. engine # NoEngine /\ \A s \in Token : s # t => born'[s] = born[s]
    BY <2>1, ConstantsAssumption DEF Inv, TypeOK
  <2>3. \A j \in {disk, durable} \ {NoJournal} : j.tok \in Token /\ j.tok # t
    BY <2>1, ConstantsAssumption DEF Inv, TypeOK, Global, JournalsKnown, Journal
  <2>4. \A r \in live \cup pending : r.tok \in Token /\ r.tok # t
    BY <2>1 DEF Inv, TypeOK, Global, JournalsKnown, Resource
  <2>5. JournalsKnown'
    BY <2>2, <2>3, <2>4 DEF Inv, Global, JournalsKnown, Prepare
  <2>6. NoOrphan'
    BY <2>2, <2>4 DEF Inv, Global, NoOrphan, Covers, Prepare
  <2> QED
    BY <2>5, <2>6
    DEF Inv, Global, SettledMeansQuiet, OneRequestPerRole, ObservedIsSettled,
        Prepare
<1> QED
  BY <1>1, <1>2

\* A request is made under a journal that names its attempt, on disk and
\* durable, for a role never asked for and not recorded as observed.
LEMMA RequestGlobal ==
  ASSUME Inv, NEW p \in Proc, NEW role \in Role, Request(p, role),
         At(p) \in Working \ {"settle"}, pc[p] # "idle", NotAsked(p, role),
         durable = disk, role \notin disk.observed,
         UNCHANGED <<live, born, disk, durable>>
  PROVE  Global'
<1>1. /\ tok[p] \in Token /\ home[p] \in Engine /\ home[p] = born[tok[p]]
      /\ OnRecord(disk, p)
  BY DEF Inv, Local, Bearings, Identity, JournalHeld, Attempting
<1>2. Name(p, role).tok = tok[p] /\ Name(p, role).role = role
  BY DEF Name
<1>3. JournalsKnown'
  BY <1>1, <1>2, ConstantsAssumption DEF Inv, Global, JournalsKnown, Request
<1>4. SettledMeansQuiet'
  BY DEF Inv, Global, SettledMeansQuiet, Request, Name
<1>5. OneRequestPerRole'
  BY <1>2 DEF Inv, Global, OneRequestPerRole, NotAsked, Request
<1>6. NoOrphan'
  BY <1>1, <1>2 DEF Inv, Global, NoOrphan, Covers, OnRecord, Request
<1>7. ObservedIsSettled'
  BY <1>2 DEF Inv, Global, ObservedIsSettled, Request
<1> QED
  BY <1>3, <1>4, <1>5, <1>6, <1>7 DEF Global

\* Nothing has been asked for before the intent is on disk.
LEMMA PrepareStep ==
  ASSUME Inv, TypeOK', NEW p \in Proc, Prepare(p) PROVE Inv'
<1>1. TypeOK /\ Local(p) /\ pc[p] = "prepare" /\ At(p) = "prepare"
  BY DEF Inv, Prepare, At
<1>2. pc'[p] \in {"intend", "finish"} /\ At(p)' = pc'[p]
  BY <1>1 DEF Prepare, Goto, TypeOK, At
<1>3. Own(p)
  BY <1>1 DEF Own, TypeOK, Prepare, Goto, localVars, diskVars
<1>4. Global'
  BY <1>1, PrepareGlobal DEF Prepare
<1>5. Bearings(p)'
  BY <1>1, <1>2
  DEF Local, Bearings, SyncKnows, NotRaised, Cleaning, Identity, Remembered, Confirmed,
      AtHome, Reconciling, Attempting, Working, Prepare, Goto, TypeOK,
      dockerVars, diskVars, localVars
<1>6. JournalHeld(p)'
  BY <1>1, <1>2
  DEF Local, JournalHeld, OnRecord, Clear, Reconciling, Working, Prepare, Goto, TypeOK,
      dockerVars, diskVars, localVars
<1>7. AttemptStarts(p)'
  <2>1. CASE pc'[p] = "finish"
    BY <1>2, <2>1 DEF AttemptStarts
  <2>2. CASE pc'[p] = "intend"
    <3>1. tok'[p] \in Token /\ born[tok'[p]] = NoEngine
      BY <1>1, <2>2 DEF Prepare, Goto, TypeOK
    <3>2. \A role \in Role : NotAsked(p, role)'
      BY <3>1 DEF Inv, Global, JournalsKnown, NotAsked, Prepare
    <3>3. memory'[p] = {} /\ box'[p] = NoBox
      BY <1>1, <2>2 DEF Prepare, Goto, TypeOK
    <3> QED
      BY <1>2, <2>2, <3>2, <3>3 DEF AttemptStarts
  <2> QED
    BY <1>2, <2>1, <2>2
<1>8. ReconcileKnows(p)' /\ ParticipantKnows(p)' /\ CleanupKnows(p)'
  BY <1>2 DEF ReconcileKnows, ParticipantKnows, CleanupKnows, Cleaning
<1> QED
  BY <1>3, <1>4, <1>5, <1>6, <1>7, <1>8, Reduce DEF Local

\* The volume's request is covered by the intent.
LEMMA CreateVolumeStep ==
  ASSUME Inv, TypeOK', NEW p \in Proc, CreateVolume(p) PROVE Inv'
<1>1. TypeOK /\ Local(p) /\ pc[p] = "createVolume" /\ At(p) = "createVolume"
  BY DEF Inv, CreateVolume, At
<1>2. pc'[p] = "volumeReply" /\ At(p)' = pc'[p]
  BY <1>1 DEF CreateVolume, Goto, TypeOK, At
<1>3. Own(p)
  BY <1>1 DEF Own, TypeOK, CreateVolume, Goto, localVars, diskVars
<1>4. Global'
  BY <1>1, RequestGlobal DEF CreateVolume, Role, Local, AttemptStarts, Working,
      Attempting, Entry, diskVars, dockerVars
<1>5. Bearings(p)'
  <2>1. \A s \in pending' \ pending : s.role = "volume"
    BY DEF CreateVolume, Request, Name
  <2>2. "volume" \notin memory[p]
    BY <1>1 DEF Local, AttemptStarts
  <2>3. Remembered(p)'
    BY <1>1, <1>2, <2>1, <2>2
    DEF Local, Bearings, Remembered, AtHome, Attempting, Working, CreateVolume
  <2>4. SyncKnows(p)' /\ NotRaised(p)' /\ Identity(p)' /\ Confirmed(p)'
    BY <1>1, <1>2
    DEF Local, Bearings, SyncKnows, NotRaised, Cleaning, Identity, Confirmed, CreateVolume,
        Reconciling, Attempting, Working
  <2> QED
    BY <2>3, <2>4 DEF Bearings
<1>6. JournalHeld(p)'
  BY <1>1, <1>2
  DEF Local, JournalHeld, OnRecord, Clear, Reconciling, Working, CreateVolume, Goto, TypeOK,
      dockerVars, diskVars, localVars
<1>7. AttemptStarts(p)'
  <2>1. \A s \in pending' \ pending : s.role = "volume"
    BY DEF CreateVolume, Request, Name
  <2> QED
    BY <1>1, <1>2, <2>1
    DEF Local, AttemptStarts, Entry, NotAsked, Role, CreateVolume, diskVars, Goto, TypeOK
<1>8. ReconcileKnows(p)' /\ ParticipantKnows(p)' /\ CleanupKnows(p)'
  BY <1>2 DEF ReconcileKnows, ParticipantKnows, CleanupKnows, Cleaning
<1> QED
  BY <1>3, <1>4, <1>5, <1>6, <1>7, <1>8, Reduce DEF Local

\* The helper's request is covered by the intent.
LEMMA CreateHelperStep ==
  ASSUME Inv, TypeOK', NEW p \in Proc, CreateHelper(p) PROVE Inv'
<1>1. TypeOK /\ Local(p) /\ pc[p] = "createHelper" /\ At(p) = "createHelper"
  BY DEF Inv, CreateHelper, At
<1>2. pc'[p] = "helperReply" /\ At(p)' = pc'[p]
  BY <1>1 DEF CreateHelper, Goto, TypeOK, At
<1>3. Own(p)
  BY <1>1 DEF Own, TypeOK, CreateHelper, Goto, localVars, diskVars
<1>4. Global'
  BY <1>1, RequestGlobal DEF CreateHelper, Role, Local, AttemptStarts, Working,
      Attempting, Entry, diskVars, dockerVars
<1>5. Bearings(p)'
  <2>1. \A s \in pending' \ pending : s.role = "helper"
    BY DEF CreateHelper, Request, Name
  <2>2. "helper" \notin memory[p]
    BY <1>1 DEF Local, AttemptStarts
  <2>3. Remembered(p)'
    BY <1>1, <1>2, <2>1, <2>2
    DEF Local, Bearings, Remembered, AtHome, Attempting, Working, CreateHelper
  <2>4. SyncKnows(p)' /\ NotRaised(p)' /\ Identity(p)' /\ Confirmed(p)'
    BY <1>1, <1>2
    DEF Local, Bearings, SyncKnows, NotRaised, Cleaning, Identity, Confirmed, CreateHelper,
        Reconciling, Attempting, Working
  <2> QED
    BY <2>3, <2>4 DEF Bearings
<1>6. JournalHeld(p)'
  BY <1>1, <1>2
  DEF Local, JournalHeld, OnRecord, Clear, Reconciling, Working, CreateHelper, Goto, TypeOK,
      dockerVars, diskVars, localVars
<1>7. AttemptStarts(p)'
  <2>1. \A s \in pending' \ pending : s.role = "helper"
    BY DEF CreateHelper, Request, Name
  <2> QED
    BY <1>1, <1>2, <2>1
    DEF Local, AttemptStarts, Entry, NotAsked, Role, CreateHelper, diskVars, Goto, TypeOK
<1>8. ParticipantKnows(p)'
  BY <1>1, <1>2
  DEF Local, ParticipantKnows, AtHome, CreateHelper, Goto, TypeOK,
      dockerVars, diskVars, localVars
<1>9. ReconcileKnows(p)' /\ CleanupKnows(p)'
  BY <1>2 DEF ReconcileKnows, CleanupKnows, Cleaning
<1> QED
  BY <1>3, <1>4, <1>5, <1>6, <1>7, <1>8, <1>9, Reduce DEF Local

\* A reply that does not come, or proves nothing, gives the attempt up.
LEMMA ReplyInDoubtStep ==
  ASSUME Inv, TypeOK', NEW p \in Proc, ReplyInDoubt(p) PROVE Inv'
<1>1. TypeOK /\ Local(p) /\ pc[p] # "idle" /\ pc[p] # "sync" /\ At(p) = pc[p]
  BY DEF Inv, ReplyInDoubt, At
<1>2. pc'[p] = "clean" /\ At(p)' = pc'[p]
  BY <1>1 DEF ReplyInDoubt, Goto, TypeOK, At
<1>3. Own(p)
  BY <1>1 DEF Own, TypeOK, ReplyInDoubt, Goto, localVars, diskVars
<1>4. Global'
  BY GlobalLess DEF ReplyInDoubt, dockerVars, diskVars
<1>5. ~Clear(p)'
  BY <1>1, GiveUp DEF ReplyInDoubt
<1>6. Bearings(p)'
  BY <1>1, <1>2, <1>5
  DEF Local, Bearings, SyncKnows, NotRaised, Cleaning, Identity, Remembered, Confirmed,
      AtHome, Reconciling, Attempting, Working, ReplyInDoubt, Goto, TypeOK,
      dockerVars, diskVars, localVars
<1>7. JournalHeld(p)'
  BY <1>1, <1>2, <1>5
  DEF Local, JournalHeld, OnRecord, Clear, Reconciling, Working, ReplyInDoubt, Goto, TypeOK,
      dockerVars, diskVars, localVars
<1>8. CleanupKnows(p)'
  BY <1>1, <1>2, <1>5
  DEF Local, CleanupKnows, Cleaning, Gone, AtHome, ReplyInDoubt, Goto, TypeOK,
      dockerVars, diskVars, localVars
<1>9. ReconcileKnows(p)' /\ AttemptStarts(p)' /\ ParticipantKnows(p)'
  BY <1>2 DEF ReconcileKnows, AttemptStarts, ParticipantKnows
<1> QED
  BY <1>3, <1>4, <1>6, <1>7, <1>8, <1>9, Reduce DEF Local

\* The host's policy is read before anything of the participant is asked for.
LEMMA HostPolicyStep ==
  ASSUME Inv, TypeOK', NEW p \in Proc, HostPolicy(p) PROVE Inv'
<1>1. TypeOK /\ Local(p) /\ pc[p] = "hostPolicy" /\ At(p) = "hostPolicy"
  BY DEF Inv, HostPolicy, At
<1>2. pc'[p] \in {"launch", "clean"} /\ At(p)' = pc'[p]
  BY <1>1 DEF HostPolicy, Goto, TypeOK, At
<1>3. Own(p)
  BY <1>1 DEF Own, TypeOK, HostPolicy, Goto, localVars, diskVars
<1>4. Global'
  BY GlobalLess DEF HostPolicy, dockerVars, diskVars
<1>5. Bearings(p)'
  BY <1>1, <1>2
  DEF Local, Bearings, SyncKnows, NotRaised, Cleaning, Identity, Remembered, Confirmed,
      AtHome, Reconciling, Attempting, Working, HostPolicy, Goto, TypeOK,
      dockerVars, diskVars, localVars
<1>6. JournalHeld(p)'
  BY <1>1, <1>2
  DEF Local, JournalHeld, OnRecord, Clear, Reconciling, Working, HostPolicy, Goto, TypeOK,
      dockerVars, diskVars, localVars
<1>7. AttemptStarts(p)'
  BY <1>1, <1>2
  DEF Local, AttemptStarts, Entry, NotAsked, HostPolicy, Goto, TypeOK,
      dockerVars, diskVars, localVars
<1>8. ParticipantKnows(p)'
  BY <1>1, <1>2
  DEF Local, ParticipantKnows, AtHome, HostPolicy, Goto, TypeOK,
      dockerVars, diskVars, localVars
<1>9. CleanupKnows(p)'
  BY <1>1, <1>2
  DEF Local, AttemptStarts, ParticipantKnows, NotAsked, CleanupKnows, Cleaning, Gone,
      AtHome, HostPolicy, dockerVars, localVars
<1>10. ReconcileKnows(p)'
  BY <1>2 DEF ReconcileKnows
<1> QED
  BY <1>3, <1>4, <1>5, <1>6, <1>7, <1>8, <1>9, <1>10, Reduce DEF Local

\* The participant's request is covered by the intent.
LEMMA LaunchStep ==
  ASSUME Inv, TypeOK', NEW p \in Proc, Launch(p) PROVE Inv'
<1>1. TypeOK /\ Local(p) /\ pc[p] = "launch" /\ At(p) = "launch"
  BY DEF Inv, Launch, At
<1>2. pc'[p] \in {"running", "identify"} /\ At(p)' = pc'[p]
  BY <1>1 DEF Launch, Goto, TypeOK, At
<1>3. Own(p)
  BY <1>1 DEF Own, TypeOK, Launch, Goto, localVars, diskVars
<1>4. Global'
  <2>1. CASE Request(p, "participant")
    BY <1>1, <2>1, RequestGlobal DEF Launch, Role, Local, AttemptStarts, Working,
      Attempting, Entry, diskVars, dockerVars
  <2>2. CASE UNCHANGED <<pending, settled>>
    BY <2>2, GlobalLess DEF Launch, diskVars
  <2> QED
    BY <2>1, <2>2 DEF Launch
<1>5. Bearings(p)'
  <2>1. \A s \in pending' \ pending : s.role = "participant"
    BY DEF Launch, Request, Name
  <2>2. "participant" \notin memory[p]
    BY <1>1 DEF Local, AttemptStarts
  <2>3. Remembered(p)'
    BY <1>1, <1>2, <2>1, <2>2
    DEF Local, Bearings, Remembered, AtHome, Attempting, Working, Launch,
        localVars
  <2>4. SyncKnows(p)' /\ NotRaised(p)' /\ Identity(p)' /\ Confirmed(p)'
    BY <1>1, <1>2, InfraFlags
    DEF Local, Bearings, SyncKnows, NotRaised, Cleaning, Identity, Confirmed, Launch,
        Reconciling, Attempting, Working, localVars, TypeOK, Goto
  <2> QED
    BY <2>3, <2>4 DEF Bearings
<1>6. JournalHeld(p)'
  BY <1>1, <1>2
  DEF Local, JournalHeld, OnRecord, Clear, Reconciling, Working, Launch, Goto, TypeOK,
      dockerVars, diskVars, localVars
<1>7. AttemptStarts(p)'
  BY <1>1, <1>2
  DEF Local, AttemptStarts, Entry, NotAsked, Launch, Goto, TypeOK,
      dockerVars, diskVars, localVars
<1>8. ParticipantKnows(p)'
  <2>1. CASE pc'[p] = "running"
    BY <1>1, <1>2, <2>1
    DEF Local, ParticipantKnows, AttemptStarts, NoBox, Launch, localVars
  <2>2. CASE pc'[p] = "identify"
    <3>1. UNCHANGED pending
      BY <1>1, <2>2 DEF Launch, Goto, TypeOK
    <3> QED
      BY <1>1, <1>2, <2>2, <3>1
      DEF Local, ParticipantKnows, AttemptStarts, NotAsked, AtHome, Launch,
          localVars
  <2> QED
    BY <1>2, <2>1, <2>2
<1>9. ReconcileKnows(p)' /\ CleanupKnows(p)'
  BY <1>2 DEF ReconcileKnows, CleanupKnows, Cleaning
<1> QED
  BY <1>3, <1>4, <1>5, <1>6, <1>7, <1>8, <1>9, Reduce DEF Local

\* The container ended and the client tells so: its request is over.
LEMMA RunEndsStep ==
  ASSUME Inv, TypeOK', NEW p \in Proc, RunEnds(p) PROVE Inv'
<1>1. TypeOK /\ Local(p) /\ pc[p] = "running" /\ At(p) = "running"
  BY DEF Inv, RunEnds, At
<1>2. pc'[p] = "identify" /\ At(p)' = pc'[p]
  BY <1>1 DEF RunEnds, Goto, TypeOK, At, Verdict
<1>3. Own(p)
  BY <1>1 DEF Own, TypeOK, RunEnds, Goto, Verdict, localVars, diskVars
<1>4. Global'
  BY GlobalLess DEF RunEnds, dockerVars, diskVars, Verdict
<1>5. Bearings(p)'
  BY <1>1, <1>2
  DEF Local, Bearings, SyncKnows, NotRaised, Cleaning, Identity, Remembered, Confirmed,
      AtHome, Reconciling, Attempting, Working, RunEnds, Goto, TypeOK,
      dockerVars, diskVars, localVars, Verdict
<1>6. JournalHeld(p)'
  BY <1>1, <1>2
  DEF Local, JournalHeld, OnRecord, Clear, Reconciling, Working, RunEnds, Goto, TypeOK,
      dockerVars, diskVars, localVars, Verdict
<1>7. AttemptStarts(p)'
  BY <1>1, <1>2
  DEF Local, AttemptStarts, Entry, NotAsked, RunEnds, Goto, TypeOK,
      dockerVars, diskVars, localVars, Verdict
<1>8. ParticipantKnows(p)'
  BY <1>1, <1>2
  DEF Local, ParticipantKnows, AtHome, RunEnds, Goto, TypeOK,
      dockerVars, diskVars, localVars, Verdict
<1>9. ReconcileKnows(p)' /\ CleanupKnows(p)'
  BY <1>2 DEF ReconcileKnows, CleanupKnows, Cleaning
<1> QED
  BY <1>3, <1>4, <1>5, <1>6, <1>7, <1>8, <1>9, Reduce DEF Local

\* A client killed at a limit may leave its request behind.
LEMMA RunTerminatedStep ==
  ASSUME Inv, TypeOK', NEW p \in Proc, RunTerminated(p) PROVE Inv'
<1>1. TypeOK /\ Local(p) /\ pc[p] = "running" /\ At(p) = "running"
  BY DEF Inv, RunTerminated, At
<1>2. pc'[p] = "identify" /\ At(p)' = pc'[p]
  BY <1>1 DEF RunTerminated, Goto, TypeOK, At, Verdict
<1>3. Own(p)
  BY <1>1 DEF Own, TypeOK, RunTerminated, Goto, Verdict, localVars, diskVars
<1>4. Global'
  BY GlobalLess DEF RunTerminated, dockerVars, diskVars, Verdict
<1>5. OperatorTerminated(result[p])'
  BY <1>1 DEF RunTerminated, Verdict, TypeOK, OperatorTerminated, Killed
<1>6. Bearings(p)'
  BY <1>1, <1>2, <1>5
  DEF Local, Bearings, SyncKnows, NotRaised, Cleaning, Identity, Remembered, Confirmed,
      AtHome, Reconciling, Attempting, Working, RunTerminated, Goto, TypeOK,
      dockerVars, diskVars, localVars, Verdict
<1>7. JournalHeld(p)'
  BY <1>1, <1>2, <1>5
  DEF Local, JournalHeld, OnRecord, Clear, Reconciling, Working, RunTerminated, Goto, TypeOK,
      dockerVars, diskVars, localVars, Verdict
<1>8. AttemptStarts(p)'
  BY <1>1, <1>2, <1>5
  DEF Local, AttemptStarts, Entry, NotAsked, RunTerminated, Goto, TypeOK,
      dockerVars, diskVars, localVars, Verdict
<1>9. ParticipantKnows(p)'
  BY <1>1, <1>2, <1>5
  DEF Local, ParticipantKnows, RunTerminated, localVars
<1>10. ReconcileKnows(p)' /\ CleanupKnows(p)'
  BY <1>2 DEF ReconcileKnows, CleanupKnows, Cleaning
<1> QED
  BY <1>3, <1>4, <1>6, <1>7, <1>8, <1>9, <1>10, Reduce DEF Local

\* A client that fails by itself leaves no request, by ~LateAfterExit.
LEMMA ClientFailsStep ==
  ASSUME Inv, TypeOK', NEW p \in Proc, ClientFails(p), ~LateAfterExit PROVE Inv'
<1>1. TypeOK /\ Local(p) /\ pc[p] = "running" /\ At(p) = "running"
  BY DEF Inv, ClientFails, At
<1>2. pc'[p] = "identify" /\ At(p)' = pc'[p]
  BY <1>1 DEF ClientFails, Goto, TypeOK, At, Verdict
<1>3. Own(p)
  BY <1>1 DEF Own, TypeOK, ClientFails, Goto, Verdict, localVars, diskVars
<1>4. Global'
  BY GlobalLess DEF ClientFails, dockerVars, diskVars, Verdict
<1>5. Bearings(p)'
  BY <1>1, <1>2
  DEF Local, Bearings, SyncKnows, NotRaised, Cleaning, Identity, Remembered, Confirmed,
      AtHome, Reconciling, Attempting, Working, ClientFails, Goto, TypeOK,
      dockerVars, diskVars, localVars, Verdict
<1>6. JournalHeld(p)'
  BY <1>1, <1>2
  DEF Local, JournalHeld, OnRecord, Clear, Reconciling, Working, ClientFails, Goto, TypeOK,
      dockerVars, diskVars, localVars, Verdict
<1>7. AttemptStarts(p)'
  BY <1>1, <1>2
  DEF Local, AttemptStarts, Entry, NotAsked, ClientFails, Goto, TypeOK,
      dockerVars, diskVars, localVars, Verdict
<1>8. ParticipantKnows(p)'
  BY <1>1, <1>2
  DEF Local, ParticipantKnows, AtHome, ClientFails, Goto, TypeOK,
      dockerVars, diskVars, localVars, Verdict
<1>9. ReconcileKnows(p)' /\ CleanupKnows(p)'
  BY <1>2 DEF ReconcileKnows, CleanupKnows, Cleaning
<1> QED
  BY <1>3, <1>4, <1>5, <1>6, <1>7, <1>8, <1>9, Reduce DEF Local

\* A raising run removes what it can and keeps the journal.
LEMMA RunRaisesStep ==
  ASSUME Inv, TypeOK', NEW p \in Proc, RunRaises(p) PROVE Inv'
<1>1. TypeOK /\ Local(p) /\ pc[p] = "running" /\ At(p) = "running"
  BY DEF Inv, RunRaises, At
<1>2. pc'[p] = "clean" /\ At(p)' = pc'[p]
  BY <1>1 DEF RunRaises, Goto, TypeOK, At
<1>3. Own(p)
  BY <1>1 DEF Own, TypeOK, RunRaises, Goto, localVars, diskVars
<1>4. Global'
  BY GlobalLess DEF RunRaises, dockerVars, diskVars
<1>5. ~Clear(p)'
  BY <1>1 DEF RunRaises, Raised, TypeOK, Clear
<1>6. Bearings(p)'
  BY <1>1, <1>2, <1>5
  DEF Local, Bearings, SyncKnows, NotRaised, Cleaning, Identity, Remembered, Confirmed,
      AtHome, Reconciling, Attempting, Working, RunRaises, Goto, TypeOK,
      dockerVars, diskVars, localVars
<1>7. JournalHeld(p)'
  BY <1>1, <1>2, <1>5
  DEF Local, JournalHeld, OnRecord, Clear, Reconciling, Working, RunRaises, Goto, TypeOK,
      dockerVars, diskVars, localVars
<1>8. CleanupKnows(p)'
  BY <1>1, <1>2, <1>5
  DEF Local, CleanupKnows, Cleaning, Gone, AtHome, RunRaises, Goto, TypeOK,
      dockerVars, diskVars, localVars
<1>9. ReconcileKnows(p)' /\ AttemptStarts(p)' /\ ParticipantKnows(p)'
  BY <1>2 DEF ReconcileKnows, AttemptStarts, ParticipantKnows
<1> QED
  BY <1>3, <1>4, <1>6, <1>7, <1>8, <1>9, Reduce DEF Local

\* The Engine ID is compared before absence is believed.
LEMMA IdentifyStep ==
  ASSUME Inv, TypeOK', NEW p \in Proc, Identify(p) PROVE Inv'
<1>1. TypeOK /\ Local(p) /\ pc[p] = "identify" /\ At(p) = "identify"
  BY DEF Inv, Identify, At
<1>2. pc'[p] \in {"inspect", "clean"} /\ At(p)' = pc'[p]
  BY <1>1 DEF Identify, Goto, TypeOK, At
<1>3. Own(p)
  BY <1>1 DEF Own, TypeOK, Identify, Goto, localVars, diskVars
<1>4. Global'
  BY GlobalLess DEF Identify, dockerVars, diskVars
<1>5. pc'[p] = "inspect" \/ ~Clear(p)'
  BY <1>1, GiveUp DEF Identify, Goto, TypeOK
<1>6. Bearings(p)'
  BY <1>1, <1>2, <1>5
  DEF Local, Bearings, SyncKnows, NotRaised, Cleaning, Identity, Remembered, Confirmed,
      AtHome, Reconciling, Attempting, Working, Identify, Goto, TypeOK,
      dockerVars, diskVars, localVars
<1>7. JournalHeld(p)'
  BY <1>1, <1>2, <1>5
  DEF Local, JournalHeld, OnRecord, Clear, Reconciling, Working, Identify, Goto, TypeOK,
      dockerVars, diskVars, localVars
<1>8. AttemptStarts(p)'
  BY <1>1, <1>2, <1>5
  DEF Local, AttemptStarts, Entry, NotAsked, Identify, Goto, TypeOK,
      dockerVars, diskVars, localVars
<1>9. ParticipantKnows(p)'
  BY <1>1, <1>2, <1>5
  DEF Local, ParticipantKnows, AtHome, Identify, Goto, TypeOK,
      dockerVars, diskVars, localVars
<1>10. CleanupKnows(p)'
  BY <1>1, <1>2, <1>5
  DEF Local, CleanupKnows, Cleaning, Gone, AtHome, Identify, Goto, TypeOK,
      dockerVars, diskVars, localVars
<1>11. ReconcileKnows(p)'
  BY <1>2 DEF ReconcileKnows
<1> QED
  BY <1>3, <1>4, <1>6, <1>7, <1>8, <1>9, <1>10, <1>11, Reduce DEF Local

\* An absent participant container is settled, or the cleanup stays pending.
LEMMA InspectAbsentStep ==
  ASSUME Inv, TypeOK', NEW p \in Proc, InspectAbsent(p) PROVE Inv'
<1>1. TypeOK /\ Local(p) /\ pc[p] = "inspect" /\ At(p) = "inspect"
  BY DEF Inv, InspectAbsent, At
<1>2. pc'[p] = "clean" /\ At(p)' = pc'[p]
  BY <1>1 DEF InspectAbsent, Goto, TypeOK, At
<1>3. Own(p)
  BY <1>1 DEF Own, TypeOK, InspectAbsent, Goto, localVars, diskVars
<1>4. Global'
  BY GlobalLess DEF InspectAbsent, dockerVars, diskVars
<1>5. Clear(p)' => ~OperatorTerminated(result[p])
  BY <1>1, GiveUp DEF InspectAbsent
<1>6. Bearings(p)'
  BY <1>1, <1>2, <1>5
  DEF Local, Bearings, SyncKnows, NotRaised, Cleaning, Identity, Remembered, Confirmed,
      AtHome, Reconciling, Attempting, Working, InspectAbsent, Goto, TypeOK,
      dockerVars, diskVars, localVars
<1>7. JournalHeld(p)'
  BY <1>1, <1>2, <1>5
  DEF Local, JournalHeld, OnRecord, Clear, Reconciling, Working, InspectAbsent, Goto, TypeOK,
      dockerVars, diskVars, localVars
<1>8. CleanupKnows(p)'
  <2>1. {"helper", "volume"} \subseteq memory[p] /\ cursor[p] = 2
    BY <1>1 DEF Local, AttemptStarts, ParticipantKnows
  <2>2. Clear(p)' => Gone(p, "participant")
    BY <1>1, <1>5
    DEF Local, ParticipantKnows, Gone, AtHome, InspectAbsent, Absent, Name
  <2> QED
    BY <1>2, <2>1, <2>2
    DEF CleanupKnows, Cleaning, Gone, AtHome, InspectAbsent, dockerVars, localVars
<1>9. ReconcileKnows(p)' /\ AttemptStarts(p)' /\ ParticipantKnows(p)'
  BY <1>2 DEF ReconcileKnows, AttemptStarts, ParticipantKnows
<1> QED
  BY <1>3, <1>4, <1>6, <1>7, <1>8, <1>9, Reduce DEF Local

\* An inspection that fails proves nothing.
LEMMA InspectFailsStep ==
  ASSUME Inv, TypeOK', NEW p \in Proc, InspectFails(p) PROVE Inv'
<1>1. TypeOK /\ Local(p) /\ pc[p] = "inspect" /\ At(p) = "inspect"
  BY DEF Inv, InspectFails, At
<1>2. pc'[p] = "clean" /\ At(p)' = pc'[p]
  BY <1>1 DEF InspectFails, Goto, TypeOK, At
<1>3. Own(p)
  BY <1>1 DEF Own, TypeOK, InspectFails, Goto, localVars, diskVars
<1>4. Global'
  BY GlobalLess DEF InspectFails, dockerVars, diskVars
<1>5. ~Clear(p)'
  BY <1>1, GiveUp DEF InspectFails
<1>6. Bearings(p)'
  BY <1>1, <1>2, <1>5
  DEF Local, Bearings, SyncKnows, NotRaised, Cleaning, Identity, Remembered, Confirmed,
      AtHome, Reconciling, Attempting, Working, InspectFails, Goto, TypeOK,
      dockerVars, diskVars, localVars
<1>7. JournalHeld(p)'
  BY <1>1, <1>2, <1>5
  DEF Local, JournalHeld, OnRecord, Clear, Reconciling, Working, InspectFails, Goto, TypeOK,
      dockerVars, diskVars, localVars
<1>8. CleanupKnows(p)'
  BY <1>1, <1>2, <1>5
  DEF Local, CleanupKnows, Cleaning, Gone, AtHome, InspectFails, Goto, TypeOK,
      dockerVars, diskVars, localVars
<1>9. ReconcileKnows(p)' /\ AttemptStarts(p)' /\ ParticipantKnows(p)'
  BY <1>2 DEF ReconcileKnows, AttemptStarts, ParticipantKnows
<1> QED
  BY <1>3, <1>4, <1>6, <1>7, <1>8, <1>9, Reduce DEF Local

\* Stopping the container changes no resource's existence.
LEMMA StopStep ==
  ASSUME Inv, TypeOK', NEW p \in Proc, Stop(p) PROVE Inv'
<1>1. TypeOK /\ Local(p) /\ pc[p] = "stop" /\ At(p) = "stop"
  BY DEF Inv, Stop, At
<1>2. pc'[p] \in {"remove", "restat"} /\ At(p)' = pc'[p]
  BY <1>1 DEF Stop, Goto, TypeOK, At
<1>3. Own(p)
  BY <1>1 DEF Own, TypeOK, Stop, Goto, localVars, diskVars
<1>4. Global'
  BY GlobalLess DEF Stop, dockerVars, diskVars
<1>5. result'[p].kind # "raised" 
  BY <1>1, InfraFlags DEF Local, Bearings, NotRaised, Cleaning, Stop, TypeOK, Pending
<1>6. Bearings(p)'
  BY <1>1, <1>2, <1>5
  DEF Local, Bearings, SyncKnows, NotRaised, Cleaning, Identity, Remembered, Confirmed,
      AtHome, Reconciling, Attempting, Working, Stop, dockerVars, diskVars,
      localVars
<1>7. JournalHeld(p)'
  BY <1>1, <1>2, <1>5
  DEF Local, JournalHeld, OnRecord, Clear, Reconciling, Working, Stop, Goto, TypeOK,
      dockerVars, diskVars, localVars
<1>8. ParticipantKnows(p)'
  BY <1>1, <1>2, <1>5
  DEF Local, ParticipantKnows, AtHome, Stop, Goto, TypeOK,
      dockerVars, diskVars, localVars
<1>9. ReconcileKnows(p)' /\ AttemptStarts(p)' /\ CleanupKnows(p)'
  BY <1>2 DEF ReconcileKnows, AttemptStarts, CleanupKnows, Cleaning
<1> QED
  BY <1>3, <1>4, <1>6, <1>7, <1>8, <1>9, Reduce DEF Local

\* The second look at the state of the stopped container.
LEMMA RestatStep ==
  ASSUME Inv, TypeOK', NEW p \in Proc, Restat(p) PROVE Inv'
<1>1. TypeOK /\ Local(p) /\ pc[p] = "restat" /\ At(p) = "restat"
  BY DEF Inv, Restat, At
<1>2. pc'[p] \in {"remove", "clean"} /\ At(p)' = pc'[p]
  BY <1>1 DEF Restat, Goto, TypeOK, At
<1>3. Own(p)
  BY <1>1 DEF Own, TypeOK, Restat, Goto, localVars, diskVars
<1>4. Global'
  BY GlobalLess DEF Restat, dockerVars, diskVars
<1>5. result'[p].kind # "raised" 
  BY <1>1, InfraFlags DEF Local, Bearings, NotRaised, Cleaning, Restat, TypeOK, Pending
<1>6. Bearings(p)'
  BY <1>1, <1>2, <1>5
  DEF Local, Bearings, SyncKnows, NotRaised, Cleaning, Identity, Remembered, Confirmed,
      AtHome, Reconciling, Attempting, Working, Restat, dockerVars, diskVars,
      localVars
<1>7. JournalHeld(p)'
  BY <1>1, <1>2, <1>5
  DEF Local, JournalHeld, OnRecord, Clear, Reconciling, Working, Restat, Goto, TypeOK,
      dockerVars, diskVars, localVars
<1>8. ParticipantKnows(p)'
  BY <1>1, <1>2 DEF Local, ParticipantKnows, Restat
<1>9. CleanupKnows(p)'
  <2>1. memory[p] = Role /\ cursor[p] = 2
    BY <1>1 DEF Local, ParticipantKnows
  <2>2. pc'[p] = "clean" => Gone(p, "participant")
    BY <1>1, <2>1
    DEF Local, Bearings, Remembered, Attempting, Working, Role, Gone, AtHome,
        Restat, Owned, Name, Goto, TypeOK
  <2> QED
    BY <1>2, <2>1, <2>2
    DEF CleanupKnows, Cleaning, Gone, AtHome, Restat, dockerVars, Role
<1>10. ReconcileKnows(p)' /\ AttemptStarts(p)'
  BY <1>2 DEF ReconcileKnows, AttemptStarts
<1> QED
  BY <1>3, <1>4, <1>6, <1>7, <1>8, <1>9, <1>10, Reduce DEF Local

\* The removal of the container, done or given up.
LEMMA RemoveStep ==
  ASSUME Inv, TypeOK', NEW p \in Proc, Remove(p) PROVE Inv'
<1>1. TypeOK /\ Local(p) /\ pc[p] = "remove" /\ At(p) = "remove"
  BY DEF Inv, Remove, At
<1>2. pc'[p] = "clean" /\ At(p)' = pc'[p]
  BY <1>1 DEF Remove, Goto, TypeOK, At
<1>3. Own(p)
  BY <1>1 DEF Own, TypeOK, Remove, Goto, localVars, diskVars
<1>4. Global'
  BY GlobalLess DEF Remove, dockerVars, diskVars
<1>5. Clear(p)' => Name(p, "participant") \notin live' /\ live' \subseteq live
  <2>1. result[p] \in Result /\ Classify(result[p], seen[p]) \in Result
    BY <1>1, ClassifyType DEF TypeOK
  <2>2. result'[p] = Infra(Classify(result[p], seen[p]), Pending) => ~Clear(p)'
    BY <2>1, InfraFlags DEF Clear, CleanupPending, Pending
  <2> QED
    BY <1>1, <2>2 DEF Remove, Owned, TypeOK
<1>6. Bearings(p)'
  BY <1>1, <1>2, <1>5
  DEF Local, Bearings, SyncKnows, NotRaised, Cleaning, Identity, Remembered, Confirmed,
      AtHome, Reconciling, Attempting, Working, Remove, Goto, TypeOK,
      dockerVars, diskVars, localVars
<1>7. JournalHeld(p)'
  BY <1>1, <1>2, <1>5
  DEF Local, JournalHeld, OnRecord, Clear, Reconciling, Working, Remove, Goto, TypeOK,
      dockerVars, diskVars, localVars
<1>8. CleanupKnows(p)'
  <2>1. memory[p] = Role /\ cursor[p] = 2
    BY <1>1 DEF Local, ParticipantKnows
  <2>2. Clear(p)' => Gone(p, "participant")'
    BY <1>1, <1>5, <2>1
    DEF Local, Bearings, Remembered, Attempting, Working, Role, Gone, AtHome,
        Remove, Name, localVars
  <2> QED
    BY <1>2, <2>1, <2>2 DEF CleanupKnows, Cleaning, Remove, localVars, Role
<1>9. ReconcileKnows(p)' /\ AttemptStarts(p)' /\ ParticipantKnows(p)'
  BY <1>2 DEF ReconcileKnows, AttemptStarts, ParticipantKnows
<1> QED
  BY <1>3, <1>4, <1>6, <1>7, <1>8, <1>9, Reduce DEF Local

\* The cleanup of helper and volume begins.
LEMMA CleanStep ==
  ASSUME Inv, TypeOK', NEW p \in Proc, Clean(p) PROVE Inv'
<1>1. TypeOK /\ Local(p) /\ pc[p] = "clean" /\ At(p) = "clean"
  BY DEF Inv, Clean, At
<1>2. pc'[p] \in {"cleanHelper", "cleanVolume", "settle"} /\ At(p)' = pc'[p]
  BY <1>1 DEF Clean, Goto, TypeOK, At
<1>3. Own(p)
  BY <1>1 DEF Own, TypeOK, Clean, Goto, localVars, diskVars
<1>4. Global'
  BY GlobalLess DEF Clean, dockerVars, diskVars
<1>5. \/ pc'[p] = "settle" /\ ~Clear(p)'
      \/ /\ pc'[p] = IF cursor[p] = 2 THEN "cleanHelper" ELSE "cleanVolume"
         /\ UNCHANGED result
  BY <1>1, GiveUp DEF Clean, Goto, TypeOK
<1>6. Bearings(p)'
  BY <1>1, <1>2, <1>5
  DEF Local, Bearings, SyncKnows, NotRaised, Cleaning, Identity, Remembered, Confirmed,
      AtHome, Reconciling, Attempting, Working, Clean, Goto, TypeOK,
      dockerVars, diskVars, localVars
<1>7. JournalHeld(p)'
  BY <1>1, <1>2, <1>5
  DEF Local, JournalHeld, OnRecord, Clear, Reconciling, Working, Clean, Goto, TypeOK,
      dockerVars, diskVars, localVars
<1>8. CleanupKnows(p)'
  BY <1>1, <1>2, <1>5
  DEF Local, CleanupKnows, Cleaning, Gone, AtHome, Clear, Clean, dockerVars, localVars
<1>9. ReconcileKnows(p)' /\ AttemptStarts(p)' /\ ParticipantKnows(p)'
  BY <1>2 DEF ReconcileKnows, AttemptStarts, ParticipantKnows
<1> QED
  BY <1>3, <1>4, <1>6, <1>7, <1>8, <1>9, Reduce DEF Local

\* The label of the helper is inspected; absent, there is nothing to remove.
LEMMA CleanHelperStep ==
  ASSUME Inv, TypeOK', NEW p \in Proc, CleanHelper(p) PROVE Inv'
<1>1. TypeOK /\ Local(p) /\ pc[p] = "cleanHelper" /\ At(p) = "cleanHelper"
  BY DEF Inv, CleanHelper, At
<1>2. pc'[p] \in {"dropHelper", "cleanVolume"} /\ At(p)' = pc'[p]
  BY <1>1 DEF CleanHelper, Goto, TypeOK, At, CleanRole
<1>3. Own(p)
  BY <1>1 DEF Own, TypeOK, CleanHelper, Goto, CleanRole, localVars, diskVars
<1>4. Global'
  BY GlobalLess DEF CleanHelper, dockerVars, diskVars
<1>5. Clear(p)' => Clear(p) /\ (pc'[p] = "cleanVolume" => Name(p, "helper") \notin live)
  BY <1>1, GiveUp
  DEF CleanHelper, CleanRole, Absent, Clear, Goto, TypeOK
<1>6. Bearings(p)'
  BY <1>1, <1>2, <1>5
  DEF Local, Bearings, SyncKnows, NotRaised, Identity, Remembered, Confirmed,
      AtHome, Reconciling, Attempting, Working, Cleaning, CleanHelper, Goto, TypeOK,
      dockerVars, diskVars, localVars, CleanRole
<1>7. JournalHeld(p)'
  BY <1>1, <1>2, <1>5
  DEF Local, JournalHeld, OnRecord, Clear, Reconciling, Working, CleanHelper, Goto,
      TypeOK, dockerVars, diskVars, localVars, CleanRole
<1>8. CleanupKnows(p)'
  <2>1. Clear(p)' => AtHome(p, "helper") \notin pending
    BY <1>1, <1>5
    DEF Local, CleanupKnows, Bearings, Remembered, Attempting, Working, Cleaning
  <2>2. Clear(p)' /\ pc'[p] = "cleanVolume" => Gone(p, "helper")'
    BY <1>5, <2>1 DEF Gone, AtHome, Name, CleanHelper, localVars, dockerVars
  <2> QED
    BY <1>1, <1>2, <1>5, <2>2
    DEF Local, CleanupKnows, Gone, AtHome, CleanHelper, localVars, dockerVars, Role, Cleaning
<1>9. ReconcileKnows(p)' /\ AttemptStarts(p)' /\ ParticipantKnows(p)'
  BY <1>2 DEF ReconcileKnows, AttemptStarts, ParticipantKnows
<1> QED
  BY <1>3, <1>4, <1>6, <1>7, <1>8, <1>9, Reduce DEF Local

\* The helper is removed, or the cleanup stays pending.
LEMMA DropHelperStep ==
  ASSUME Inv, TypeOK', NEW p \in Proc, DropHelper(p) PROVE Inv'
<1>1. TypeOK /\ Local(p) /\ pc[p] = "dropHelper" /\ At(p) = "dropHelper"
  BY DEF Inv, DropHelper, At
<1>2. pc'[p] = "cleanVolume" /\ At(p)' = pc'[p]
  BY <1>1 DEF DropHelper, Goto, TypeOK, At
<1>3. Own(p)
  BY <1>1 DEF Own, TypeOK, DropHelper, Goto, DropRole, localVars, diskVars
<1>4. Global'
  BY GlobalLess DEF DropHelper, diskVars, DropRole, RemoveByName
<1>5. Clear(p)' => Clear(p) /\ Name(p, "helper") \notin live'
  BY <1>1, GiveUp DEF DropHelper, DropRole, RemoveByName, Clear
<1>6. Bearings(p)'
  BY <1>1, <1>2, <1>5
  DEF Local, Bearings, SyncKnows, NotRaised, Identity, Remembered, Confirmed,
      AtHome, Reconciling, Attempting, Working, Cleaning, DropHelper, Goto, TypeOK,
      dockerVars, diskVars, localVars, DropRole, RemoveByName
<1>7. JournalHeld(p)'
  BY <1>1, <1>2, <1>5
  DEF Local, JournalHeld, OnRecord, Clear, Reconciling, Working, DropHelper, Goto,
      TypeOK, dockerVars, diskVars, localVars, DropRole
<1>8. CleanupKnows(p)'
  <2>1. Clear(p)' => AtHome(p, "helper") \notin pending
    BY <1>1, <1>5
    DEF Local, CleanupKnows, Bearings, Remembered, Attempting, Working, Cleaning
  <2>2. live' \subseteq live
    BY DEF DropHelper, DropRole, RemoveByName
  <2>3. Clear(p)' => Gone(p, "helper")'
    BY <1>5, <2>1 DEF Gone, AtHome, Name, DropHelper, localVars
  <2> QED
    BY <1>1, <1>2, <1>5, <2>2, <2>3
    DEF Local, CleanupKnows, Gone, AtHome, DropHelper, localVars, Role, Cleaning
<1>9. ReconcileKnows(p)' /\ AttemptStarts(p)' /\ ParticipantKnows(p)'
  BY <1>2 DEF ReconcileKnows, AttemptStarts, ParticipantKnows
<1> QED
  BY <1>3, <1>4, <1>6, <1>7, <1>8, <1>9, Reduce DEF Local

\* The label of the volume is inspected; absent, there is nothing to remove.
LEMMA CleanVolumeStep ==
  ASSUME Inv, TypeOK', NEW p \in Proc, CleanVolume(p) PROVE Inv'
<1>1. TypeOK /\ Local(p) /\ pc[p] = "cleanVolume" /\ At(p) = "cleanVolume"
  BY DEF Inv, CleanVolume, At
<1>2. pc'[p] \in {"dropVolume", "settle"} /\ At(p)' = pc'[p]
  BY <1>1 DEF CleanVolume, Goto, TypeOK, At, CleanRole
<1>3. Own(p)
  BY <1>1 DEF Own, TypeOK, CleanVolume, Goto, CleanRole, localVars, diskVars
<1>4. Global'
  BY GlobalLess DEF CleanVolume, dockerVars, diskVars
<1>5. Clear(p)' => Clear(p) /\ (pc'[p] = "settle" => Name(p, "volume") \notin live)
  BY <1>1, GiveUp
  DEF CleanVolume, CleanRole, Absent, Clear, Goto, TypeOK
<1>6. Bearings(p)'
  BY <1>1, <1>2, <1>5
  DEF Local, Bearings, SyncKnows, NotRaised, Identity, Remembered, Confirmed,
      AtHome, Reconciling, Attempting, Working, Cleaning, CleanVolume, Goto, TypeOK,
      dockerVars, diskVars, localVars, CleanRole
<1>7. JournalHeld(p)'
  BY <1>1, <1>2, <1>5
  DEF Local, JournalHeld, OnRecord, Clear, Reconciling, Working, CleanVolume, Goto,
      TypeOK, dockerVars, diskVars, localVars, CleanRole
<1>8. CleanupKnows(p)'
  <2>1. Clear(p)' => AtHome(p, "volume") \notin pending
    BY <1>1, <1>5
    DEF Local, CleanupKnows, Bearings, Remembered, Attempting, Working, Cleaning
  <2>2. Clear(p)' /\ pc'[p] = "settle" => Gone(p, "volume")'
    BY <1>5, <2>1 DEF Gone, AtHome, Name, CleanVolume, localVars, dockerVars
  <2> QED
    BY <1>1, <1>2, <1>5, <2>2
    DEF Local, CleanupKnows, Gone, AtHome, CleanVolume, localVars, dockerVars, Role, Cleaning
<1>9. ReconcileKnows(p)' /\ AttemptStarts(p)' /\ ParticipantKnows(p)'
  BY <1>2 DEF ReconcileKnows, AttemptStarts, ParticipantKnows
<1> QED
  BY <1>3, <1>4, <1>6, <1>7, <1>8, <1>9, Reduce DEF Local

\* The volume is removed, or the cleanup stays pending.
LEMMA DropVolumeStep ==
  ASSUME Inv, TypeOK', NEW p \in Proc, DropVolume(p) PROVE Inv'
<1>1. TypeOK /\ Local(p) /\ pc[p] = "dropVolume" /\ At(p) = "dropVolume"
  BY DEF Inv, DropVolume, At
<1>2. pc'[p] = "settle" /\ At(p)' = pc'[p]
  BY <1>1 DEF DropVolume, Goto, TypeOK, At
<1>3. Own(p)
  BY <1>1 DEF Own, TypeOK, DropVolume, Goto, DropRole, localVars, diskVars
<1>4. Global'
  BY GlobalLess DEF DropVolume, diskVars, DropRole, RemoveByName
<1>5. Clear(p)' => Clear(p) /\ Name(p, "volume") \notin live'
  BY <1>1, GiveUp DEF DropVolume, DropRole, RemoveByName, Clear
<1>6. Bearings(p)'
  BY <1>1, <1>2, <1>5
  DEF Local, Bearings, SyncKnows, NotRaised, Identity, Remembered, Confirmed,
      AtHome, Reconciling, Attempting, Working, Cleaning, DropVolume, Goto, TypeOK,
      dockerVars, diskVars, localVars, DropRole, RemoveByName
<1>7. JournalHeld(p)'
  BY <1>1, <1>2, <1>5
  DEF Local, JournalHeld, OnRecord, Clear, Reconciling, Working, DropVolume, Goto,
      TypeOK, dockerVars, diskVars, localVars, DropRole
<1>8. CleanupKnows(p)'
  <2>1. Clear(p)' => AtHome(p, "volume") \notin pending
    BY <1>1, <1>5
    DEF Local, CleanupKnows, Bearings, Remembered, Attempting, Working, Cleaning
  <2>2. live' \subseteq live
    BY DEF DropVolume, DropRole, RemoveByName
  <2>3. Clear(p)' => Gone(p, "volume")'
    BY <1>5, <2>1 DEF Gone, AtHome, Name, DropVolume, localVars
  <2> QED
    BY <1>1, <1>2, <1>5, <2>2, <2>3
    DEF Local, CleanupKnows, Gone, AtHome, DropVolume, localVars, Role, Cleaning
<1>9. ReconcileKnows(p)' /\ AttemptStarts(p)' /\ ParticipantKnows(p)'
  BY <1>2 DEF ReconcileKnows, AttemptStarts, ParticipantKnows
<1> QED
  BY <1>3, <1>4, <1>6, <1>7, <1>8, <1>9, Reduce DEF Local

\* A pending cleanup ends the run with its journal on disk.
LEMMA KeepJournalStep ==
  ASSUME Inv, TypeOK', NEW p \in Proc, KeepJournal(p) PROVE Inv'
<1>1. TypeOK /\ Local(p) /\ pc[p] = "settle" /\ At(p) = "settle"
  BY DEF Inv, KeepJournal, At
<1>2. pc'[p] = "finish" /\ At(p)' = pc'[p]
  BY <1>1 DEF KeepJournal, Goto, TypeOK, At
<1>3. Own(p)
  BY <1>1 DEF Own, TypeOK, KeepJournal, Goto, localVars, diskVars
<1>4. Global'
  BY GlobalLess DEF KeepJournal, dockerVars, diskVars
<1>5. Bearings(p)'
  BY <1>1, <1>2
  DEF Local, Bearings, SyncKnows, NotRaised, Cleaning, Identity, Remembered, Confirmed,
      AtHome, Reconciling, Attempting, Working, KeepJournal, Goto, TypeOK,
      dockerVars, diskVars, localVars
<1>6. JournalHeld(p)'
  BY <1>1, <1>2
  DEF Local, JournalHeld, OnRecord, Clear, Reconciling, Working, KeepJournal, Goto, TypeOK,
      dockerVars, diskVars, localVars
<1>7. ReconcileKnows(p)' /\ AttemptStarts(p)' /\ ParticipantKnows(p)' /\ CleanupKnows(p)'
  BY <1>2 DEF ReconcileKnows, AttemptStarts, ParticipantKnows, CleanupKnows, Cleaning
<1> QED
  BY <1>3, <1>4, <1>5, <1>6, <1>7, Reduce DEF Local

\* A journal that could not be removed makes the verdict pending.
LEMMA ForgetFailsStep ==
  ASSUME Inv, TypeOK', NEW p \in Proc, ForgetFails(p) PROVE Inv'
<1>1. TypeOK /\ Local(p) /\ pc[p] = "forget" /\ At(p) = "forget"
  BY DEF Inv, ForgetFails, At
<1>2. pc'[p] = "finish" /\ At(p)' = pc'[p]
  BY <1>1 DEF ForgetFails, Goto, TypeOK, At, Refuse
<1>3. Own(p)
  BY <1>1 DEF Own, TypeOK, ForgetFails, Goto, Refuse, localVars, diskVars
<1>4. Global'
  BY GlobalLess DEF ForgetFails, dockerVars, diskVars, Refuse
<1>5. ~Clear(p)'
  BY <1>1, RefuseGivesUp DEF ForgetFails
<1>6. Bearings(p)'
  BY <1>1, <1>2, <1>5
  DEF Local, Bearings, SyncKnows, NotRaised, Cleaning, Identity, Remembered, Confirmed,
      AtHome, Reconciling, Attempting, Working, ForgetFails, Goto, TypeOK,
      dockerVars, diskVars, localVars, Refuse
<1>7. JournalHeld(p)'
  BY <1>1, <1>2, <1>5
  DEF Local, JournalHeld, OnRecord, Clear, Reconciling, Working, ForgetFails, Goto, TypeOK,
      dockerVars, diskVars, localVars, Refuse
<1>8. ReconcileKnows(p)' /\ AttemptStarts(p)' /\ ParticipantKnows(p)' /\ CleanupKnows(p)'
  BY <1>2 DEF ReconcileKnows, AttemptStarts, ParticipantKnows, CleanupKnows, Cleaning
<1> QED
  BY <1>3, <1>4, <1>6, <1>7, <1>8, Reduce DEF Local

\* The submission is published when the journal is gone.
LEMMA PublishStep ==
  ASSUME Inv, TypeOK', NEW p \in Proc, Publish(p) PROVE Inv'
<1>1. TypeOK /\ Local(p) /\ pc[p] = "publish" /\ At(p) = "publish"
  BY DEF Inv, Publish, At
<1>2. pc'[p] = "finish" /\ At(p)' = pc'[p]
  BY <1>1 DEF Publish, Goto, TypeOK, At
<1>3. Own(p)
  BY <1>1 DEF Own, TypeOK, Publish, Goto, localVars, diskVars
<1>4. Global'
  BY GlobalLess DEF Publish, dockerVars, diskVars
<1>5. Bearings(p)'
  BY <1>1, <1>2
  DEF Local, Bearings, SyncKnows, NotRaised, Cleaning, Identity, Remembered, Confirmed,
      AtHome, Reconciling, Attempting, Working, Publish, Goto, TypeOK,
      dockerVars, diskVars, localVars
<1>6. JournalHeld(p)'
  BY <1>1, <1>2
  DEF Local, JournalHeld, OnRecord, Clear, Reconciling, Working, Publish, Goto, TypeOK,
      dockerVars, diskVars, localVars
<1>7. ReconcileKnows(p)' /\ AttemptStarts(p)' /\ ParticipantKnows(p)' /\ CleanupKnows(p)'
  BY <1>2 DEF ReconcileKnows, AttemptStarts, ParticipantKnows, CleanupKnows, Cleaning
<1> QED
  BY <1>3, <1>4, <1>5, <1>6, <1>7, Reduce DEF Local

-----------------------------------------------------------------------------
(* Steps that write the journal. *)

\* The same for a verdict computed in passing.
LEMMA GiveUpAt ==
  ASSUME TypeOK, NEW p \in Proc, result'[p] = Infra(result[p], Pending)
  PROVE  ~Clear(p)'
  BY InfraFlags DEF TypeOK, Clear, CleanupPending, Pending

\* A write leaves the new journal and waits for its fsync, or leaves the old one
\* and a verdict.
LEMMA WriteOutcome ==
  ASSUME TypeOK, NEW p \in Proc, NEW j, NEW next \in Label \ {"sync"},
         Write(p, j, next)
  PROVE  \/ /\ disk' = j /\ pc'[p] = "sync" /\ cont'[p] = next
            /\ At(p)' = next /\ result' = result
         \/ /\ disk' = disk /\ pc'[p] = AfterFailedWrite(next)
            /\ At(p)' = AfterFailedWrite(next)
            /\ result'[p] = Infra(result[p], FlagsAfterFailedWrite(next, disk))
<1>1. AfterFailedWrite(next) # "sync"
  BY DEF AfterFailedWrite
<1> QED
  BY <1>1 DEF Write, FailedWrite, Goto, TypeOK, At

\* A write of the journal, failed or not, is a step of the writer's own.
LEMMA WriteOwn ==
  ASSUME TypeOK, NEW p \in Proc, NEW j, NEW next, Write(p, j, next),
         pc[p] # "idle", UNCHANGED <<lock, cursor>>
  PROVE  Own(p)
<1>1. AfterFailedWrite(next) # "idle"
  BY DEF AfterFailedWrite
<1> QED
  BY <1>1 DEF Own, Write, FailedWrite, Goto, TypeOK

\* The journal of the attempt at work may name more observed roles, as long as
\* none of them has a request left.
LEMMA WriteGlobal ==
  ASSUME Inv, NEW p \in Proc, UNCHANGED <<live, pending, settled, born, durable>>,
         tok[p] \in Token, home[p] = born[tok[p]],
         disk = NoJournal \/ OnRecord(disk, p),
         \/ disk' = disk
         \/ /\ disk' # NoJournal /\ disk'.tok = tok[p] /\ disk'.eng = home[p]
            /\ \A role \in disk'.observed : AtHome(p, role) \notin pending
  PROVE  Global'
<1>1. CASE disk' = disk
  BY <1>1, GlobalLess
<1>2. CASE disk' # disk
  <2>1. JournalsKnown'
    BY <1>2 DEF Inv, Global, JournalsKnown
  <2>2. NoOrphan'
    BY <1>2 DEF Inv, Global, NoOrphan, Covers, OnRecord
  <2>3. ObservedIsSettled'
    <3>1. ASSUME NEW r \in pending, r.tok = tok[p], r.eng = home[p],
                 r.role \in disk'.observed
          PROVE  FALSE
      <4>1. r = AtHome(p, r.role)
        BY <3>1 DEF Inv, TypeOK, Resource, AtHome
      <4> QED
        BY <1>2, <3>1, <4>1
    <3> QED
      BY <1>2, <3>1 DEF Inv, Global, ObservedIsSettled
  <2> QED
    BY <2>1, <2>2, <2>3
    DEF Inv, Global, SettledMeansQuiet, OneRequestPerRole
<1> QED
  BY <1>1, <1>2

\* The journal may go when nothing of its attempt is left.
LEMMA ForgetGlobal ==
  ASSUME Inv, NEW p \in Proc, UNCHANGED <<live, pending, settled, born, durable>>,
         engine = home[p], OnRecord(disk, p), \A role \in Role : Gone(p, role),
         disk' \in {disk, NoJournal}
  PROVE  Global'
<1>1. \A r \in live \cup pending : r.eng # born[r.tok]
  <2>1. ASSUME NEW r \in live \cup pending, r.eng = born[r.tok] PROVE FALSE
    <3>1. r.tok = tok[p] /\ r.eng = home[p]
      BY <2>1 DEF Inv, Global, NoOrphan, Covers, OnRecord
    <3>2. r.role \in Role /\ r = AtHome(p, r.role)
      BY <3>1 DEF Inv, TypeOK, Resource, AtHome
    <3> QED
      BY <3>2 DEF Gone
  <2> QED
    BY <2>1
<1> QED
  BY <1>1
  DEF Inv, Global, JournalsKnown, SettledMeansQuiet, OneRequestPerRole,
      NoOrphan, ObservedIsSettled

\* A role that is found is recorded as observed before it is removed.
LEMMA ReDiscoveredStep ==
  ASSUME Inv, TypeOK', NEW p \in Proc, ReDiscovered(p) PROVE Inv'
<1>1. TypeOK /\ Local(p) /\ pc[p] = "reInspect" /\ At(p) = "reInspect"
  BY DEF Inv, ReDiscovered, At
<1>2. \/ /\ disk' = Observing(disk, memory'[p])
         /\ pc'[p] = "sync" /\ cont'[p] = "reRemove" /\ At(p)' = "reRemove"
         /\ result' = result
      \/ disk' = disk /\ pc'[p] = "finish" /\ At(p)' = "finish" /\ ~Clear(p)'
  <2>1. memory'[p] = memory[p] \cup {RoleOrder[cursor[p]]}
    BY <1>1 DEF ReDiscovered, TypeOK
  <2>2. disk # NoJournal
    BY <1>1 DEF Local, JournalHeld, Reconciling, OnRecord
  <2> QED
    BY <1>1, <2>1, <2>2, WriteOutcome, GiveUpAt
    DEF ReDiscovered, Label, AfterFailedWrite, FlagsAfterFailedWrite
<1>3. Own(p)
  BY <1>1, WriteOwn DEF ReDiscovered
<1>4. \A role \in memory'[p] : AtHome(p, role) \notin pending
  <2>1. AtHome(p, RoleOrder[cursor[p]]) \notin pending
    BY DEF Inv, Global, OneRequestPerRole, ReDiscovered, Owned, Name, AtHome
  <2> QED
    BY <1>1, <2>1
    DEF Local, Bearings, Remembered, Reconciling, ReDiscovered, TypeOK
<1>5. /\ tok[p] \in Token /\ home[p] \in Engine /\ home[p] = born[tok[p]]
      /\ OnRecord(disk, p) /\ OnRecord(Observing(disk, memory'[p]), p)
  BY <1>1, ConstantsAssumption
  DEF Local, Bearings, Identity, JournalHeld, Reconciling, OnRecord, Observing,
      Journal, TypeOK
<1>6. Global'
  BY <1>2, <1>4, <1>5, WriteGlobal
  DEF ReDiscovered, dockerVars, Observing, OnRecord
<1>7. Bearings(p)'
  BY <1>1, <1>2, <1>4, <1>5
  DEF Local, Bearings, SyncKnows, NotRaised, Cleaning, Identity, Remembered, Confirmed,
      AtHome, Reconciling, Attempting, Working, ReDiscovered, dockerVars
<1>8. JournalHeld(p)'
  BY <1>1, <1>2, <1>5
  DEF Local, JournalHeld, OnRecord, Reconciling, Working, ReDiscovered
<1>9. ReconcileKnows(p)'
  BY <1>1, <1>2
  DEF Local, ReconcileKnows, Gone, AtHome, ReDiscovered, dockerVars, TypeOK
<1>10. AttemptStarts(p)' /\ ParticipantKnows(p)' /\ CleanupKnows(p)'
  BY <1>2 DEF AttemptStarts, ParticipantKnows, CleanupKnows, Cleaning
<1> QED
  BY <1>3, <1>6, <1>7, <1>8, <1>9, <1>10, Reduce DEF Local

\* The last write of the reconciliation records every role.
LEMMA ReFinishStep ==
  ASSUME Inv, TypeOK', NEW p \in Proc, ReFinish(p) PROVE Inv'
<1>1. TypeOK /\ Local(p) /\ pc[p] = "reFinish" /\ At(p) = "reFinish"
  BY DEF Inv, ReFinish, At
<1>2. \/ /\ disk' = Observing(disk, memory[p])
         /\ pc'[p] = "sync" /\ cont'[p] = "reForget" /\ At(p)' = "reForget"
         /\ result' = result
      \/ disk' = disk /\ pc'[p] = "finish" /\ At(p)' = "finish" /\ ~Clear(p)'
  <2>1. disk # NoJournal
    BY <1>1 DEF Local, JournalHeld, Reconciling, OnRecord
  <2> QED
    BY <1>1, <2>1, WriteOutcome, GiveUpAt
    DEF ReFinish, Label, AfterFailedWrite, FlagsAfterFailedWrite
<1>3. Own(p)
  BY <1>1, WriteOwn DEF ReFinish, localVars
<1>4. \A role \in memory[p] : AtHome(p, role) \notin pending
  BY <1>1 DEF Local, Bearings, Remembered, Reconciling
<1>5. /\ tok[p] \in Token /\ home[p] \in Engine /\ home[p] = born[tok[p]]
      /\ OnRecord(disk, p) /\ OnRecord(Observing(disk, memory[p]), p)
  BY <1>1, ConstantsAssumption
  DEF Local, Bearings, Identity, JournalHeld, Reconciling, OnRecord, Observing,
      Journal, TypeOK
<1>6. Global'
  BY <1>2, <1>4, <1>5, WriteGlobal
  DEF ReFinish, dockerVars, Observing, OnRecord
<1>7. Bearings(p)'
  BY <1>1, <1>2, <1>4, <1>5
  DEF Local, Bearings, SyncKnows, NotRaised, Cleaning, Identity, Remembered, Confirmed,
      AtHome, Reconciling, Attempting, Working, ReFinish, dockerVars, localVars
<1>8. JournalHeld(p)'
  BY <1>1, <1>2, <1>5
  DEF Local, JournalHeld, OnRecord, Reconciling, Working, ReFinish, localVars
<1>9. ReconcileKnows(p)'
  BY <1>1, <1>2
  DEF Local, ReconcileKnows, Gone, AtHome, ReFinish, dockerVars, localVars
<1>10. AttemptStarts(p)' /\ ParticipantKnows(p)' /\ CleanupKnows(p)'
  BY <1>2 DEF AttemptStarts, ParticipantKnows, CleanupKnows, Cleaning
<1> QED
  BY <1>3, <1>6, <1>7, <1>8, <1>9, <1>10, Reduce DEF Local

\* The reconciled journal is removed when nothing of its attempt is left.
LEMMA ReForgetStep ==
  ASSUME Inv, TypeOK', NEW p \in Proc, ReForget(p) PROVE Inv'
<1>1. TypeOK /\ Local(p) /\ pc[p] = "reForget" /\ At(p) = "reForget"
  BY DEF Inv, ReForget, At
<1>2. OnRecord(disk, p) /\ \A role \in Role : Gone(p, role)
  BY <1>1 DEF Local, JournalHeld, ReconcileKnows, Reconciling
<1>3. \/ /\ disk' = NoJournal /\ pc'[p] = "sync" /\ At(p)' = cont'[p]
         /\ cont'[p] \in {"prepare", "finish"} /\ result' = result
      \/ disk' = disk /\ pc'[p] = "finish" /\ At(p)' = "finish" /\ ~Clear(p)'
  BY <1>1, <1>2, WriteOutcome, GiveUpAt
  DEF ReForget, AfterReconcile, Label, OnRecord, AfterFailedWrite,
      FlagsAfterFailedWrite
<1>4. Own(p)
  BY <1>1, WriteOwn DEF ReForget, localVars
<1>5. Global'
  BY <1>2, <1>3, ForgetGlobal DEF ReForget, dockerVars
<1>6. Bearings(p)'
  BY <1>1, <1>3
  DEF Local, Bearings, SyncKnows, NotRaised, Cleaning, Identity, Remembered, Confirmed,
      Reconciling, Attempting, Working, ReForget, dockerVars, localVars
<1>7. JournalHeld(p)'
  BY <1>3 DEF JournalHeld, Reconciling, Working
<1>8. /\ ReconcileKnows(p)' /\ AttemptStarts(p)' /\ ParticipantKnows(p)'
      /\ CleanupKnows(p)'
  BY <1>3 DEF ReconcileKnows, AttemptStarts, ParticipantKnows, CleanupKnows, Cleaning
<1> QED
  BY <1>4, <1>5, <1>6, <1>7, <1>8, Reduce DEF Local

\* The intent is written over no other attempt's journal.
LEMMA IntendStep ==
  ASSUME Inv, TypeOK', NEW p \in Proc, Intend(p) PROVE Inv'
<1>1. TypeOK /\ Local(p) /\ pc[p] = "intend" /\ At(p) = "intend"
  BY DEF Inv, Intend, At
<1>2. \/ /\ disk' = Entry(p, {}) /\ pc'[p] = "sync" /\ cont'[p] = "createVolume"
         /\ At(p)' = "createVolume" /\ result' = result
      \/ /\ disk' = disk /\ pc'[p] = "settle" /\ At(p)' = "settle"
  BY <1>1, WriteOutcome
  DEF Intend, Label, AfterFailedWrite
<1>3. /\ tok[p] \in Token /\ home[p] \in Engine /\ home[p] = born[tok[p]]
      /\ disk = NoJournal /\ OnRecord(Entry(p, {}), p)
  BY <1>1, ConstantsAssumption
  DEF Local, Bearings, Identity, JournalHeld, Attempting, OnRecord, Entry,
      Journal
<1>4. Own(p)
  BY <1>1, WriteOwn DEF Intend, localVars
<1>5. Global'
  BY <1>2, <1>3, WriteGlobal DEF Intend, dockerVars, Entry, OnRecord
<1>6. Bearings(p)'
  BY <1>1, <1>2
  DEF Local, Bearings, SyncKnows, NotRaised, Cleaning, Identity, Remembered, Confirmed,
      AtHome, Reconciling, Attempting, Working, Intend, dockerVars, localVars
<1>7. JournalHeld(p)'
  BY <1>2, <1>3
  DEF JournalHeld, OnRecord, Reconciling, Working, Intend, localVars
<1>8. AttemptStarts(p)'
  BY <1>1, <1>2
  DEF Local, AttemptStarts, Entry, NotAsked, Intend, dockerVars, localVars
<1>9. CleanupKnows(p)'
  BY <1>1, <1>2
  DEF Local, AttemptStarts, NotAsked, CleanupKnows, Cleaning, Gone, AtHome, Intend,
      dockerVars, localVars
<1>10. ReconcileKnows(p)' /\ ParticipantKnows(p)'
  BY <1>2 DEF ReconcileKnows, ParticipantKnows
<1> QED
  BY <1>4, <1>5, <1>6, <1>7, <1>8, <1>9, <1>10, Reduce DEF Local

\* The volume's reply is in, and recorded.
LEMMA VolumeReplyStep ==
  ASSUME Inv, TypeOK', NEW p \in Proc, VolumeReply(p) PROVE Inv'
<1>1. TypeOK /\ Local(p) /\ pc[p] = "volumeReply" /\ At(p) = "volumeReply"
  BY DEF Inv, VolumeReply, At
<1>2. memory[p] = {} /\ memory'[p] = {"volume"}
  BY <1>1 DEF Local, AttemptStarts, VolumeReply, Recorded, TypeOK
<1>3. /\ tok[p] \in Token /\ home[p] \in Engine /\ home[p] = born[tok[p]]
      /\ OnRecord(disk, p) /\ OnRecord(Entry(p, memory'[p]), p)
  BY <1>1, <1>2, ConstantsAssumption
  DEF Local, Bearings, Identity, JournalHeld, Attempting, Working, OnRecord,
      Entry, Journal, Role
<1>4. \/ /\ disk' = Entry(p, memory'[p])
         /\ pc'[p] = "sync" /\ cont'[p] = "createHelper" /\ At(p)' = "createHelper"
         /\ result' = result
      \/ disk' = disk /\ pc'[p] = "clean" /\ At(p)' = "clean" /\ ~Clear(p)'
  <2>1. Write(p, Entry(p, memory'[p]), "createHelper")
    BY <1>2 DEF VolumeReply, Recorded
  <2> QED
    BY <1>1, <1>3, <2>1, WriteOutcome, GiveUpAt
    DEF Label, AfterFailedWrite, FlagsAfterFailedWrite
<1>5. Own(p)
  BY <1>1, WriteOwn DEF VolumeReply, Recorded
<1>6. \A role \in memory'[p] : AtHome(p, role) \notin pending
  <2>1. AtHome(p, "volume") \notin pending
    BY DEF Inv, Global, OneRequestPerRole, VolumeReply, Recorded, Owned, Name, AtHome
  <2> QED
    BY <1>1, <1>2, <2>1 DEF Local, Bearings, Remembered, Attempting, Working
<1>7. Global'
  BY <1>3, <1>4, <1>6, WriteGlobal
  DEF VolumeReply, Recorded, dockerVars, Entry, OnRecord
<1>8. Bearings(p)'
  BY <1>1, <1>3, <1>4, <1>6
  DEF Local, Bearings, SyncKnows, NotRaised, Cleaning, Identity, Remembered, Confirmed,
      AtHome, Reconciling, Attempting, Working, VolumeReply, Recorded, dockerVars
<1>9. JournalHeld(p)'
  BY <1>3, <1>4 DEF JournalHeld, OnRecord, Reconciling, Working, VolumeReply, Recorded
<1>10. AttemptStarts(p)'
  BY <1>1, <1>2, <1>4
  DEF Local, AttemptStarts, Entry, NotAsked, VolumeReply, Recorded, dockerVars
<1>11. ParticipantKnows(p)'
  BY <1>1, <1>4 DEF Local, ParticipantKnows, VolumeReply, Recorded
<1>12. ReconcileKnows(p)' /\ CleanupKnows(p)'
  BY <1>4 DEF ReconcileKnows, CleanupKnows, Cleaning
<1> QED
  BY <1>5, <1>7, <1>8, <1>9, <1>10, <1>11, <1>12, Reduce DEF Local

\* The helper's reply is in, and recorded.
LEMMA HelperReplyStep ==
  ASSUME Inv, TypeOK', NEW p \in Proc, HelperReply(p) PROVE Inv'
<1>1. TypeOK /\ Local(p) /\ pc[p] = "helperReply" /\ At(p) = "helperReply"
  BY DEF Inv, HelperReply, At
<1>2. memory[p] = {"volume"} /\ memory'[p] = {"helper", "volume"}
  BY <1>1 DEF Local, AttemptStarts, HelperReply, Recorded, TypeOK
<1>3. /\ tok[p] \in Token /\ home[p] \in Engine /\ home[p] = born[tok[p]]
      /\ OnRecord(disk, p) /\ OnRecord(Entry(p, memory'[p]), p)
  BY <1>1, <1>2, ConstantsAssumption
  DEF Local, Bearings, Identity, JournalHeld, Attempting, Working, OnRecord,
      Entry, Journal, Role
<1>4. \/ /\ disk' = Entry(p, memory'[p])
         /\ pc'[p] = "sync" /\ cont'[p] = "hostPolicy" /\ At(p)' = "hostPolicy"
         /\ result' = result
      \/ disk' = disk /\ pc'[p] = "clean" /\ At(p)' = "clean" /\ ~Clear(p)'
  <2>1. Write(p, Entry(p, memory'[p]), "hostPolicy")
    BY <1>2 DEF HelperReply, Recorded
  <2> QED
    BY <1>1, <1>3, <2>1, WriteOutcome, GiveUpAt
    DEF Label, AfterFailedWrite, FlagsAfterFailedWrite
<1>5. Own(p)
  BY <1>1, WriteOwn DEF HelperReply, Recorded
<1>6. \A role \in memory'[p] : AtHome(p, role) \notin pending
  <2>1. AtHome(p, "helper") \notin pending
    BY DEF Inv, Global, OneRequestPerRole, HelperReply, Recorded, Owned, Name, AtHome
  <2> QED
    BY <1>1, <1>2, <2>1 DEF Local, Bearings, Remembered, Attempting, Working
<1>7. Global'
  BY <1>3, <1>4, <1>6, WriteGlobal
  DEF HelperReply, Recorded, dockerVars, Entry, OnRecord
<1>8. Bearings(p)'
  BY <1>1, <1>3, <1>4, <1>6
  DEF Local, Bearings, SyncKnows, NotRaised, Cleaning, Identity, Remembered, Confirmed,
      AtHome, Reconciling, Attempting, Working, HelperReply, Recorded, dockerVars
<1>9. JournalHeld(p)'
  BY <1>3, <1>4 DEF JournalHeld, OnRecord, Reconciling, Working, HelperReply, Recorded
<1>10. AttemptStarts(p)'
  BY <1>1, <1>2, <1>4
  DEF Local, AttemptStarts, Entry, NotAsked, HelperReply, Recorded, dockerVars
<1>11. ParticipantKnows(p)'
  BY <1>1, <1>4 DEF Local, ParticipantKnows, HelperReply, Recorded
<1>12. ReconcileKnows(p)' /\ CleanupKnows(p)'
  BY <1>4 DEF ReconcileKnows, CleanupKnows, Cleaning
<1> QED
  BY <1>5, <1>7, <1>8, <1>9, <1>10, <1>11, <1>12, Reduce DEF Local

\* The participant container is seen under its label, and recorded.
LEMMA InspectOwnedStep ==
  ASSUME Inv, TypeOK', NEW p \in Proc, InspectOwned(p) PROVE Inv'
<1>1. TypeOK /\ Local(p) /\ pc[p] = "inspect" /\ At(p) = "inspect"
  BY DEF Inv, InspectOwned, At
<1>2. memory[p] = {"helper", "volume"} /\ memory'[p] = Role /\ cursor[p] = 2
  BY <1>1
  DEF Local, AttemptStarts, ParticipantKnows, InspectOwned, TypeOK, Role
<1>3. /\ tok[p] \in Token /\ home[p] \in Engine /\ home[p] = born[tok[p]]
      /\ OnRecord(disk, p) /\ OnRecord(Entry(p, Role), p)
  BY <1>1, ConstantsAssumption
  DEF Local, Bearings, Identity, JournalHeld, Attempting, Working, OnRecord,
      Entry, Journal
<1>4. \/ /\ disk' = Entry(p, Role)
         /\ pc'[p] = "sync" /\ cont'[p] = "stop" /\ At(p)' = "stop"
         /\ result'[p] = result[p]
      \/ /\ disk' = disk /\ pc'[p] = "stop" /\ At(p)' = "stop"
         /\ result'[p] = Infra(result[p], Pending)
  <2>1. Write(p, Entry(p, Role), "stop")
    BY <1>2 DEF InspectOwned, Role
  <2> QED
    BY <1>1, <2>1, WriteOutcome
    DEF Label, AfterFailedWrite, FlagsAfterFailedWrite
<1>5. Own(p)
  BY <1>1, WriteOwn DEF InspectOwned
<1>6. \A role \in memory'[p] : AtHome(p, role) \notin pending
  <2>1. AtHome(p, "participant") \notin pending
    BY DEF Inv, Global, OneRequestPerRole, InspectOwned, Owned, Name, AtHome
  <2> QED
    BY <1>1, <1>2, <2>1
    DEF Local, Bearings, Remembered, Attempting, Working, Role
<1>7. Global'
  BY <1>2, <1>3, <1>4, <1>6, WriteGlobal
  DEF InspectOwned, dockerVars, Entry, OnRecord
<1>8. result'[p].kind # "raised"
  BY <1>1, <1>4, InfraFlags DEF Local, Bearings, NotRaised, Cleaning, TypeOK, Pending
<1>9. Bearings(p)'
  BY <1>1, <1>3, <1>4, <1>6, <1>8
  DEF Local, Bearings, SyncKnows, NotRaised, Cleaning, Identity, Remembered, Confirmed,
      AtHome, Reconciling, Attempting, Working, InspectOwned, dockerVars
<1>10. JournalHeld(p)'
  BY <1>3, <1>4 DEF JournalHeld, OnRecord, Reconciling, Working, InspectOwned
<1>11. ParticipantKnows(p)'
  BY <1>2, <1>4 DEF ParticipantKnows, InspectOwned
<1>12. ReconcileKnows(p)' /\ AttemptStarts(p)' /\ CleanupKnows(p)'
  BY <1>4 DEF ReconcileKnows, AttemptStarts, CleanupKnows, Cleaning
<1> QED
  BY <1>5, <1>7, <1>9, <1>10, <1>11, <1>12, Reduce DEF Local

\* All roles are recorded as observed before the journal is removed.
LEMMA SettleStep ==
  ASSUME Inv, TypeOK', NEW p \in Proc, Settle(p) PROVE Inv'
<1>1. TypeOK /\ Local(p) /\ pc[p] = "settle" /\ At(p) = "settle"
  BY DEF Inv, Settle, At
<1>2. \A role \in Role : Gone(p, role)
  BY <1>1 DEF Local, CleanupKnows, Cleaning, Clear, Settle
<1>3. /\ tok[p] \in Token /\ home[p] \in Engine /\ home[p] = born[tok[p]]
      /\ disk = NoJournal \/ OnRecord(disk, p)
      /\ OnRecord(Entry(p, Role), p)
  BY <1>1, ConstantsAssumption
  DEF Local, Bearings, Identity, JournalHeld, Attempting, Working, OnRecord,
      Entry, Journal
<1>4. \/ /\ disk = NoJournal /\ disk' = disk /\ result' = result
         /\ pc'[p] = "publish" /\ At(p)' = "publish" /\ UNCHANGED cont
      \/ /\ disk # NoJournal /\ disk' = Entry(p, Role) /\ result' = result
         /\ pc'[p] = "sync" /\ cont'[p] = "forget" /\ At(p)' = "forget"
      \/ disk' = disk /\ pc'[p] = "finish" /\ At(p)' = "finish" /\ ~Clear(p)'
  BY <1>1, WriteOutcome, GiveUpAt
  DEF Settle, Goto, TypeOK, At, Label, AfterFailedWrite, FlagsAfterFailedWrite
<1>5. Own(p)
  <2>1. CASE disk = NoJournal
    BY <1>1, <1>4, <2>1 DEF Own, Settle, Goto, TypeOK, localVars
  <2>2. CASE disk # NoJournal
    BY <1>1, <2>2, WriteOwn DEF Settle, localVars
  <2> QED
    BY <2>1, <2>2
<1>6. Global'
  BY <1>2, <1>3, <1>4, WriteGlobal
  DEF Settle, dockerVars, Entry, OnRecord, Gone
<1>7. Bearings(p)'
  BY <1>1, <1>2, <1>4
  DEF Local, Bearings, SyncKnows, NotRaised, Cleaning, Identity, Remembered, Confirmed,
      AtHome, Reconciling, Attempting, Working, Settle, dockerVars, localVars
<1>8. JournalHeld(p)'
  BY <1>3, <1>4
  DEF JournalHeld, OnRecord, Reconciling, Working, Settle, localVars
<1>9. CleanupKnows(p)'
  BY <1>2, <1>4
  DEF CleanupKnows, Cleaning, Gone, AtHome, Settle, dockerVars, localVars
<1>10. ReconcileKnows(p)' /\ AttemptStarts(p)' /\ ParticipantKnows(p)'
  BY <1>4 DEF ReconcileKnows, AttemptStarts, ParticipantKnows
<1> QED
  BY <1>5, <1>6, <1>7, <1>8, <1>9, <1>10, Reduce DEF Local

\* The attempt's journal is removed when nothing of it is left.
LEMMA ForgetStep ==
  ASSUME Inv, TypeOK', NEW p \in Proc, Forget(p) PROVE Inv'
<1>1. TypeOK /\ Local(p) /\ pc[p] = "forget" /\ At(p) = "forget"
  BY DEF Inv, Forget, At
<1>2. OnRecord(disk, p) /\ \A role \in Role : Gone(p, role)
  BY <1>1 DEF Local, JournalHeld, CleanupKnows, Cleaning, Working
<1>3. \/ /\ disk' = NoJournal /\ pc'[p] = "sync" /\ cont'[p] = "publish"
         /\ At(p)' = "publish" /\ result' = result
      \/ disk' = disk /\ pc'[p] = "finish" /\ At(p)' = "finish" /\ ~Clear(p)'
  BY <1>1, WriteOutcome, GiveUpAt
  DEF Forget, Label, AfterFailedWrite, FlagsAfterFailedWrite
<1>4. Own(p)
  BY <1>1, WriteOwn DEF Forget, localVars
<1>5. Global'
  BY <1>2, <1>3, ForgetGlobal DEF Forget, dockerVars
<1>6. Bearings(p)'
  BY <1>1, <1>3
  DEF Local, Bearings, SyncKnows, NotRaised, Cleaning, Identity, Remembered, Confirmed,
      Reconciling, Attempting, Working, Forget, dockerVars, localVars
<1>7. JournalHeld(p)'
  BY <1>3 DEF JournalHeld, Reconciling, Working
<1>8. /\ ReconcileKnows(p)' /\ AttemptStarts(p)' /\ ParticipantKnows(p)'
      /\ CleanupKnows(p)'
  BY <1>3 DEF ReconcileKnows, AttemptStarts, ParticipantKnows, CleanupKnows, Cleaning
<1> QED
  BY <1>4, <1>5, <1>6, <1>7, <1>8, Reduce DEF Local

\* The new journal becomes durable and the process goes on, or it does not and
\* the process takes the way out that the code has for that moment.
LEMMA FsyncStep ==
  ASSUME Inv, TypeOK', NEW p \in Proc, Fsync(p) PROVE Inv'
<1>1. TypeOK /\ Local(p) /\ pc[p] = "sync" /\ At(p) = cont[p]
  BY DEF Inv, Fsync, At
<1>2. cont[p] \in {"reRemove", "reForget", "prepare", "finish", "createVolume",
                   "createHelper", "hostPolicy", "stop", "forget", "publish"}
  BY <1>1 DEF Local, Bearings, SyncKnows
<1>3. CASE durable' = disk /\ Goto(p, cont[p]) /\ UNCHANGED result
  <2>1. pc'[p] = cont[p] /\ At(p)' = cont[p]
    BY <1>1, <1>2, <1>3 DEF Goto, TypeOK, At
  <2>2. Own(p)
    BY <1>1, <1>2, <1>3 DEF Own, Fsync, Goto, TypeOK, localVars
  <2>3. Global'
    BY <1>3
    DEF Fsync, dockerVars, Inv, Global, JournalsKnown, SettledMeansQuiet,
        OneRequestPerRole, NoOrphan, ObservedIsSettled, Covers
  <2>4. Bearings(p)'
    BY <1>1, <1>2, <1>3, <2>1
    DEF Local, Bearings, SyncKnows, NotRaised, Cleaning, Identity, Remembered, Confirmed,
        AtHome, Reconciling, Attempting, Working, Fsync, dockerVars, localVars
  <2>5. JournalHeld(p)'
    BY <1>1, <1>2, <1>3, <2>1
    DEF Local, JournalHeld, OnRecord, Clear, Reconciling, Working, Fsync,
        localVars
  <2>6. ReconcileKnows(p)'
    BY <1>1, <1>2, <2>1
    DEF Local, ReconcileKnows, Gone, AtHome, Fsync, dockerVars, localVars
  <2>7. AttemptStarts(p)'
    BY <1>1, <1>2, <1>3, <2>1
    DEF Local, AttemptStarts, Entry, NotAsked, Fsync, dockerVars, localVars
  <2>8. ParticipantKnows(p)'
    BY <1>1, <1>2, <2>1 DEF Local, ParticipantKnows, Fsync, localVars
  <2>9. CleanupKnows(p)'
    BY <1>1, <1>2, <2>1
    DEF Local, CleanupKnows, Cleaning, Gone, AtHome, Fsync, dockerVars, localVars
  <2> QED
    BY <2>2, <2>3, <2>4, <2>5, <2>6, <2>7, <2>8, <2>9, Reduce DEF Local
<1>4. CASE FailedWrite(p, cont[p], disk) /\ UNCHANGED durable
  <2>1. /\ result[p] \in Result
        /\ result[p].kind # "raised" \/ cont[p] = "finish"
    BY <1>1, <1>2 DEF Local, Bearings, NotRaised, Cleaning, TypeOK
  <2>2. /\ pc'[p] = AfterFailedWrite(cont[p]) /\ At(p)' = pc'[p]
        /\ result'[p] = Infra(result[p], FlagsAfterFailedWrite(cont[p], disk))
    BY <1>1, <1>4 DEF FailedWrite, Goto, TypeOK, AfterFailedWrite, At
  <2>3. Own(p)
    BY <1>1, <1>4
    DEF Own, Fsync, FailedWrite, Goto, TypeOK, localVars, AfterFailedWrite
  <2>4. Global'
    BY <1>4, GlobalLess DEF Fsync, dockerVars
  <2>5. Clear(p)' =>
          \/ cont[p] = "createVolume"
          \/ /\ cont[p] \in {"reRemove", "reForget", "prepare", "finish"}
             /\ disk = NoJournal
    BY <1>1, <2>2, GiveUpAt DEF FlagsAfterFailedWrite
  <2>6. Bearings(p)'
    BY <1>1, <1>2, <2>1, <2>2, InfraFlags
    DEF Local, Bearings, SyncKnows, NotRaised, Cleaning, Identity, Remembered, Confirmed,
        AtHome, Reconciling, Attempting, Working, Fsync, dockerVars, localVars,
        AfterFailedWrite, FlagsAfterFailedWrite, Pending
  <2>7. JournalHeld(p)'
    BY <1>1, <1>2, <2>2, <2>5
    DEF Local, JournalHeld, OnRecord, Reconciling, Working, Fsync, localVars,
        AfterFailedWrite
  <2>8. ParticipantKnows(p)'
    BY <1>1, <1>2, <2>2
    DEF Local, ParticipantKnows, Fsync, localVars, AfterFailedWrite
  <2>9. CleanupKnows(p)'
    BY <1>1, <1>2, <2>2, <2>5
    DEF Local, AttemptStarts, NotAsked, CleanupKnows, Cleaning, Gone, AtHome, Fsync,
        dockerVars, localVars, AfterFailedWrite
  <2>10. ReconcileKnows(p)' /\ AttemptStarts(p)'
    BY <1>2, <2>2 DEF ReconcileKnows, AttemptStarts, AfterFailedWrite
  <2> QED
    BY <2>3, <2>4, <2>6, <2>7, <2>8, <2>9, <2>10, Reduce DEF Local
<1> QED
  BY <1>3, <1>4 DEF Fsync

-----------------------------------------------------------------------------
(* Processes that come and go. *)

\* Only one process works on a directory.
LEMMA StartStep ==
  ASSUME Inv, TypeOK', NEW p \in Proc, NEW m \in Mode, Start(p, m) PROVE Inv'
<1>1. TypeOK /\ pc[p] = "idle" /\ cursor[p] = 1 /\ result[p] = NoResult
  BY DEF Inv, Start, IdleIsFresh
<1>2. pc'[p] = "load" /\ At(p)' = "load" /\ mode'[p] = m /\ lock' = p
  BY <1>1 DEF Start, Goto, TypeOK, At
<1>3. \A q \in Proc : q # p => pc[q] = "idle" /\ pc'[q] = "idle"
  BY <1>1, ConstantsAssumption DEF Inv, MutualExclusion, Start, Goto, TypeOK
<1>4. Global'
  BY GlobalLess DEF Start, dockerVars
<1>5. Bearings(p)'
  BY <1>1, <1>2
  DEF Bearings, SyncKnows, NotRaised, Cleaning, Identity, Remembered, Confirmed,
      Reconciling, Attempting, Working, Start, NoResult, dockerVars
<1>6. Local(p)'
  BY <1>1, <1>2, <1>5
  DEF Local, JournalHeld, Reconciling, Working, ReconcileKnows, AttemptStarts,
      ParticipantKnows, CleanupKnows, Cleaning, Start
<1>7. MutualExclusion' /\ IdleIsFresh'
  BY <1>2, <1>3 DEF MutualExclusion, IdleIsFresh, Inv, Start
<1> QED
  BY <1>3, <1>4, <1>6, <1>7 DEF Inv

\* Afterwards nobody is at work.
LEMMA VanishStep ==
  ASSUME Inv, TypeOK', Global', NEW P \in SUBSET Proc, Vanish(P),
         \A q \in Proc \ P : pc[q] = "idle"
  PROVE  Inv'
<1>1. \A q \in Proc : pc'[q] = "idle"
  BY DEF Vanish
<1>2. MutualExclusion' /\ IdleIsFresh'
  BY <1>1 DEF MutualExclusion, IdleIsFresh, Vanish, Inv
<1> QED
  BY <1>1, <1>2 DEF Inv

\* A run returns and forgets.
LEMMA ReleaseStep ==
  ASSUME Inv, TypeOK', NEW p \in Proc, Release(p) PROVE Inv'
<1>1. Global'
  BY GlobalLess DEF Release
<1>2. \A q \in Proc \ {p} : pc[q] = "idle"
  BY DEF Inv, MutualExclusion, Release
<1>3. {p} \in SUBSET Proc
  OBVIOUS
<1> QED
  BY <1>1, <1>2, <1>3, VanishStep DEF Release

\* A process dies: its lock is free, its requests and its journal stay.
LEMMA CrashStep ==
  ASSUME Inv, TypeOK', NEW p \in Proc, Crash(p) PROVE Inv'
<1>1. Global'
  BY GlobalLess DEF Crash
<1>2. \A q \in Proc \ {p} : pc[q] = "idle"
  BY DEF Inv, MutualExclusion, Crash
<1>3. {p} \in SUBSET Proc
  OBVIOUS
<1> QED
  BY <1>1, <1>2, <1>3, VanishStep DEF Crash

\* A journal that was not synced may come back or vanish; both cover what is left.
LEMMA PowerLossStep ==
  ASSUME Inv, TypeOK', PowerLoss PROVE Inv'
<1>1. Global'
  BY DEF PowerLoss, Inv, Global, JournalsKnown, SettledMeansQuiet,
         OneRequestPerRole, NoOrphan, ObservedIsSettled, Covers
<1>2. Proc \in SUBSET Proc /\ \A q \in Proc \ Proc : pc[q] = "idle"
  OBVIOUS
<1> QED
  BY <1>1, <1>2, VanishStep DEF PowerLoss

-----------------------------------------------------------------------------
(* Steps of the surroundings. *)

\* They touch nothing a process holds; what it knows of Docker survives when no
\* request or resource appears from nowhere, and what is gone stays gone.
LEMMA Surroundings ==
  ASSUME Inv, TypeOK',
         UNCHANGED <<born, disk, durable, lock, pc, cont, localVars, result>>,
         pending' \subseteq pending,
         live' \cup pending' \subseteq live \cup pending,
         settled \subseteq settled', Global',
         \A p \in Proc, role \in Role : Gone(p, role) => Gone(p, role)',
         \A p \in Proc :
           /\ box[p] = NoBox /\ NotAsked(p, "participant") => box'[p] = NoBox
           /\ box[p].status = "none" /\ box'[p].status # "none" =>
                \A r \in pending' : ~(r.tok = tok[p] /\ r.role = "participant")
  PROVE  Inv'
<1>1. MutualExclusion' /\ IdleIsFresh'
  BY DEF Inv, MutualExclusion, IdleIsFresh, localVars
<1>2. ASSUME NEW p \in Proc, pc'[p] # "idle" PROVE Local(p)'
  <2>1. TypeOK /\ Local(p) /\ At(p)' = At(p)
    BY <1>2 DEF Inv, At
  <2>2. Bearings(p)'
    BY <2>1
    DEF Local, Bearings, SyncKnows, NotRaised, Cleaning, Identity, Remembered, Confirmed,
        AtHome, localVars
  <2>3. JournalHeld(p)'
    BY <2>1 DEF Local, JournalHeld, OnRecord, Clear, localVars
  <2>4. ReconcileKnows(p)'
    <3>1. \A i \in 1..(cursor[p] - 1) : RoleOrder[i] \in Role
      BY <2>1 DEF TypeOK, RoleOrder, Role
    <3> QED
      BY <2>1, <3>1 DEF Local, ReconcileKnows, localVars
  <2>5. AttemptStarts(p)'
    BY <2>1 DEF Local, AttemptStarts, Entry, NotAsked, Role, localVars
  <2>6. ParticipantKnows(p)'
    BY <2>1 DEF Local, ParticipantKnows, AtHome, localVars
  <2>7. CleanupKnows(p)'
    BY <2>1 DEF Local, CleanupKnows, Cleaning, Clear, Role, localVars
  <2> QED
    BY <2>2, <2>3, <2>4, <2>5, <2>6, <2>7 DEF Local
<1> QED
  BY <1>1, <1>2 DEF Inv

\* A participant container starts.
LEMMA ContainerStartsStep ==
  ASSUME Inv, TypeOK', NEW q \in Proc, ContainerStarts(q) PROVE Inv'
<1>1. Global'
  BY GlobalLess DEF ContainerStarts, diskVars
<1>2. \A p \in Proc : box'[p] = box[p] \/ box[p].status = "created"
  BY DEF ContainerStarts, Inv, TypeOK
<1> QED
  BY <1>1, <1>2, Surroundings
  DEF ContainerStarts, diskVars, localVars, NoBox, Gone, AtHome

\* A participant container ends.
LEMMA ContainerExitsStep ==
  ASSUME Inv, TypeOK', NEW q \in Proc, ContainerExits(q) PROVE Inv'
<1>1. Global'
  BY GlobalLess DEF ContainerExits, diskVars
<1>2. \A p \in Proc : box'[p] = box[p] \/ box[p].status = "running"
  BY DEF ContainerExits, Inv, TypeOK
<1> QED
  BY <1>1, <1>2, Surroundings
  DEF ContainerExits, diskVars, localVars, NoBox, Gone, AtHome

\* A request becomes a resource: what covered the one covers the other.
LEMMA DaemonCreatesStep ==
  ASSUME Inv, TypeOK', NEW r \in pending, DaemonCreates(r) PROVE Inv'
<1>1. live' \cup pending' = live \cup pending /\ pending' \subseteq pending
  BY DEF DaemonCreates
<1>2. Global'
  BY <1>1
  DEF DaemonCreates, diskVars, Inv, Global, JournalsKnown, SettledMeansQuiet,
      OneRequestPerRole, NoOrphan, ObservedIsSettled, Covers
<1>3. \A p \in Proc, role \in Role : Gone(p, role) => Gone(p, role)'
  BY DEF DaemonCreates, Gone, AtHome, localVars
<1>4. ASSUME NEW p \in Proc, box'[p] # box[p]
      PROVE  r.tok = tok[p] /\ r.role = "participant"
  BY <1>4 DEF DaemonCreates, Name, Inv, TypeOK
<1>5. \A p \in Proc : box[p] = NoBox /\ NotAsked(p, "participant") => box'[p] = NoBox
  BY <1>4 DEF NotAsked
<1>6. \A p \in Proc : box[p].status = "none" /\ box'[p].status # "none" =>
        \A s \in pending' : ~(s.tok = tok[p] /\ s.role = "participant")
  BY <1>4 DEF Inv, Global, OneRequestPerRole, DaemonCreates
<1> QED
  BY <1>1, <1>2, <1>3, <1>5, <1>6, Surroundings
  DEF DaemonCreates, diskVars, localVars

\* A request ends without a resource.
LEMMA DaemonRefusesStep ==
  ASSUME Inv, TypeOK', NEW r \in pending, DaemonRefuses(r) PROVE Inv'
<1>1. Global'
  BY GlobalLess DEF DaemonRefuses, diskVars
<1> QED
  BY <1>1, Surroundings DEF DaemonRefuses, diskVars, localVars, Gone, AtHome

\* An engine restarts: its requests are gone.
LEMMA EngineRestartsStep ==
  ASSUME Inv, TypeOK', NEW e \in Engine, EngineRestarts(e) PROVE Inv'
<1>1. Global'
  BY DEF EngineRestarts, diskVars, Inv, Global, JournalsKnown,
         SettledMeansQuiet, OneRequestPerRole, NoOrphan, ObservedIsSettled
<1> QED
  BY <1>1, Surroundings DEF EngineRestarts, diskVars, localVars, Gone, AtHome

\* Another engine answers from now on; what exists does not move.
LEMMA RepointStep ==
  ASSUME Inv, TypeOK', NEW e \in Engine, Repoint(e) PROVE Inv'
<1>1. Global'
  BY GlobalLess DEF Repoint, diskVars
<1> QED
  BY <1>1, Surroundings DEF Repoint, diskVars, localVars, Gone, AtHome

\* The command reaches the journal's engine again.
LEMMA PointAtJournalStep ==
  ASSUME Inv, TypeOK', PointAtJournal PROVE Inv'
<1>1. Global'
  BY GlobalLess DEF PointAtJournal, diskVars
<1>2. \A p \in Proc : pc[p] = "idle" /\ pc'[p] = "idle"
  BY ConstantsAssumption DEF PointAtJournal, Inv, MutualExclusion
<1>3. MutualExclusion' /\ IdleIsFresh'
  BY <1>2
  DEF PointAtJournal, diskVars, localVars, Inv, MutualExclusion, IdleIsFresh
<1> QED
  BY <1>1, <1>2, <1>3 DEF Inv

-----------------------------------------------------------------------------
(* What the steps add up to: the properties of RuntimeResources as theorems,   *)
(* and ResourceLedger as what the protocol implements.                         *)

\* The program starts with nothing on record and nobody at work.
LEMMA InitInv == Init => Inv
<1> SUFFICES ASSUME Init PROVE Inv
  OBVIOUS
<1>1. TypeOK
  <2>1. NoBox \in Box /\ NoSeen \in Seen /\ NoResult \in Result
    BY DEF NoBox, Box, NoSeen, Seen, NoResult, Result, Status
  <2>2. /\ "idle" \in Label /\ "evaluate" \in Mode /\ 1 \in 1..3
        /\ MaxFaults \in 0..MaxFaults
    BY ConstantsAssumption DEF Label, Mode
  <2>3. foreign \subseteq Resource
    BY ConstantsAssumption DEF Init
  <2> QED
    BY <2>1, <2>2, <2>3 DEF Init, TypeOK
<1>2. MutualExclusion /\ IdleIsFresh
  BY DEF Init, MutualExclusion, IdleIsFresh
<1>3. Global
  BY DEF Init, Global, JournalsKnown, SettledMeansQuiet, OneRequestPerRole,
         NoOrphan, ObservedIsSettled
<1>4. \A p \in Proc : pc[p] = "idle"
  BY DEF Init
<1> QED
  BY <1>1, <1>2, <1>3, <1>4 DEF Inv

\* The invariant is inductive when no request outlives a client that exited.
LEMMA NextInv ==
  ASSUME ~LateAfterExit, Inv, [Next]_vars PROVE Inv'
<1>1. TypeOK'
  BY TypeStep
<1>2. ASSUME NEW p \in Proc, Step(p) PROVE Inv'
  BY <1>1, <1>2,
     LoadJournalStep, ReconcileFailsStep, ReAbsentStep, ReKnownStep,
     ReTakenStep, ReRemoveStep, ReVerifyStep, ReInDoubtStep,
     ReMovedStep, PrepareStep, CreateVolumeStep, CreateHelperStep,
     ReplyInDoubtStep, HostPolicyStep, LaunchStep, RunEndsStep,
     RunTerminatedStep, ClientFailsStep, RunRaisesStep, IdentifyStep,
     InspectAbsentStep, InspectFailsStep, StopStep, RestatStep,
     RemoveStep, CleanStep, CleanHelperStep, DropHelperStep, CleanVolumeStep, DropVolumeStep,
     KeepJournalStep, ForgetFailsStep, PublishStep, ReDiscoveredStep,
     ReFinishStep, ReForgetStep, IntendStep, VolumeReplyStep,
     HelperReplyStep, InspectOwnedStep, SettleStep, ForgetStep,
     FsyncStep, ReleaseStep
  DEF Step
<1>3. CASE UNCHANGED vars
  <2>1. TypeOK /\ TypeOK'
    BY <1>1 DEF Inv
  <2> QED
    BY <1>3, <2>1
    DEF vars, dockerVars, diskVars, localVars, Inv, MutualExclusion, IdleIsFresh,
        Global, JournalsKnown, SettledMeansQuiet, OneRequestPerRole, NoOrphan,
        ObservedIsSettled, Covers, Local, Bearings, SyncKnows, NotRaised, Cleaning,
        Identity, Remembered, Confirmed, JournalHeld, ReconcileKnows,
        AttemptStarts, ParticipantKnows, CleanupKnows, At, AtHome, NotAsked,
        Gone, OnRecord, Clear, Entry
<1> QED
  BY <1>1, <1>2, <1>3, StartStep, ContainerStartsStep, ContainerExitsStep,
     CrashStep, DaemonCreatesStep, DaemonRefusesStep, EngineRestartsStep,
     RepointStep, PointAtJournalStep, PowerLossStep
  DEF Next

\* Inv holds of every behaviour: of the initial state, and after every step by the
\* lemmas above.
THEOREM Invariance ==
  ASSUME ~LateAfterExit PROVE Spec => []Inv
<1>1. Inv /\ [Next]_vars => Inv'
  BY NextInv
<1> QED
  BY <1>1, InitInv, PTL DEF Spec

\* TypeOK holds of every behaviour.
THEOREM TypeCorrect ==
  ASSUME ~LateAfterExit PROVE Spec => []TypeOK
<1>1. Inv => TypeOK
  BY DEF Inv
<1> QED
  BY <1>1, Invariance, PTL

\* NoOrphan: no resource and no request of an attempt is ever without a journal
\* that names it, on disk and after a power loss.
THEOREM NothingOrphaned ==
  ASSUME ~LateAfterExit PROVE Spec => []NoOrphan
<1>1. Inv => NoOrphan
  BY DEF Inv, Global
<1> QED
  BY <1>1, Invariance, PTL

\* ObservedIsSettled: a role recorded as observed cannot be created any more.
THEOREM ObservationsHold ==
  ASSUME ~LateAfterExit PROVE Spec => []ObservedIsSettled
<1>1. Inv => ObservedIsSettled
  BY DEF Inv, Global
<1> QED
  BY <1>1, Invariance, PTL

\* Only a power loss changes the journal together with anything in Docker.
LEMMA JournalOrDocker ==
  ASSUME [Next]_vars, disk' # disk
  PROVE  \/ UNCHANGED <<live, pending, born>>
         \/ PowerLoss
<1>1. ASSUME NEW p \in Proc, Step(p) PROVE UNCHANGED <<live, pending, born>>
  BY <1>1
  DEF Step, LoadJournal, ReconcileFails, ReAbsent, ReKnown, ReDiscovered,
      ReTaken, ReUnremoved, ReRemove, ReVerify, ReInDoubt, ReFinish, ReForget, ReMoved,
      Prepare, Intend, CreateVolume, VolumeReply, CreateHelper, HelperReply,
      Recorded, ReplyInDoubt, HostPolicy, Launch, RunEnds, RunTerminated,
      ClientFails, RunRaises, Identify, InspectAbsent, InspectFails,
      InspectOwned, Stop, Restat, Remove, Clean, CleanHelper, DropHelper, CleanVolume,
      DropVolume, KeepJournal, Settle, Forget, ForgetFails, Publish, Fsync, Release,
      dockerVars, diskVars
<1> QED
  BY <1>1
  DEF Next, Start, ContainerStarts, ContainerExits, Crash, DaemonCreates,
      DaemonRefuses, EngineRestarts, Repoint, PointAtJournal, diskVars, vars

\* The directory and the daemon together implement the ledger: the attempt on
\* record is the only one exposed, and it is only replaced when nobody is.
THEOREM LedgerImplemented ==
  ASSUME ~LateAfterExit PROVE Spec => LedgerSpec
<1> DEFINE intent  == IF disk = NoJournal THEN NoToken ELSE disk.tok
           exposed == {r.tok : r \in {s \in live \cup pending : s.eng = born[s.tok]}}
<1>1. Init => Ledger!Init
  BY DEF Init, Ledger!Init
<1>2. Inv => /\ exposed \subseteq {intent} \ {NoToken}
             /\ intent \in Token \cup {NoToken}
  <2> SUFFICES ASSUME Inv PROVE /\ exposed \subseteq {intent} \ {NoToken}
                                /\ intent \in Token \cup {NoToken}
    OBVIOUS
  <2>1. disk # NoJournal => disk.tok \in Token
    BY DEF Inv, TypeOK, Journal
  <2>2. \A s \in live \cup pending : s.eng = born[s.tok] =>
          disk # NoJournal /\ s.tok = disk.tok
    BY DEF Inv, Global, NoOrphan, Covers
  <2> QED
    BY <2>1, <2>2, ConstantsAssumption
<1>3. ASSUME Inv, Inv', [Next]_vars PROVE [Ledger!Next]_(Ledger!ledger)
  <2>1. exposed' \subseteq {intent'} \ {NoToken} /\ intent' \in Token \cup {NoToken}
    <3>1. disk' # NoJournal => disk'.tok \in Token
      BY <1>3 DEF Inv, TypeOK, Journal
    <3>2. \A s \in live' \cup pending' : s.eng = born'[s.tok] =>
            disk' # NoJournal /\ s.tok = disk'.tok
      BY <1>3 DEF Inv, Global, NoOrphan, Covers
    <3> QED
      BY <3>1, <3>2, ConstantsAssumption
  <2>2. CASE intent' = intent
    BY <2>1, <2>2 DEF Ledger!Next, Ledger!Expose
  <2>3. CASE intent' # intent
    <3>1. disk' # disk
      BY <2>3
    <3>2. exposed = {} /\ exposed' = {}
      <4>1. CASE UNCHANGED <<live, pending, born>>
        BY <1>2, <1>3, <2>1, <2>3, <4>1
      <4>2. CASE PowerLoss
        <5>1. exposed' \subseteq exposed
          BY <4>2 DEF PowerLoss
        <5>2. disk' = durable
          BY <3>1, <4>2 DEF PowerLoss
        <5>3. \A s \in live \cup pending : s.eng = born[s.tok] =>
                durable # NoJournal /\ s.tok = durable.tok
          BY <1>3 DEF Inv, Global, NoOrphan, Covers
        <5>4. exposed = {}
          BY <1>2, <1>3, <2>3, <5>2, <5>3
        <5> QED
          BY <5>1, <5>4
      <4> QED
        BY <1>3, <3>1, <4>1, <4>2, JournalOrDocker
    <3> QED
      BY <2>1, <3>2 DEF Ledger!Next, Ledger!Record
  <2> QED
    BY <2>2, <2>3
<1> QED
  BY <1>1, <1>3, Invariance, PTL DEF Spec, LedgerSpec, Ledger!Spec

-----------------------------------------------------------------------------
(* Who is at work. *)

\* Who takes a step is the only one at work, before and after it.
LEMMA Alone ==
  ASSUME Inv, Inv', NEW p \in Proc, Step(p)
  PROVE  pc[p] # "idle" /\ \A q \in Proc : pc'[q] # "idle" => q = p
<1>1. pc[p] # "idle" /\ lock = p
  <2>1. pc[p] # "idle"
    BY DEF Step, LoadJournal, ReconcileFails, ReAbsent, ReKnown, ReDiscovered, ReTaken, ReUnremoved,
       ReRemove, ReVerify, ReInDoubt, ReFinish, ReForget, ReMoved, Prepare, Intend,
       CreateVolume, VolumeReply, CreateHelper, HelperReply, ReplyInDoubt, HostPolicy,
       Launch, RunEnds, RunTerminated, ClientFails, RunRaises, Identify, InspectAbsent,
       InspectFails, InspectOwned, Stop, Restat, Remove, Clean, CleanHelper, DropHelper,
       CleanVolume, DropVolume, KeepJournal, Settle, Forget, ForgetFails, Publish, Fsync, Release
  <2> QED
    BY <2>1 DEF Inv, MutualExclusion
<1>2. CASE Release(p)
  BY <1>1, <1>2, ConstantsAssumption DEF Release, Vanish, Inv, MutualExclusion
<1>3. CASE lock' = lock
  BY <1>1, <1>3 DEF Inv, MutualExclusion
<1>4. ~Release(p) => lock' = lock
  BY DEF Step, LoadJournal, ReconcileFails, ReAbsent, ReKnown, ReDiscovered, ReTaken, ReUnremoved,
     ReRemove, ReVerify, ReInDoubt, ReFinish, ReForget, ReMoved, Prepare, Intend,
     CreateVolume, VolumeReply, Recorded, CreateHelper, HelperReply, ReplyInDoubt, HostPolicy,
     Launch, RunEnds, RunTerminated, ClientFails, RunRaises, Identify, InspectAbsent,
     InspectFails, InspectOwned, Stop, Restat, Remove, Clean, CleanHelper, DropHelper,
     CleanVolume, DropVolume, KeepJournal, Settle, Forget, ForgetFails, Publish, Fsync, diskVars
<1> QED
  BY <1>1, <1>2, <1>3, <1>4

-----------------------------------------------------------------------------
(* An attempt and the engines it reached. *)

\* A request is for the engine the command reaches; it is the attempt's own as long as
\* the command was not repointed.
LEMMA RequestBound ==
  ASSUME Inv, BoundInv, NEW p \in Proc, CreateVolume(p) \/ CreateHelper(p) \/ Launch(p)
  PROVE  Bound(p)'
<1>1. /\ At(p) \in Attempting /\ Bound(p)
      /\ At(p)' = pc'[p] /\ pc'[p] \in {"volumeReply", "helperReply", "running", "identify"}
      /\ UNCHANGED <<engine, live, home, tok>>
  BY DEF CreateVolume, CreateHelper, Launch, BoundInv, At, Attempting, Working, Goto, Inv, TypeOK,
     localVars
<1>2. \/ pending' = pending
      \/ \E role \in Role : pending' = pending \cup {Name(p, role)}
  BY DEF CreateVolume, CreateHelper, Launch, Request, Role
<1> QED
  BY <1>1, <1>2 DEF Bound, Name

\* An attempt starts with nothing under its token.
LEMMA PrepareBound ==
  ASSUME Inv, NEW p \in Proc, Prepare(p) PROVE Bound(p)'
<1>1. CASE pc'[p] = "finish"
  BY <1>1 DEF Bound, At, Attempting, Working
<1>2. CASE pc'[p] # "finish"
  <2>1. PICK t \in Token : born[t] = NoEngine /\ tok' = [tok EXCEPT ![p] = t]
    BY <1>2 DEF Prepare, Goto, Inv, TypeOK
  <2>2. UNCHANGED <<live, pending>> /\ tok'[p] = t /\ pc'[p] = "intend"
    BY <1>2, <2>1 DEF Prepare, Goto, Inv, TypeOK
  <2>3. \A r \in live \cup pending : r.tok # t
    BY <2>1 DEF Inv, Global, JournalsKnown
  <2> QED
    BY <2>2, <2>3 DEF Bound, At
<1> QED
  BY <1>1, <1>2

\* The first write of the journal, or its failure, comes before any request.
LEMMA IntendBound ==
  ASSUME Inv, BoundInv, NEW p \in Proc, Intend(p) PROVE Bound(p)'
<1>1. /\ pc[p] = "intend" /\ At(p) = "intend"
      /\ UNCHANGED <<engine, live, pending, home, tok>>
  BY DEF Intend, At, dockerVars, localVars
<1>2. \A r \in live \cup pending : r.tok # tok[p]
  BY <1>1 DEF Inv, Local, AttemptStarts, NotAsked, TypeOK, Resource
<1> QED
  BY <1>1, <1>2 DEF Bound

\* The journal goes only when nothing is left on the engine it names, which is the one
\* the command still reaches.
LEMMA ForgetBound ==
  ASSUME Inv, BoundInv, NEW p \in Proc, Forget(p) PROVE Bound(p)'
<1>1. /\ pc[p] = "forget" /\ At(p) = "forget" /\ engine = home[p]
      /\ UNCHANGED <<live, pending, home, tok>>
  BY DEF Forget, At, dockerVars, localVars
<1>2. \A role \in Role : AtHome(p, role) \notin live \cup pending
  BY <1>1 DEF Inv, Local, CleanupKnows, Gone
<1>3. ASSUME NEW r \in live \cup pending, r.tok = tok[p] PROVE FALSE
  <2>1. r.eng = home[p]
    BY <1>1, <1>3 DEF BoundInv, Bound, Attempting, Working
  <2>2. r \in Resource /\ r.role \in Role
    BY DEF Inv, TypeOK, Resource
  <2>3. r = [eng |-> r.eng, tok |-> r.tok, role |-> r.role]
    BY <2>2 DEF Resource
  <2>4. r = AtHome(p, r.role)
    BY <1>3, <2>1, <2>3 DEF AtHome
  <2> QED
    BY <1>2, <2>2, <2>4
<1> QED
  BY <1>1, <1>3 DEF Bound

\* A journal that was never written belongs to an attempt that asked for nothing.
LEMMA SettleBound ==
  ASSUME Inv, BoundInv, NEW p \in Proc, Settle(p) PROVE Bound(p)'
<1>1. /\ pc[p] = "settle" /\ At(p) = "settle" /\ Bound(p)
      /\ UNCHANGED <<engine, live, pending, home, tok>>
  BY DEF Settle, At, dockerVars, localVars, BoundInv
<1>2. CASE disk = NoJournal
  BY <1>1, <1>2 DEF Bound
<1>3. CASE disk # NoJournal
  <2>1. Write(p, Entry(p, Role), "forget")
    BY <1>3 DEF Settle
  <2>2. At(p)' \in {"forget", "finish"} /\ pc'[p] \in {"sync", "finish"}
    BY <2>1 DEF Write, FailedWrite, AfterFailedWrite, Goto, At, Inv, TypeOK
  <2> QED
    BY <1>1, <2>2 DEF Bound, Attempting, Working
<1> QED
  BY <1>2, <1>3

\* After an fsync the process is where it was, or gives the attempt up.
LEMMA FsyncBound ==
  ASSUME Inv, BoundInv, NEW p \in Proc, Fsync(p) PROVE Bound(p)'
<1>1. /\ pc[p] = "sync" /\ At(p) = cont[p] /\ Bound(p)
      /\ UNCHANGED <<engine, live, pending, home, tok, disk>>
  BY DEF Fsync, At, dockerVars, localVars, BoundInv
<1>2. cont[p] \in {"reRemove", "reForget", "prepare", "finish", "createVolume",
                   "createHelper", "hostPolicy", "stop", "forget", "publish"}
  BY <1>1 DEF Inv, Local, Bearings, SyncKnows
<1>3. CASE pc'[p] = cont[p]
  BY <1>1, <1>2, <1>3 DEF Bound, At
<1>4. CASE pc'[p] = AfterFailedWrite(cont[p])
  <2>1. CASE cont[p] = "createVolume"
    <3>1. \A r \in live \cup pending : r.tok # tok[p]
      BY <1>1, <2>1 DEF Inv, Local, AttemptStarts, NotAsked, TypeOK, Resource
    <3> QED
      BY <1>1, <3>1 DEF Bound
  <2>2. CASE cont[p] # "createVolume"
    <3>1. /\ pc'[p] \in {"clean", "stop", "finish"} /\ At(p)' = pc'[p]
          /\ pc'[p] # "finish" => cont[p] \in Attempting
      BY <1>2, <1>4, <2>2 DEF AfterFailedWrite, At, Attempting, Working
    <3> QED
      BY <1>1, <3>1 DEF Bound, Attempting, Working
  <2> QED
    BY <2>1, <2>2
<1> QED
  BY <1>3, <1>4 DEF Fsync, FailedWrite, Goto, Inv, TypeOK

\* The reconciliation has no attempt of its own yet.
LEMMA ReconcileBound ==
  ASSUME Inv, NEW p \in Proc,
         \/ LoadJournal(p) \/ ReconcileFails(p) \/ ReAbsent(p) \/ ReKnown(p) \/ ReTaken(p)
         \/ ReRemove(p) \/ ReVerify(p) \/ ReUnremoved(p) \/ ReInDoubt(p) \/ ReMoved(p)
         \/ ReDiscovered(p) \/ ReFinish(p) \/ ReForget(p) \/ KeepJournal(p) \/ ForgetFails(p)
         \/ Publish(p)
  PROVE  Bound(p)'
<1>1. At(p)' \in {"prepare", "finish"} \cup Reconciling /\ pc'[p] # "settle"
  <2>1. CASE \/ LoadJournal(p) \/ ReconcileFails(p) \/ ReAbsent(p) \/ ReKnown(p) \/ ReTaken(p)
             \/ ReRemove(p) \/ ReVerify(p) \/ ReUnremoved(p) \/ ReInDoubt(p) \/ ReMoved(p)
             \/ KeepJournal(p) \/ ForgetFails(p) \/ Publish(p)
    BY <2>1
    DEF LoadJournal, ReconcileFails, ReAbsent, ReKnown, ReTaken, ReRemove, ReVerify, ReUnremoved,
        ReInDoubt, ReMoved, KeepJournal, ForgetFails, Publish, Refuse, Goto, NextRole,
        AfterReconcile, At, Reconciling, Inv, TypeOK
  <2>2. CASE ReDiscovered(p) \/ ReFinish(p) \/ ReForget(p)
    <3>1. PICK next \in {"reRemove", "reForget", "prepare", "finish"} : \E j : Write(p, j, next)
      BY <2>2 DEF ReDiscovered, ReFinish, ReForget, AfterReconcile
    <3> QED
      BY <3>1 DEF Write, FailedWrite, AfterFailedWrite, Goto, At, Reconciling, Inv, TypeOK
  <2> QED
    BY <2>1, <2>2
<1> QED
  BY <1>1 DEF Bound, Attempting, Working, Reconciling

\* In between the attempt only ever loses resources, and comes to its end with the journal.
LEMMA WorkingBound ==
  ASSUME Inv, BoundInv, NEW p \in Proc,
         \/ VolumeReply(p) \/ HelperReply(p) \/ InspectOwned(p) \/ ReplyInDoubt(p)
         \/ HostPolicy(p) \/ RunEnds(p) \/ RunTerminated(p) \/ ClientFails(p)
         \/ RunRaises(p) \/ Identify(p) \/ InspectAbsent(p) \/ InspectFails(p) \/ Stop(p)
         \/ Restat(p) \/ Remove(p) \/ Clean(p) \/ CleanHelper(p) \/ DropHelper(p)
         \/ CleanVolume(p) \/ DropVolume(p)
  PROVE  Bound(p)'
<1>1. /\ At(p) \in Working \ {"settle"} /\ Bound(p)
      /\ live' \subseteq live /\ pending' = pending /\ UNCHANGED <<engine, home, tok>>
  BY DEF BoundInv, At, Working, VolumeReply, HelperReply, Recorded, InspectOwned, ReplyInDoubt,
     HostPolicy, RunEnds, RunTerminated, ClientFails, RunRaises, Identify, InspectAbsent,
     InspectFails, Stop, Restat, Remove, Clean, CleanHelper, DropHelper, CleanVolume, DropVolume,
     CleanRole, DropRole, RemoveByName, dockerVars, localVars
<1>2. At(p)' \in Working
  <2>1. CASE VolumeReply(p) \/ HelperReply(p) \/ InspectOwned(p)
    <3>1. PICK next \in {"createHelper", "hostPolicy", "stop"} : \E j : Write(p, j, next)
      BY <2>1 DEF VolumeReply, HelperReply, Recorded, InspectOwned
    <3> QED
      BY <3>1 DEF Write, FailedWrite, AfterFailedWrite, Goto, At, Working, Inv, TypeOK
  <2>2. CASE ~(VolumeReply(p) \/ HelperReply(p) \/ InspectOwned(p))
    BY <2>2
    DEF At, Working, ReplyInDoubt, HostPolicy, RunEnds, RunTerminated, ClientFails, RunRaises,
        Verdict, Identify, InspectAbsent, InspectFails, Stop, Restat, Remove, Clean, CleanHelper,
        DropHelper, CleanVolume, DropVolume, CleanRole, Goto, Inv, TypeOK
  <2> QED
    BY <2>1, <2>2
<1>3. pc'[p] = "settle" => disk' = disk /\ disk # NoJournal
  <2>1. CASE VolumeReply(p) \/ HelperReply(p) \/ InspectOwned(p)
    <3>1. PICK next \in {"createHelper", "hostPolicy", "stop"} : \E j : Write(p, j, next)
      BY <2>1 DEF VolumeReply, HelperReply, Recorded, InspectOwned
    <3> QED
      BY <3>1 DEF Write, FailedWrite, AfterFailedWrite, Goto, Inv, TypeOK
  <2>2. CASE ~(VolumeReply(p) \/ HelperReply(p) \/ InspectOwned(p))
    <3>1. disk' = disk
      BY <2>2
      DEF diskVars, ReplyInDoubt, HostPolicy, RunEnds, RunTerminated, ClientFails, RunRaises,
          Identify, InspectAbsent, InspectFails, Stop, Restat, Remove, Clean, CleanHelper,
          DropHelper, CleanVolume, DropVolume
    <3>2. disk # NoJournal
      BY <1>1 DEF Inv, Local, JournalHeld, OnRecord, Working, BoundInv, At
    <3> QED
      BY <3>1, <3>2
  <2> QED
    BY <2>1, <2>2
<1> QED
  BY <1>1, <1>2, <1>3 DEF Bound, Attempting, Working

\* Around the processes nothing new is asked for, and the command never gets back to an
\* engine that a run at work has recorded.
LEMMA SurroundingsBound ==
  ASSUME Inv, BoundInv, [Next]_vars, \A p \in Proc : ~Step(p) PROVE BoundInv'
<1>1. CASE PowerLoss
  BY <1>1 DEF PowerLoss, Vanish, BoundInv
<1>2. CASE \E p \in Proc : Crash(p)
  <2>1. \A q \in Proc : pc'[q] = "idle"
    BY <1>2, ConstantsAssumption DEF Crash, Vanish, Inv, MutualExclusion
  <2> QED
    BY <2>1 DEF BoundInv
<1>3. CASE \E p \in Proc, m \in Mode : Start(p, m)
  <2>1. PICK p \in Proc, m \in Mode : Start(p, m)
    BY <1>3
  <2>2. pc'[p] = "load" /\ \A q \in Proc \ {p} : pc'[q] = "idle"
    BY <2>1, ConstantsAssumption DEF Start, Goto, Inv, TypeOK, MutualExclusion
  <2> QED
    BY <2>2 DEF BoundInv, Bound, At, Attempting, Working
<1>4. CASE PointAtJournal
  <2>1. \A p \in Proc : pc[p] = "idle" /\ pc'[p] = "idle"
    BY <1>4, ConstantsAssumption DEF PointAtJournal, Inv, MutualExclusion
  <2> QED
    BY <2>1 DEF BoundInv
<1>5. CASE \/ UNCHANGED vars
           \/ \E p \in Proc : ContainerStarts(p) \/ ContainerExits(p)
           \/ \E r \in pending : DaemonCreates(r) \/ DaemonRefuses(r)
           \/ \E e \in Engine : EngineRestarts(e) \/ Repoint(e)
  <2>1. /\ UNCHANGED <<pc, cont, home, tok, disk>>
        /\ live' \cup pending' \subseteq live \cup pending
        /\ engine' = engine \/ \A p \in Proc : home[p] # engine'
    BY <1>5
    DEF vars, ContainerStarts, ContainerExits, DaemonCreates, DaemonRefuses, EngineRestarts,
        Repoint, dockerVars, diskVars, localVars
  <2>2. ASSUME NEW p \in Proc, pc'[p] # "idle" PROVE Bound(p)'
    BY <2>1, <2>2 DEF BoundInv, Bound, At
  <2> QED
    BY <2>2 DEF BoundInv
<1> QED
  BY <1>1, <1>2, <1>3, <1>4, <1>5 DEF Next

LEMMA Binding ==
  ASSUME ~LateAfterExit PROVE Spec => []BoundInv
<1>1. Init => BoundInv
  BY DEF Init, BoundInv
<1>2. ASSUME Inv, Inv', BoundInv, [Next]_vars PROVE BoundInv'
  <2>1. ASSUME NEW p \in Proc, Step(p) PROVE BoundInv'
    <3>1. CASE Release(p)
      <4>1. pc'[p] = "idle"
        BY <3>1 DEF Release, Vanish
      <4> QED
        BY <1>2, <2>1, <4>1, Alone DEF BoundInv
    <3>2. CASE ~Release(p)
      <4>1. Bound(p)'
        BY <1>2, <2>1, <3>2, RequestBound, PrepareBound, IntendBound, ForgetBound, SettleBound,
           FsyncBound, ReconcileBound, WorkingBound
        DEF Step
      <4> QED
        BY <1>2, <2>1, <4>1, Alone DEF BoundInv
    <3> QED
      BY <3>1, <3>2
  <2> QED
    BY <1>2, <2>1, SurroundingsBound
<1> QED
  BY <1>1, <1>2, Invariance, PTL DEF Spec

\* CleanVerdict: whoever returns without cleanup_pending leaves nothing on the engine an
\* attempt recorded, by NoOrphan and because such a verdict is only given without a
\* journal; and an attempt past its journal has left nothing on any engine, because the
\* command still reached the recorded one when the journal went and so had all along.
THEOREM VerdictsClean ==
  ASSUME ~LateAfterExit PROVE Spec => []CleanVerdict
<1>1. Inv /\ BoundInv => CleanVerdict
  <2> SUFFICES ASSUME Inv, BoundInv PROVE CleanVerdict
    OBVIOUS
  <2>1. ASSUME NEW p \in Proc, pc[p] = "finish", Clear(p),
               NEW r \in live \cup pending, r.eng = born[r.tok]
        PROVE  FALSE
    <3>1. disk = NoJournal
      BY <2>1 DEF Inv, Local, JournalHeld, At
    <3> QED
      BY <2>1, <3>1 DEF Inv, Global, NoOrphan, Covers
  <2>2. ASSUME NEW p \in Proc, pc[p] = "publish", NEW r \in live \cup pending
        PROVE  r.tok # tok[p]
    BY <2>2 DEF BoundInv, Bound, At
  <2> QED
    BY <2>1, <2>2 DEF CleanVerdict, AttemptLeavesNothing, Clear
<1> QED
  BY <1>1, Invariance, Binding, PTL

-----------------------------------------------------------------------------
(* What is published. *)

\* Whoever gives up has no success.
LEMMA InfraNoSuccess ==
  ASSUME NEW res, NEW flags PROVE Infra(res, flags).kind # "valid"
  BY DEF Infra

\* Where a run has nothing to publish yet, or is over.
Unready == {"load", "prepare", "finish"} \cup Reconciling

\* The reconciliation leaves what is published alone and has nothing to publish.
LEMMA ReconcilingPublishes ==
  ASSUME Inv, PublicationInv, NEW p \in Proc,
         LoadJournal(p) \/ ReconcileFails(p) \/ ReAbsent(p) \/ ReKnown(p) \/ ReTaken(p)
           \/ ReRemove(p) \/ ReVerify(p) \/ ReUnremoved(p) \/ ReInDoubt(p) \/ ReMoved(p)
  PROVE  PendingMeansUnpublished' /\ Publishing(p)'
<1>1. /\ pc[p] \in {"load"} \cup Reconciling /\ At(p) = pc[p]
      /\ UNCHANGED <<disk, durable, submission>>
  BY DEF LoadJournal, ReconcileFails, ReAbsent, ReKnown, ReTaken, ReUnremoved, ReRemove, ReVerify,
     ReInDoubt, ReMoved, Reconciling, At, diskVars
<1>2. result[p].kind # "valid"
  BY <1>1 DEF PublicationInv, Publishing, Witnessed, Cleaning, Reconciling
<1>3. pc'[p] \in Unready
  BY DEF LoadJournal, ReconcileFails, ReAbsent, ReKnown, ReTaken, ReUnremoved, ReRemove, ReVerify,
     ReInDoubt, ReMoved, Refuse, Goto, NextRole, AfterReconcile, Reconciling, Unready, Inv, TypeOK
<1>4. result' = result \/ result'[p] = Infra(result[p], Pending)
  BY DEF LoadJournal, ReconcileFails, ReAbsent, ReKnown, ReTaken, ReUnremoved, ReRemove, ReVerify,
     ReInDoubt, ReMoved, Refuse, Inv, TypeOK
<1>5. result'[p].kind # "valid"
  BY <1>2, <1>4, InfraNoSuccess
<1> QED
  BY <1>1, <1>3, <1>5
  DEF PublicationInv, PendingMeansUnpublished, Publishing, Witnessed, Cleaning, Unpublished, At, Unready,
      Reconciling, Attempting, Working

\* Neither do its writes: they replace a journal, or remove one.
LEMMA ReconcileWritesPublish ==
  ASSUME Inv, PublicationInv, NEW p \in Proc, ReDiscovered(p) \/ ReFinish(p) \/ ReForget(p)
  PROVE  PendingMeansUnpublished' /\ Publishing(p)'
<1>1. /\ pc[p] \in {"reInspect", "reFinish", "reForget"} /\ At(p) = pc[p]
      /\ UNCHANGED <<durable, submission>>
      /\ \E next \in {"reRemove", "reForget", "prepare", "finish"} : \E j : Write(p, j, next)
  BY DEF ReDiscovered, ReFinish, ReForget, AfterReconcile, At
<1>2. disk # NoJournal /\ result[p].kind # "valid" /\ submission = NoToken
  BY <1>1, ConstantsAssumption
  DEF PublicationInv, PendingMeansUnpublished, Publishing, Witnessed, Cleaning, Reconciling, Inv, Local,
      JournalHeld, OnRecord
<1>3. PICK next \in {"reRemove", "reForget", "prepare", "finish"} : \E j : Write(p, j, next)
  BY <1>1
<1>4. At(p)' \in Unready /\ pc'[p] \in {"sync", "finish"} /\ result'[p].kind # "valid"
  BY <1>2, <1>3, WriteOutcome, InfraNoSuccess
  DEF Inv, Label, AfterFailedWrite, Unready, Reconciling
<1> QED
  BY <1>1, <1>2, <1>4
  DEF PublicationInv, PendingMeansUnpublished, Publishing, Witnessed, Cleaning, Unpublished, Unready,
      Reconciling, Attempting, Working

\* Preparing an attempt withdraws the submission of the last one.
LEMMA PreparePublishes ==
  ASSUME Inv, PublicationInv, NEW p \in Proc, Prepare(p)
  PROVE  PendingMeansUnpublished' /\ Publishing(p)'
<1>1. pc[p] = "prepare" /\ At(p) = "prepare" /\ UNCHANGED <<disk, durable>>
  BY DEF Prepare, At
<1>2. result[p].kind # "valid"
  BY <1>1 DEF PublicationInv, Publishing, Witnessed, Cleaning
<1>3. \/ pc'[p] = "intend" /\ submission' = NoToken /\ result' = result
      \/ /\ pc'[p] = "finish" /\ submission' \in {submission, NoToken}
         /\ result'[p] = Infra(result[p], {})
  BY DEF Prepare, Goto, Inv, TypeOK
<1>4. result'[p].kind # "valid"
  BY <1>2, <1>3, InfraNoSuccess
<1> QED
  BY <1>1, <1>3, <1>4
  DEF PublicationInv, PendingMeansUnpublished, Publishing, Witnessed, Cleaning, Unpublished, At,
      Attempting, Working

\* The journal is written beside no submission; when it cannot be, there is no success.
LEMMA WritingPublishes ==
  ASSUME Inv, PublicationInv, NEW p \in Proc,
         Intend(p) \/ VolumeReply(p) \/ HelperReply(p) \/ InspectOwned(p)
  PROVE  PendingMeansUnpublished' /\ Publishing(p)'
<1>1. /\ pc[p] \in {"intend", "volumeReply", "helperReply", "inspect"} /\ At(p) = pc[p]
      /\ UNCHANGED <<durable, submission>>
  BY DEF Intend, VolumeReply, HelperReply, Recorded, InspectOwned, At
<1>2. submission = NoToken
  BY <1>1 DEF PublicationInv, Publishing, Unpublished, Attempting, Working
<1>3. CASE ~InspectOwned(p)
  <2>1. PICK next \in {"createVolume", "createHelper", "hostPolicy"} : \E j : Write(p, j, next)
    BY <1>3 DEF Intend, VolumeReply, HelperReply, Recorded
  <2>2. result[p].kind # "valid"
    BY <1>1, <1>3 DEF PublicationInv, Publishing, Witnessed, Cleaning, Intend, VolumeReply, HelperReply
  <2>3. result'[p].kind # "valid" /\ pc'[p] # "publish"
    BY <2>1, <2>2, WriteOutcome, InfraNoSuccess DEF Inv, Label, AfterFailedWrite
  <2> QED
    BY <1>1, <1>2, <2>3
    DEF PendingMeansUnpublished, Publishing, Witnessed, Cleaning, Unpublished
<1>4. CASE InspectOwned(p)
  <2>1. PICK j : Write(p, j, "stop")
    BY <1>4 DEF InspectOwned
  <2>2. At(p)' = "stop" /\ (result' = result \/ result'[p].kind # "valid")
        /\ pc'[p] \in {"sync", "stop"}
    BY <2>1, WriteOutcome, InfraNoSuccess DEF Inv, Label, AfterFailedWrite
  <2>3. /\ seen'[p] = [first |-> box[p].status, now |-> box[p]]
        /\ AtHome(p, "participant") \in live \/ engine # home[p]
        /\ UNCHANGED <<live, engine, home, tok>>
    BY <1>4 DEF InspectOwned, Owned, Name, AtHome, dockerVars, Inv, TypeOK
  <2> QED
    BY <1>1, <1>2, <2>2, <2>3
    DEF PublicationInv, PendingMeansUnpublished, Publishing, Witnessed, Cleaning, Unpublished, AtHome
<1> QED
  BY <1>3, <1>4

\* Until the client's verdict there is no success.
LEMMA AttemptPublishes ==
  ASSUME Inv, PublicationInv, NEW p \in Proc,
         CreateVolume(p) \/ CreateHelper(p) \/ ReplyInDoubt(p) \/ HostPolicy(p) \/ Launch(p)
           \/ RunTerminated(p) \/ ClientFails(p) \/ RunRaises(p)
  PROVE  PendingMeansUnpublished' /\ Publishing(p)'
<1>1. /\ pc[p] \in {"createVolume", "volumeReply", "createHelper", "helperReply", "hostPolicy",
                    "launch", "running"}
      /\ At(p) = pc[p] /\ UNCHANGED <<disk, durable, submission>>
  BY DEF CreateVolume, CreateHelper, ReplyInDoubt, HostPolicy, Launch, RunTerminated, ClientFails,
     RunRaises, At, diskVars
<1>2. submission = NoToken /\ result[p].kind # "valid"
  BY <1>1 DEF PublicationInv, Publishing, Unpublished, Witnessed, Cleaning, Attempting, Working
<1>3. \/ result' = result
      \/ \E flags : result'[p] = Infra(result[p], flags)
      \/ result'[p].kind \in {"execution", "infrastructure", "raised"}
  BY DEF CreateVolume, CreateHelper, ReplyInDoubt, HostPolicy, Launch, RunTerminated, ClientFails,
     RunRaises, Verdict, Raised, Inv, TypeOK
<1>4. result'[p].kind # "valid"
  BY <1>2, <1>3, InfraNoSuccess
<1> QED
  BY <1>1, <1>2, <1>4 DEF PendingMeansUnpublished, Publishing, Witnessed, Cleaning, Unpublished

\* The client's success says nothing of the container's state yet.
LEMMA RunEndsPublishes ==
  ASSUME Inv, PublicationInv, NEW p \in Proc, RunEnds(p)
  PROVE  PendingMeansUnpublished' /\ Publishing(p)'
<1>1. /\ pc[p] = "running" /\ pc'[p] = "identify"
      /\ UNCHANGED <<disk, durable, submission, box, pending, tok>>
  BY DEF RunEnds, Verdict, Goto, diskVars, dockerVars, localVars, Inv, TypeOK
<1>2. submission = NoToken
  BY <1>1 DEF PublicationInv, Publishing, Unpublished, At, Attempting, Working
<1>3. result'[p].kind = "valid" => result'[p].rc = 0 /\ result'[p].flags = {}
  BY DEF RunEnds, Verdict, Inv, TypeOK
<1> QED
  BY <1>1, <1>2, <1>3
  DEF PendingMeansUnpublished, Publishing, Witnessed, Cleaning, Unpublished, At

\* From then on a success stays one only as long as the container's state bears it out.
LEMMA ReadingPublishes ==
  ASSUME Inv, PublicationInv, NEW p \in Proc,
         Identify(p) \/ InspectAbsent(p) \/ InspectFails(p) \/ Stop(p) \/ Restat(p)
  PROVE  PendingMeansUnpublished' /\ Publishing(p)'
<1>1. /\ pc[p] \in {"identify", "inspect", "stop", "restat"} /\ At(p) = pc[p]
      /\ pc'[p] \in {"inspect", "clean", "restat", "remove"} /\ At(p)' = pc'[p]
      /\ UNCHANGED <<disk, durable, submission, pending, tok>>
  BY DEF Identify, InspectAbsent, InspectFails, Stop, Restat, Goto, At, diskVars, dockerVars,
     localVars, Inv, TypeOK
<1>2. submission = NoToken
  BY <1>1 DEF PublicationInv, Publishing, Unpublished, Attempting, Working
<1>3. Unpublished(p)' /\ PendingMeansUnpublished'
  BY <1>1, <1>2 DEF Unpublished, PendingMeansUnpublished
<1>4. result' = result \/ result'[p].kind # "valid"
  <2>1. result' = result \/ \E flags : result'[p] = Infra(result[p], flags)
    BY DEF Identify, InspectAbsent, InspectFails, Stop, Restat, Inv, TypeOK
  <2> QED
    BY <2>1, InfraNoSuccess
<1>5. CASE result' = result /\ result[p].kind = "valid"
  <2>1. /\ result[p].rc = 0 /\ result[p].flags = {}
        /\ UNCHANGED <<live, engine, home>>
        /\ pc[p] = "restat" => seen[p].first = "running"
        /\ pc[p] \in {"stop", "restat"} =>
             /\ seen[p].first = "exited" => seen[p].now.status = "exited"
             /\ AtHome(p, "participant") \in live \/ engine # home[p]
    BY <1>1, <1>5
    DEF PublicationInv, Publishing, Witnessed, Cleaning, Identify, InspectAbsent, InspectFails, Stop, Restat,
        dockerVars, localVars
  <2>2. CASE Identify(p)
    <3>1. pc'[p] = "inspect"
      BY <1>5, <2>2, InfraNoSuccess DEF Identify, Goto, Inv, TypeOK
    <3> QED
      BY <1>1, <1>3, <1>5, <2>1, <3>1 DEF Publishing, Witnessed, Cleaning
  <2>3. CASE InspectAbsent(p) \/ InspectFails(p)
    <3>1. \E flags : result'[p] = Infra(result[p], flags)
      BY <2>3 DEF InspectAbsent, InspectFails, Inv, TypeOK
    <3> QED
      BY <1>5, <3>1, InfraNoSuccess
  <2>4. CASE Stop(p)
    <3>1. /\ pc[p] = "stop" /\ pc'[p] \in {"restat", "remove"} /\ seen' = seen
          /\ pc'[p] = "restat" => seen[p].first = "running"
      BY <2>4 DEF Stop, Goto, localVars, Inv, TypeOK
    <3> QED
      BY <1>1, <1>3, <1>5, <2>1, <3>1 DEF Publishing, Witnessed, Cleaning, AtHome
  <2>5. CASE Restat(p)
    <3>1. pc[p] = "restat" /\ pc'[p] \in {"remove", "clean"}
      BY <2>5 DEF Restat, Goto, Inv, TypeOK
    <3>2. CASE pc'[p] = "remove"
      <4>1. seen'[p].first # "exited"
        BY <1>5, <2>1, <2>5, <3>1, <3>2 DEF Restat, Goto, Inv, TypeOK, Seen
      <4> QED
        BY <1>1, <1>3, <1>5, <2>1, <3>2, <4>1 DEF Publishing, Witnessed, Cleaning
    <3>3. CASE pc'[p] = "clean"
      <4>1. engine # home[p]
        BY <2>1, <2>5, <3>1, <3>3 DEF Restat, Goto, Owned, Name, AtHome, Inv, TypeOK
      <4> QED
        BY <1>1, <1>3, <1>5, <2>1, <3>3, <4>1 DEF Publishing, Witnessed, Cleaning
    <3> QED
      BY <3>1, <3>2, <3>3
  <2> QED
    BY <2>2, <2>3, <2>4, <2>5
<1>6. CASE result'[p].kind # "valid"
  BY <1>3, <1>6 DEF Publishing, Witnessed, Cleaning
<1> QED
  BY <1>4, <1>5, <1>6

\* Classification passes a success on only on the full evidence.
LEMMA SuccessIsEvidence ==
  ASSUME NEW res \in Result, NEW s \in Seen, Classify(res, s).kind = "valid",
         res.kind = "valid" => /\ res.rc = 0 /\ res.flags = {}
                               /\ s.first = "exited" => s.now.status = "exited"
  PROVE  /\ Classify(res, s) = res
         /\ s.first = "exited"
         /\ s.now = [status |-> "exited", code |-> 0, health |-> "fine"]
<1>1. Classify(res, s) = res /\ res.kind = "valid"
  BY InfraNoSuccess DEF Classify, Failed
<1>2. s.first = "exited" /\ s.now.health \notin {"error", "oom"} /\ s.now.code = 0
  BY <1>1, InfraNoSuccess DEF Classify, Failed, OperatorTerminated
<1>3. s.now \in Box
  BY DEF Seen
<1> QED
  BY <1>1, <1>2, <1>3 DEF Box

\* The container is removed, and its state classified.
LEMMA RemovePublishes ==
  ASSUME Inv, PublicationInv, NEW p \in Proc, Remove(p)
  PROVE  PendingMeansUnpublished' /\ Publishing(p)'
<1>1. /\ pc[p] = "remove" /\ At(p) = "remove" /\ pc'[p] = "clean"
      /\ UNCHANGED <<disk, durable, submission, seen>>
  BY DEF Remove, Goto, At, diskVars, localVars, Inv, TypeOK
<1>2. submission = NoToken
  BY <1>1 DEF PublicationInv, Publishing, Unpublished, Attempting, Working
<1>3. result[p] \in Result /\ seen[p] \in Seen
  BY DEF Inv, TypeOK
<1>4. result'[p].kind = "valid" => result'[p] = Classify(result[p], seen[p])
  BY InfraNoSuccess DEF Remove, Inv, TypeOK
<1>5. result[p].kind = "valid" =>
        /\ result[p].rc = 0 /\ result[p].flags = {}
        /\ seen[p].first = "exited" => seen[p].now.status = "exited"
  BY <1>1 DEF PublicationInv, Publishing, Witnessed, Cleaning
<1>6. result'[p].kind = "valid" =>
        result'[p].rc = 0 /\ result'[p].flags = {} /\ ExitedAsReported(p)
  BY <1>3, <1>4, <1>5, SuccessIsEvidence DEF ExitedAsReported
<1> QED
  BY <1>1, <1>2, <1>6
  DEF PendingMeansUnpublished, Publishing, Witnessed, Cleaning, ExitedAsReported, Unpublished, At

\* The cleanup only adds doubts.
LEMMA CleaningPublishes ==
  ASSUME Inv, PublicationInv, NEW p \in Proc,
         \/ Clean(p) \/ CleanHelper(p) \/ DropHelper(p) \/ CleanVolume(p) \/ DropVolume(p)
         \/ KeepJournal(p) \/ ForgetFails(p)
  PROVE  PendingMeansUnpublished' /\ Publishing(p)'
<1>1. /\ pc[p] \in Cleaning \cup {"settle", "forget"} /\ At(p) = pc[p]
      /\ pc'[p] \in (Cleaning \ {"clean"}) \cup {"settle", "finish"} /\ At(p)' = pc'[p]
      /\ UNCHANGED <<disk, durable, submission, seen>>
  BY DEF Cleaning, CleanRole, Clean, CleanHelper, DropHelper, CleanVolume, DropVolume, KeepJournal, ForgetFails, Refuse, Goto, At, diskVars,
     localVars, Inv, TypeOK
<1>2. submission = NoToken
  BY <1>1 DEF PublicationInv, Publishing, Unpublished, Attempting, Working, Cleaning
<1>3. result' = result \/ result'[p].kind # "valid"
  <2>1. result' = result \/ \E flags : result'[p] = Infra(result[p], flags)
    BY DEF Clean, CleanHelper, DropHelper, CleanVolume, DropVolume, CleanRole, DropRole,
       KeepJournal, ForgetFails, Refuse, Inv, TypeOK
  <2> QED
    BY <2>1, InfraNoSuccess
<1>4. pc'[p] = "settle" => disk # NoJournal
  <2>1. pc'[p] = "settle" => pc[p] \in Cleaning
    BY DEF Cleaning, Clean, CleanHelper, DropHelper, CleanVolume, DropVolume, CleanRole, KeepJournal,
       ForgetFails, Refuse, Goto, Inv, TypeOK
  <2> QED
    BY <1>1, <2>1 DEF Inv, Local, JournalHeld, OnRecord, Working, Cleaning
<1>5. Witnessed(p)'
  <2>1. CASE Clean(p) /\ result'[p].kind = "valid"
    <3>1. engine = home[p] /\ pc[p] = "clean"
      BY <2>1, InfraNoSuccess DEF Clean, Inv, TypeOK
    <3> QED
      BY <1>1, <1>3, <2>1, <3>1
      DEF PublicationInv, Publishing, Witnessed, ExitedAsReported, Cleaning
  <2>2. CASE ~Clean(p)
    <3>1. pc[p] # "clean"
      BY <2>2 DEF CleanHelper, DropHelper, CleanVolume, DropVolume, KeepJournal, ForgetFails
    <3> QED
      BY <1>1, <1>3, <3>1 DEF PublicationInv, Publishing, Witnessed, ExitedAsReported, Cleaning
  <2> QED
    BY <2>1, <2>2 DEF Witnessed, Cleaning
<1> QED
  BY <1>1, <1>2, <1>4, <1>5 DEF PendingMeansUnpublished, Publishing, Unpublished, Cleaning

\* The journal is brought up to date, and removed, beside no submission.
LEMMA SettlingPublishes ==
  ASSUME Inv, PublicationInv, NEW p \in Proc, Settle(p) \/ Forget(p)
  PROVE  PendingMeansUnpublished' /\ Publishing(p)'
<1>1. /\ pc[p] \in {"settle", "forget"} /\ At(p) = pc[p]
      /\ UNCHANGED <<durable, submission, seen>>
  BY DEF Settle, Forget, At, localVars
<1>2. submission = NoToken
  BY <1>1 DEF PublicationInv, Publishing, Unpublished, Attempting, Working
<1>3. CASE pc[p] = "settle" /\ disk = NoJournal /\ pc'[p] = "publish" /\ UNCHANGED <<disk, result>>
  BY <1>1, <1>2, <1>3
  DEF PublicationInv, PendingMeansUnpublished, Publishing, Witnessed, Cleaning, Unpublished
<1>4. CASE \E next \in {"forget", "publish"} : \E j : Write(p, j, next)
  <2>1. PICK next \in {"forget", "publish"} : \E j : Write(p, j, next)
    BY <1>4
  <2>2. \/ At(p)' \in {"forget", "publish"} /\ pc'[p] = "sync" /\ result' = result
        \/ pc'[p] = "finish" /\ result'[p].kind # "valid"
    BY <2>1, WriteOutcome, InfraNoSuccess DEF Inv, Label, AfterFailedWrite
  <2> QED
    BY <1>1, <1>2, <2>2
    DEF PublicationInv, PendingMeansUnpublished, Publishing, Witnessed, Cleaning, ExitedAsReported,
        Unpublished
<1> QED
  BY <1>3, <1>4 DEF Settle, Forget, Goto, Inv, TypeOK

\* A success is published when no journal is left, on disk or behind it.
LEMMA PublishPublishes ==
  ASSUME Inv, PublicationInv, NEW p \in Proc, Publish(p)
  PROVE  PendingMeansUnpublished' /\ Publishing(p)'
<1>1. /\ pc[p] = "publish" /\ At(p) = "publish" /\ pc'[p] = "finish"
      /\ UNCHANGED <<disk, durable>>
  BY DEF Publish, Goto, At, Inv, TypeOK
<1>2. disk = NoJournal
  BY <1>1 DEF Inv, Local, JournalHeld
<1>3. \/ submission' = submission
      \/ submission' = tok[p] /\ result[p].kind = "valid"
  BY DEF Publish
<1>4. PendingMeansUnpublished'
  BY <1>1, <1>2, <1>3
  DEF PublicationInv, PendingMeansUnpublished, Publishing, Unpublished
<1>5. result' = result \/ result'[p].kind # "valid"
  BY InfraNoSuccess DEF Publish, Inv, TypeOK
<1> QED
  BY <1>1, <1>4, <1>5
  DEF PublicationInv, Publishing, Witnessed, Cleaning, Unpublished, At, Attempting, Working

\* An fsync makes what is on disk durable.
LEMMA FsyncPublishes ==
  ASSUME Inv, PublicationInv, NEW p \in Proc, Fsync(p)
  PROVE  PendingMeansUnpublished' /\ Publishing(p)'
<1>1. /\ pc[p] = "sync" /\ At(p) = cont[p]
      /\ UNCHANGED <<disk, submission, seen, live, engine, tok, home>>
  BY DEF Fsync, At, dockerVars, localVars
<1>2. cont[p] \in {"reRemove", "reForget", "prepare", "finish", "createVolume",
                   "createHelper", "hostPolicy", "stop", "forget", "publish"}
  BY <1>1 DEF Inv, Local, Bearings, SyncKnows
<1>3. CASE durable' = disk /\ pc'[p] = cont[p] /\ result' = result
  <2>1. At(p)' = At(p)
    BY <1>1, <1>2, <1>3 DEF At
  <2>2. pc'[p] = "publish" => disk = NoJournal
    BY <1>1, <1>3 DEF Inv, Local, JournalHeld
  <2> QED
    BY <1>1, <1>2, <1>3, <2>1, <2>2
    DEF PublicationInv, PendingMeansUnpublished, Publishing, Witnessed, Cleaning, ExitedAsReported,
        Unpublished, AtHome
<1>4. CASE durable' = durable /\ FailedWrite(p, cont[p], disk)
  <2>1. result'[p].kind # "valid" /\ pc'[p] = AfterFailedWrite(cont[p])
    BY <1>4, InfraNoSuccess DEF FailedWrite, Goto, Inv, TypeOK
  <2>2. pc'[p] \in {"settle", "clean", "stop"} => submission = NoToken
    BY <1>1, <1>2, <2>1
    DEF AfterFailedWrite, PublicationInv, Publishing, Unpublished, Attempting, Working
  <2>3. pc'[p] \in {"settle", "clean", "stop", "finish"}
    BY <2>1 DEF AfterFailedWrite
  <2> QED
    BY <1>1, <1>4, <2>1, <2>2, <2>3
    DEF PublicationInv, PendingMeansUnpublished, Publishing, Witnessed, Cleaning, Unpublished, At,
        Attempting, Working
<1> QED
  BY <1>3, <1>4 DEF Fsync, Goto, Inv, TypeOK

\* Who leaves, leaves the directory as it is; after a power loss the journal is one
\* of the two that the submission was withdrawn for.
LEMMA LeavingPublishes ==
  ASSUME PublicationInv, TypeOK,
         PowerLoss \/ \E p \in Proc : Release(p) \/ Crash(p)
  PROVE  /\ PendingMeansUnpublished'
         /\ \A q \in Proc : pc'[q] = "idle" \/ pc'[q] = pc[q]
  BY DEF PublicationInv, PendingMeansUnpublished, PowerLoss, Release, Crash, Vanish

\* Nothing around a run removes its container, or points the command back at its engine.
LEMMA SurroundingsPublish ==
  ASSUME Inv, PublicationInv,
         \/ \E p \in Proc : ContainerStarts(p) \/ ContainerExits(p)
         \/ \E r \in pending : DaemonCreates(r) \/ DaemonRefuses(r)
         \/ \E e \in Engine : EngineRestarts(e) \/ Repoint(e)
         \/ PointAtJournal
  PROVE  PublicationInv'
<1>1. /\ UNCHANGED <<disk, durable, submission, pc, cont, tok, home, seen, result>>
      /\ live \subseteq live'
  BY DEF ContainerStarts, ContainerExits, DaemonCreates, DaemonRefuses, EngineRestarts, Repoint,
     PointAtJournal, diskVars, localVars
<1>2. ASSUME NEW p \in Proc, pc[p] # "idle"
      PROVE  engine' = engine \/ engine' # home[p]
  <2>1. CASE PointAtJournal
    BY <1>2, <2>1, ConstantsAssumption DEF PointAtJournal, Inv, MutualExclusion
  <2>2. CASE ~PointAtJournal
    BY <1>2, <2>2
    DEF ContainerStarts, ContainerExits, DaemonCreates, DaemonRefuses, EngineRestarts, Repoint
  <2> QED
    BY <2>1, <2>2
<1>3. ASSUME NEW p \in Proc, pc'[p] # "idle" PROVE Publishing(p)'
  <2>1. Publishing(p) /\ At(p)' = At(p)
    BY <1>1, <1>3 DEF PublicationInv, At
  <2>2. Witnessed(p)'
    <3>1. Witnessed(p) /\ pc[p] # "idle"
      BY <1>1, <1>3, <2>1 DEF Publishing
    <3>2. /\ engine # home[p] => engine' # home'[p]
          /\ AtHome(p, "participant")' = AtHome(p, "participant")
          /\ ExitedAsReported(p)' = ExitedAsReported(p)
      BY <1>1, <1>2, <3>1 DEF AtHome, ExitedAsReported
    <3> QED
      BY <1>1, <2>1, <3>1, <3>2 DEF Witnessed
  <2> QED
    BY <1>1, <2>1, <2>2 DEF Publishing, Unpublished
<1> QED
  BY <1>1, <1>3 DEF PublicationInv, PendingMeansUnpublished

\* A process that enters has no result yet.
LEMMA StartPublishes ==
  ASSUME Inv, PublicationInv, NEW p \in Proc, NEW m \in Mode, Start(p, m)
  PROVE  PublicationInv'
<1>1. /\ pc' = [pc EXCEPT ![p] = "load"] /\ pc[p] = "idle"
      /\ UNCHANGED <<disk, durable, submission, cont, tok, seen, result, box, pending>>
  BY DEF Start, Goto, dockerVars
<1>2. Publishing(p)'
  <2>1. result'[p].kind # "valid" /\ At(p)' = "load"
    BY <1>1 DEF Inv, TypeOK, IdleIsFresh, NoResult, At
  <2> QED
    BY <2>1 DEF Publishing, Witnessed, Cleaning, Unpublished, At, Attempting, Working
<1>3. ASSUME NEW q \in Proc, q # p PROVE pc'[q] = "idle"
  BY <1>1, <1>3, ConstantsAssumption DEF Start, Inv, MutualExclusion, TypeOK
<1> QED
  BY <1>1, <1>2, <1>3 DEF PublicationInv, PendingMeansUnpublished

\* Every step keeps what publication rests on.
LEMMA PublicationStep ==
  ASSUME Inv, Inv', PublicationInv, [Next]_vars PROVE PublicationInv'
<1>1. ASSUME NEW p \in Proc, Step(p) PROVE PublicationInv'
  <2>1. CASE Release(p)
    <3>1. \A q \in Proc : pc'[q] = "idle"
      BY <1>1, <2>1, Alone DEF Release, Vanish
    <3> QED
      BY <2>1, <3>1, LeavingPublishes DEF PublicationInv, Inv
  <2>2. CASE ~Release(p)
    <3>1. PendingMeansUnpublished' /\ Publishing(p)'
      BY <1>1, <2>2, ReconcilingPublishes, ReconcileWritesPublish, PreparePublishes,
         WritingPublishes, AttemptPublishes, RunEndsPublishes, ReadingPublishes, RemovePublishes,
         CleaningPublishes, SettlingPublishes, PublishPublishes, FsyncPublishes
      DEF Step
    <3> QED
      BY <1>1, <3>1, Alone DEF PublicationInv
  <2> QED
    BY <2>1, <2>2
<1>2. CASE PowerLoss
  BY <1>2, LeavingPublishes DEF PublicationInv, PowerLoss, Vanish, Inv
<1>3. CASE \E p \in Proc : Crash(p)
  <2>1. PICK p \in Proc : Crash(p)
    BY <1>3
  <2>2. \A q \in Proc : pc'[q] = "idle"
    BY <2>1, ConstantsAssumption DEF Crash, Vanish, Inv, MutualExclusion
  <2> QED
    BY <1>3, <2>2, LeavingPublishes DEF PublicationInv, Inv
<1>4. CASE UNCHANGED vars
  BY <1>4 DEF vars, dockerVars, diskVars, localVars, PublicationInv, PendingMeansUnpublished,
     Publishing, Witnessed, Cleaning, ExitedAsReported, Unpublished, At, AtHome
<1> QED
  BY <1>1, <1>2, <1>3, <1>4, StartPublishes, SurroundingsPublish DEF Next

\* PublicationInv holds of every behaviour.
LEMMA Publication ==
  ASSUME ~LateAfterExit PROVE Spec => []PublicationInv
<1>1. Init => PublicationInv
  BY DEF Init, PublicationInv, PendingMeansUnpublished
<1>2. PublicationInv /\ Inv /\ Inv' /\ [Next]_vars => PublicationInv'
  BY PublicationStep
<1> QED
  BY <1>1, <1>2, Invariance, PTL DEF Spec

\* PendingMeansUnpublished: no submission stands beside a journal, on disk or one
\* that a power loss may bring back.
THEOREM PendingUnpublished ==
  ASSUME ~LateAfterExit PROVE Spec => []PendingMeansUnpublished
<1>1. PublicationInv => PendingMeansUnpublished
  BY DEF PublicationInv
<1> QED
  BY <1>1, Publication, PTL

\* PublishedOnEvidence: a submission appears only on the recorded state of a container
\* that ended as its client said, and when nothing of the attempt is left.
THEOREM EvidencePublished ==
  ASSUME ~LateAfterExit PROVE Spec => PublishedOnEvidence
<1> DEFINE Evident ==
      submission' \notin {submission, NoToken} =>
        /\ \E p \in Proc :
             /\ tok[p] = submission'
             /\ seen[p].first = "exited"
             /\ seen[p].now = [status |-> "exited", code |-> 0, health |-> "fine"]
        /\ \A r \in live \cup pending : r.eng # born[r.tok] /\ r.tok # submission'
<1>1. ASSUME Inv, PublicationInv, BoundInv, [Next]_vars PROVE [Evident]_vars
  <2> SUFFICES ASSUME submission' \notin {submission, NoToken} PROVE Evident
    OBVIOUS
  <2>1. \E p \in Proc : Publish(p)
    <3>1. ASSUME NEW p \in Proc, Step(p) PROVE Publish(p)
      BY <3>1
      DEF Step, LoadJournal, ReconcileFails, ReAbsent, ReKnown, ReDiscovered, ReTaken, ReUnremoved,
          ReRemove, ReVerify, ReInDoubt, ReFinish, ReForget, ReMoved, Prepare, Intend,
          CreateVolume, VolumeReply, Recorded, CreateHelper, HelperReply, ReplyInDoubt,
          HostPolicy, Launch, RunEnds, RunTerminated, ClientFails, RunRaises, Identify,
          InspectAbsent, InspectFails, InspectOwned, Stop, Restat, Remove, Clean, CleanHelper,
          DropHelper, CleanVolume, DropVolume, KeepJournal, Settle, Forget, ForgetFails, Fsync, Release, diskVars
    <3>2. ASSUME UNCHANGED submission PROVE FALSE
      BY <3>2
    <3>3. \E p \in Proc : Step(p)
      BY <1>1, <3>2
      DEF Next, Start, ContainerStarts, ContainerExits, Crash, DaemonCreates, DaemonRefuses,
          EngineRestarts, Repoint, PointAtJournal, PowerLoss, diskVars, vars
    <3> QED
      BY <3>1, <3>3
  <2>2. PICK p \in Proc : Publish(p)
    BY <2>1
  <2>3. /\ pc[p] = "publish" /\ result[p].kind = "valid" /\ submission' = tok[p]
    BY <2>2 DEF Publish
  <2>4. disk = NoJournal /\ ExitedAsReported(p)
    BY <1>1, <2>3
    DEF Inv, Local, JournalHeld, PublicationInv, Publishing, Witnessed, Cleaning, At
  <2>5. \A r \in live \cup pending : r.eng # born[r.tok] /\ r.tok # submission'
    BY <1>1, <2>3, <2>4 DEF Inv, Global, NoOrphan, Covers, BoundInv, Bound, At
  <2> QED
    BY <2>3, <2>4, <2>5 DEF ExitedAsReported
<1> QED
  BY <1>1, Invariance, Publication, Binding, PTL DEF Spec, PublishedOnEvidence

-----------------------------------------------------------------------------
(* What belongs to somebody else. *)

\* A removal by name that was checked removes nothing of somebody else's.
LEMMA CheckedRemoval ==
  ASSUME ForeignInv, NEW p \in Proc, At(p) \in Removal, engine = home[p],
         RemoveByName(Name(p, Target(p)))
  PROVE  foreign' = foreign
BY DEF ForeignInv, Checked, RemoveByName, Name, AtHome

\* No step creates anything, and only a removal by name whose command was repointed after
\* the check takes something of somebody else's.
LEMMA StepIsTidy ==
  ASSUME Inv, ForeignInv, NEW p \in Proc, Step(p)
  PROVE  /\ live' \subseteq live /\ foreign' \subseteq foreign
         /\ foreign' # foreign => pc[p] \in Removal /\ engine # home[p]
<1>1. CASE ReRemove(p) \/ DropHelper(p) \/ DropVolume(p)
  <2>1. /\ pc[p] \in Removal /\ At(p) = pc[p]
        /\ RemoveByName(Name(p, Target(p))) \/ UNCHANGED <<live, foreign>>
    BY <1>1 DEF ReRemove, DropHelper, DropVolume, DropRole, Removal, Target, At
  <2>2. engine = home[p] => foreign' = foreign
    BY <2>1, CheckedRemoval
  <2> QED
    BY <2>1, <2>2 DEF RemoveByName
<1>2. CASE RunRaises(p) \/ Remove(p)
  BY <1>2 DEF RunRaises, Remove
<1>3. CASE UNCHANGED <<live, foreign>>
  BY <1>3
<1>4. \/ ReRemove(p) \/ DropHelper(p) \/ DropVolume(p) \/ RunRaises(p) \/ Remove(p)
      \/ UNCHANGED <<live, foreign>>
  BY DEF Step, LoadJournal, ReconcileFails, ReAbsent, ReKnown, ReDiscovered, ReTaken,
     ReUnremoved, ReVerify, ReInDoubt, ReFinish, ReForget, ReMoved, Prepare, Intend,
     CreateVolume, VolumeReply, Recorded, CreateHelper, HelperReply, ReplyInDoubt,
     HostPolicy, Launch, RunEnds, RunTerminated, ClientFails, Identify, InspectAbsent,
     InspectFails, InspectOwned, Stop, Restat, Clean, CleanHelper, CleanVolume, KeepJournal,
     Settle, Forget, ForgetFails, Publish, Fsync, Release, dockerVars
<1> QED
  BY <1>1, <1>2, <1>3, <1>4

\* A step that gets to a removal comes from the label check, or was there already.
LEMMA RemovalIsReached ==
  ASSUME Inv, NEW p \in Proc, Step(p), At(p)' \in Removal
  PROVE  /\ UNCHANGED <<engine, home, tok, cursor>>
         /\ At(p) = At(p)' \/ Owned(p, Target(p)')
<1>1. TypeOK /\ (pc[p] = "sync" => SyncKnows(p))
  BY DEF Inv, Local, Bearings
<1>2. CASE ReKnown(p) \/ ReDiscovered(p)
  <2>1. /\ UNCHANGED <<engine, home, tok, cursor>> /\ Owned(p, RoleOrder[cursor[p]])
        /\ At(p)' \in {"reRemove", "finish"}
    BY <1>1, <1>2
    DEF ReKnown, ReDiscovered, dockerVars, localVars, Write, FailedWrite, AfterFailedWrite, Goto,
        At, TypeOK
  <2> QED
    BY <2>1 DEF Removal, Target
<1>3. CASE Fsync(p)
  <2>1. /\ UNCHANGED <<engine, home, tok, cursor>>
        /\ At(p)' \in {At(p), "settle", "clean", "stop", "finish"}
    BY <1>1, <1>3
    DEF Fsync, At, Goto, FailedWrite, AfterFailedWrite, SyncKnows, TypeOK, dockerVars,
        localVars
  <2> QED
    BY <2>1 DEF Removal
<1>5. CASE CleanHelper(p)
  <2>1. /\ UNCHANGED <<engine, home, tok, cursor>>
        /\ At(p)' \in {"dropHelper", "cleanVolume"}
        /\ At(p)' = "dropHelper" => Owned(p, "helper")
    BY <1>1, <1>5 DEF CleanHelper, CleanRole, Goto, At, TypeOK, dockerVars, localVars
  <2> QED
    BY <2>1 DEF Removal, Target
<1>6. CASE CleanVolume(p)
  <2>1. /\ UNCHANGED <<engine, home, tok, cursor>>
        /\ At(p)' \in {"dropVolume", "settle"}
        /\ At(p)' = "dropVolume" => Owned(p, "volume")
    BY <1>1, <1>6 DEF CleanVolume, CleanRole, Goto, At, TypeOK, dockerVars, localVars
  <2> QED
    BY <2>1 DEF Removal, Target
<1>4. ~ReKnown(p) /\ ~ReDiscovered(p) /\ ~Fsync(p) /\ ~CleanHelper(p) /\ ~CleanVolume(p) =>
        At(p)' \notin Removal
  <2> SUFFICES ASSUME ~ReKnown(p), ~ReDiscovered(p), ~Fsync(p), ~CleanHelper(p), ~CleanVolume(p)
               PROVE  At(p)' \notin Removal
    OBVIOUS
  <2>1. CASE LoadJournal(p) \/ ReconcileFails(p) \/ ReAbsent(p) \/ ReTaken(p)
             \/ ReUnremoved(p) \/ ReRemove(p) \/ ReVerify(p) \/ ReInDoubt(p) \/ ReMoved(p)
    BY <1>1, <2>1
    DEF LoadJournal, ReconcileFails, ReAbsent, ReTaken, ReUnremoved, ReRemove, ReVerify,
        ReInDoubt, ReMoved, Refuse, Goto, NextRole, AfterReconcile, At, TypeOK, Removal
  <2>2. ASSUME NEW j, NEW next, Write(p, j, next), next \notin Removal
        PROVE  At(p)' \notin Removal
    BY <1>1, <2>2 DEF Write, FailedWrite, AfterFailedWrite, Goto, At, TypeOK, Removal
  <2>3. CASE ReFinish(p) \/ ReForget(p) \/ Intend(p) \/ VolumeReply(p) \/ HelperReply(p)
             \/ InspectOwned(p) \/ Forget(p)
    BY <2>2, <2>3
    DEF ReFinish, ReForget, AfterReconcile, Intend, VolumeReply, HelperReply, Recorded,
        InspectOwned, Forget, Removal
  <2>4. CASE Settle(p)
    BY <1>1, <2>2, <2>4 DEF Settle, Goto, At, TypeOK, Removal
  <2>5. CASE Prepare(p) \/ CreateVolume(p) \/ CreateHelper(p) \/ ReplyInDoubt(p)
             \/ HostPolicy(p) \/ Launch(p) \/ RunEnds(p) \/ RunTerminated(p)
             \/ ClientFails(p) \/ RunRaises(p) \/ Identify(p) \/ InspectAbsent(p)
             \/ InspectFails(p) \/ Stop(p) \/ Restat(p) \/ Remove(p) \/ Clean(p)
             \/ DropHelper(p) \/ DropVolume(p) \/ KeepJournal(p) \/ ForgetFails(p)
             \/ Publish(p) \/ Release(p)
    BY <1>1, <2>5
    DEF Prepare, CreateVolume, CreateHelper, ReplyInDoubt, HostPolicy, Launch, RunEnds,
        RunTerminated, ClientFails, Verdict, RunRaises, Identify, InspectAbsent,
        InspectFails, Stop, Restat, Remove, Clean, DropHelper, DropVolume, KeepJournal,
        ForgetFails, Publish, Release, Vanish, Refuse, Goto, At, TypeOK, Removal
  <2> QED
    BY <2>1, <2>3, <2>4, <2>5 DEF Step
<1> QED
  BY <1>2, <1>3, <1>4, <1>5, <1>6

\* What bears the name at a removal stays ours as long as nothing of somebody else's
\* appears.
LEMMA StaysChecked ==
  ASSUME ForeignInv, NEW p \in Proc, foreign' \subseteq foreign,
         UNCHANGED <<home, tok, cursor>>, At(p)' \in Removal => At(p) = At(p)',
         engine' = engine \/ home[p] # engine'
  PROVE  Checked(p)'
BY DEF ForeignInv, Checked, AtHome, Target

LEMMA StepForeign ==
  ASSUME Inv, Inv', ForeignInv, NEW p \in Proc, Step(p) PROVE ForeignInv'
<1>1. Apart'
  BY StepIsTidy DEF ForeignInv, Apart
<1>2. ASSUME NEW q \in Proc, q # p PROVE Checked(q)'
  <2>1. pc'[q] = "idle"
    BY <1>2, Alone
  <2> QED
    BY <2>1 DEF Checked, At, Removal
<1>3. Checked(p)'
  <2> SUFFICES ASSUME At(p)' \in Removal, engine' = home'[p]
               PROVE  AtHome(p, Target(p))' \notin foreign'
    BY DEF Checked
  <2>1. /\ UNCHANGED <<engine, home, tok, cursor>> /\ foreign' \subseteq foreign
        /\ At(p) = At(p)' \/ Owned(p, Target(p)')
    BY RemovalIsReached, StepIsTidy
  <2>2. CASE At(p) = At(p)'
    BY <2>1, <2>2, StaysChecked DEF Checked
  <2>3. CASE Owned(p, Target(p)')
    BY <2>1, <2>3 DEF Owned, Name, AtHome, ForeignInv, Apart
  <2> QED
    BY <2>1, <2>2, <2>3
<1> QED
  BY <1>1, <1>2, <1>3 DEF ForeignInv

\* Around the processes resources appear under free names only, and the command is
\* never pointed at an engine that a run has recorded while it works.
LEMMA SurroundingsForeign ==
  ASSUME Inv, ForeignInv, [Next]_vars, \A p \in Proc : ~Step(p)
  PROVE  ForeignInv' /\ foreign' = foreign
<1> USE DEF dockerVars, diskVars, localVars
<1>1. CASE UNCHANGED vars
  BY <1>1 DEF vars, ForeignInv, Apart, Checked, At, AtHome, Target, Removal
<1>2. CASE \E p \in Proc, m \in Mode : Start(p, m)
  <2>1. PICK p \in Proc, m \in Mode : Start(p, m)
    BY <1>2
  <2>2. /\ UNCHANGED <<live, foreign, engine, home, tok, cursor, cont>>
        /\ pc' = [pc EXCEPT ![p] = "load"]
    BY <2>1 DEF Start, Goto
  <2>3. ASSUME NEW q \in Proc PROVE At(q)' \in Removal => At(q) = At(q)'
    BY <2>2 DEF At, Inv, TypeOK, Removal
  <2>4. \A q \in Proc : Checked(q)'
    BY <2>2, <2>3, StaysChecked
  <2> QED
    BY <2>2, <2>4 DEF ForeignInv, Apart
<1>3. CASE \E p \in Proc : ContainerStarts(p) \/ ContainerExits(p)
  BY <1>3 DEF ContainerStarts, ContainerExits, ForeignInv, Apart, Checked, At, AtHome, Target, Removal
<1>4. ASSUME NEW P \in SUBSET Proc, Vanish(P), UNCHANGED <<live, foreign, engine>>
      PROVE  ForeignInv' /\ foreign' = foreign
  <2>1. ASSUME NEW q \in Proc PROVE Checked(q)'
    <3>1. CASE q \in P
      BY <1>4, <3>1 DEF Vanish, Checked, At, Removal
    <3>2. CASE q \notin P
      <4>1. At(q)' = At(q) /\ home'[q] = home[q] /\ tok'[q] = tok[q] /\ cursor'[q] = cursor[q]
        BY <1>4, <3>2 DEF Vanish, At
      <4> QED
        BY <1>4, <4>1 DEF ForeignInv, Checked, AtHome, Target
    <3> QED
      BY <3>1, <3>2
  <2> QED
    BY <1>4, <2>1 DEF ForeignInv, Apart
<1>5. CASE PowerLoss \/ \E p \in Proc : Crash(p)
  BY <1>4, <1>5 DEF PowerLoss, Crash
<1>6. CASE \E r \in pending : DaemonCreates(r)
  BY <1>6 DEF DaemonCreates, ForeignInv, Apart, Checked, At, AtHome, Target, Removal
<1>7. CASE (\E r \in pending : DaemonRefuses(r)) \/ \E e \in Engine : EngineRestarts(e)
  BY <1>7
  DEF DaemonRefuses, EngineRestarts, ForeignInv, Apart, Checked, At, AtHome, Target, Removal
<1>8. CASE \E e \in Engine : Repoint(e)
  <2>1. /\ UNCHANGED <<live, foreign, home, tok, cursor, cont, pc>>
        /\ \A p \in Proc : home[p] # engine'
    BY <1>8 DEF Repoint
  <2>2. \A p \in Proc : Checked(p)'
    BY <2>1, StaysChecked DEF At
  <2> QED
    BY <2>1, <2>2 DEF ForeignInv, Apart
<1>9. CASE PointAtJournal
  <2>1. \A p \in Proc : pc[p] = "idle"
    BY <1>9, ConstantsAssumption DEF PointAtJournal, Inv, MutualExclusion
  <2> QED
    BY <1>9, <2>1 DEF PointAtJournal, ForeignInv, Apart, Checked, At, Removal
<1> QED
  BY <1>1, <1>2, <1>3, <1>5, <1>6, <1>7, <1>8, <1>9 DEF Next

LEMMA ForeignKept ==
  ASSUME ~LateAfterExit PROVE Spec => []ForeignInv
<1>1. Init => ForeignInv
  BY DEF Init, ForeignInv, Apart, Checked, At, Removal
<1>2. ForeignInv /\ Inv /\ Inv' /\ [Next]_vars => ForeignInv'
  BY StepForeign, SurroundingsForeign
<1> QED
  BY <1>1, <1>2, Invariance, PTL DEF Spec

\* ForeignUntouched: no run, retry or cleanup removes a resource that somebody else has
\* under one of our names, but for a command repointed between check and removal.
THEOREM ForeignSafe ==
  ASSUME ~LateAfterExit PROVE Spec => ForeignUntouched
<1> DEFINE Repointed == \E p \in Proc : pc[p] \in Removal /\ engine # home[p]
<1>1. ASSUME Inv, ForeignInv, [Next]_vars PROVE [foreign' # foreign => Repointed]_vars
  <2>1. CASE \E p \in Proc : Step(p)
    BY <1>1, <2>1, StepIsTidy
  <2>2. CASE \A p \in Proc : ~Step(p)
    BY <1>1, <2>2, SurroundingsForeign
  <2> QED
    BY <2>1, <2>2
<1> QED
  BY <1>1, ForeignKept, Invariance, PTL DEF Spec, ForeignUntouched, Removal
=============================================================================
