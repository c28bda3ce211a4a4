------------------------ MODULE ProcessRunnerProofs ------------------------
(***************************************************************************)
(* The runner, for any capacity of a pipe that the last reads can empty:   *)
(* an answer is never taken from half of what was written, and no process  *)
(* is signalled by a number that may have been given away.                 *)
(***************************************************************************)
EXTENDS ProcessRunner, TLAPS

Starting == {"clear", "spawn"}
Watching == {"pipes", "poll", "clock", "drain", "watch"}
Ending   == {"terminate", "term", "grace", "kill", "wait"}
Judging  == {"judge", "extract", "output", "size", "digest", "load"}

\* The process is waited for only where the thread stops watching it.
Waited ==
  /\ pc \in Starting \cup Watching \cup Ending => ~reaped
  /\ pc \in Starting => leader = "none"
  /\ pc \in Starting \cup Watching => detail = "none"
  /\ pc \in Ending => detail # "none"

\* A pipe holds what was written and not read, in order.
PipesOrdered ==
  \A p \in Pipes :
    /\ last[p] <= written[p] /\ total[p] <= written[p]
    /\ written[p] <= total[p] + Capacity

\* The reads that are left suffice for what a process wrote that ended by itself.
ReadsSuffice ==
  /\ pc \in Starting \cup Watching \cup Ending => rounds = Rounds
  /\ pc \in {"finalize"} \cup Judging /\ detail = "none" => leader = "ended"
  /\ pc = "finalize" /\ detail = "none" =>
       \A p \in Pipes : last[p] <= total[p] + rounds * Chunk
  /\ pc \in Judging /\ detail = "none" => \A p \in Pipes : last[p] <= total[p]

\* Only an output whose process passed is looked at.
Passed ==
  /\ pc \in Judging \ {"judge"} =>
       detail = "none" /\ \A p \in Pipes : total[p] <= Emitted
  /\ result # "none" => pc = "done"

RunnerInv == TypeOK /\ Waited /\ PipesOrdered /\ ReadsSuffice /\ Passed /\ AnswerIsWhole

-----------------------------------------------------------------------------
(* Reading. *)

\* The rounds left are worth one read more than after the next.
LEMMA RoundWorth ==
  ASSUME NEW n \in Nat \ {0}, NEW c \in Nat
  PROVE  n * c = (n - 1) * c + c /\ (n - 1) * c \in Nat
OBVIOUS

\* A round reads in order, no more than was written and no less than a read returns.
LEMMA RoundReads ==
  ASSUME TypeOK, PipesOrdered
  PROVE  /\ Drained \in [Pipes -> Nat]
         /\ \A p \in Pipes :
              /\ total[p] <= Drained[p] /\ Drained[p] <= written[p]
              /\ Drained[p] = written[p] \/ Drained[p] = total[p] + Chunk
BY RunnerAssumption DEF TypeOK, PipesOrdered, Drained, Least

-----------------------------------------------------------------------------
(* The process. *)

\* What the process, its descendant and the clock do keeps the invariant.
LEMMA EnvironmentKeepsInv ==
  ASSUME RunnerInv, Environment \/ DeadlinePasses PROVE RunnerInv'
<1> USE RunnerAssumption DEF RunnerInv, Hears
<1>1. ASSUME NEW p \in Pipes, LeaderWrites(p) PROVE RunnerInv'
  <2>1. TypeOK'
    BY <1>1 DEF LeaderWrites, Write, TypeOK, fileVars
  <2>2. Waited' /\ Passed'
    BY <1>1 DEF LeaderWrites, Write, Waited, Passed, fileVars, Starting
  <2>3. PipesOrdered'
    BY <1>1 DEF LeaderWrites, Write, Room, PipesOrdered, TypeOK
  <2>4. ReadsSuffice' /\ AnswerIsWhole'
    BY <1>1 DEF LeaderWrites, Write, ReadsSuffice, AnswerIsWhole, Passed, TypeOK
  <2> QED
    BY <2>1, <2>2, <2>3, <2>4
<1>2. ASSUME NEW p \in Pipes, DescendantWrites(p) PROVE RunnerInv'
  <2>1. TypeOK'
    BY <1>2 DEF DescendantWrites, Write, TypeOK, fileVars
  <2>2. Waited' /\ Passed'
    BY <1>2 DEF DescendantWrites, Write, Waited, Passed, fileVars
  <2>3. PipesOrdered'
    BY <1>2 DEF DescendantWrites, Write, Room, PipesOrdered, TypeOK
  <2>4. ReadsSuffice' /\ AnswerIsWhole'
    BY <1>2 DEF DescendantWrites, Write, ReadsSuffice, AnswerIsWhole
  <2> QED
    BY <2>1, <2>2, <2>3, <2>4
<1>3. ASSUME NEW c \in {"valid", "invalid", "big"}, LeaderSaves(c) \/ DescendantSaves(c)
      PROVE  RunnerInv'
  <2>1. TypeOK'
    <3>1. CASE LeaderSaves(c)
      BY <1>3, <3>1 DEF LeaderSaves, TypeOK, Content, pipeVars
    <3>2. CASE DescendantSaves(c)
      BY <1>3, <3>2 DEF DescendantSaves, TypeOK, Content, pipeVars
    <3> QED
      BY <1>3, <3>1, <3>2
  <2>2. Waited' /\ PipesOrdered' /\ ReadsSuffice'
    BY <1>3 DEF LeaderSaves, DescendantSaves, Waited, PipesOrdered, ReadsSuffice, pipeVars
  <2>3. Passed' /\ AnswerIsWhole'
    BY <1>3 DEF LeaderSaves, DescendantSaves, Passed, AnswerIsWhole, pipeVars
  <2> QED
    BY <2>1, <2>2, <2>3
<1>4. ASSUME NEW c \in {0, 1}, LeaderEnds(c) PROVE RunnerInv'
  BY <1>4 DEF LeaderEnds, TypeOK, Waited, PipesOrdered, ReadsSuffice, Passed,
              AnswerIsWhole, pipeVars, fileVars
<1>5. CASE Forks \/ DescendantEnds \/ DeadlinePasses
  <2> USE <1>5 DEF Forks, DescendantEnds, DeadlinePasses, pipeVars, fileVars, procVars
  <2>1. TypeOK'
    <3>1. CASE Forks
      BY <3>1 DEF TypeOK
    <3>2. CASE DescendantEnds
      BY <3>2 DEF TypeOK
    <3>3. CASE DeadlinePasses
      BY <3>3 DEF TypeOK
    <3> QED
      BY <1>5, <3>1, <3>2, <3>3
  <2>2. Waited' /\ PipesOrdered' /\ ReadsSuffice'
    BY DEF Waited, PipesOrdered, ReadsSuffice
  <2>3. Passed' /\ AnswerIsWhole'
    BY DEF Passed, AnswerIsWhole
  <2> QED
    BY <2>1, <2>2, <2>3
<1> QED
  BY <1>1, <1>2, <1>3, <1>4, <1>5 DEF Environment

-----------------------------------------------------------------------------
(* The thread. *)

\* Starting and watching a process keeps the invariant.
LEMMA WatchingKeepsInv ==
  ASSUME RunnerInv, Clear \/ Spawn \/ Prepare \/ Poll \/ Clock \/ Drain \/ Watch
  PROVE  RunnerInv'
<1> USE RunnerAssumption DEF RunnerInv, Goto, Return, procVars, pipeVars, fileVars
<1>1. CASE Clear \/ Spawn \/ Prepare \/ Clock \/ Watch
  <2>1. TypeOK'
    BY <1>1 DEF Clear, Spawn, Prepare, Clock, Watch, TypeOK, Label, Content, Fault
  <2>2. Waited'
    BY <1>1 DEF Clear, Spawn, Prepare, Clock, Watch, Waited, Starting, Watching, Ending
  <2>3. PipesOrdered' /\ Passed' /\ AnswerIsWhole'
    BY <1>1 DEF Clear, Spawn, Prepare, Clock, Watch, PipesOrdered, Passed,
                AnswerIsWhole, Fault, Judging
  <2>4. ReadsSuffice'
    BY <1>1 DEF Clear, Spawn, Prepare, Clock, Watch, ReadsSuffice, Starting, Watching,
                Ending, Judging
  <2> QED
    BY <2>1, <2>2, <2>3, <2>4
<1>2. CASE Poll
  <2>1. TypeOK' /\ Waited'
    BY <1>2 DEF Poll, TypeOK, Label, Waited, Starting, Watching, Ending
  <2>2. PipesOrdered' /\ Passed' /\ AnswerIsWhole'
    BY <1>2 DEF Poll, PipesOrdered, Passed, AnswerIsWhole, Judging
  <2>3. \A p \in Pipes : last[p] <= total[p] + Rounds * Chunk
    <3>1. Rounds * Chunk \in Nat
      OBVIOUS
    <3> QED
      BY <3>1 DEF TypeOK, PipesOrdered
  <2>4. ReadsSuffice'
    BY <1>2, <2>3 DEF Poll, ReadsSuffice, Starting, Watching, Ending, Judging
  <2> QED
    BY <2>1, <2>2, <2>4
<1>3. CASE Drain
  <2>1. TypeOK' /\ Waited'
    BY <1>3, RoundReads DEF Drain, TypeOK, Label, Waited, Starting, Watching, Ending
  <2>2. PipesOrdered'
    BY <1>3, RoundReads DEF Drain, PipesOrdered, TypeOK
  <2>3. ReadsSuffice' /\ Passed' /\ AnswerIsWhole'
    BY <1>3 DEF Drain, ReadsSuffice, Passed, AnswerIsWhole, Starting, Watching, Ending,
                Judging
  <2> QED
    BY <2>1, <2>2, <2>3
<1> QED
  BY <1>1, <1>2, <1>3

\* Ending a process keeps the invariant.
LEMMA EndingKeepsInv ==
  ASSUME RunnerInv, Terminate \/ Term \/ Grace \/ Kill \/ Wait
  PROVE  RunnerInv'
<1> USE DEF RunnerInv, Terminate, Term, Grace, Kill, Wait, Signal, WaitOver, AfterEnd,
            Goto, Return, procVars, pipeVars, fileVars
<1>1. TypeOK' /\ Waited'
  <2>1. CASE Terminate
    BY <2>1 DEF TypeOK, Label, Fault, Waited, Starting, Watching, Ending
  <2>2. CASE Term \/ Kill
    BY <2>2 DEF TypeOK, Label, Waited, Starting, Watching, Ending
  <2>3. CASE Grace
    <3>1. CASE reaped' = TRUE /\ AfterEnd
      BY <2>3, <3>1 DEF TypeOK, Label, Fault, Waited, Starting, Watching, Ending
    <3>2. CASE UNCHANGED reaped /\ Goto("kill")
      BY <2>3, <3>2 DEF TypeOK, Label, Fault, Waited, Starting, Watching, Ending
    <3> QED
      BY <2>3, <3>1, <3>2
  <2>4. CASE Wait
    <3>1. CASE reaped' = TRUE /\ AfterEnd
      BY <2>4, <3>1 DEF TypeOK, Label, Fault, Waited, Starting, Watching, Ending
    <3>2. CASE UNCHANGED reaped /\ AfterEnd
      BY <2>4, <3>2 DEF TypeOK, Label, Fault, Waited, Starting, Watching, Ending
    <3> QED
      BY <2>4, <3>1, <3>2
  <2> QED
    BY <2>1, <2>2, <2>3, <2>4
<1>3. PipesOrdered' /\ Passed' /\ AnswerIsWhole'
  BY DEF PipesOrdered, Passed, AnswerIsWhole, Fault, Judging
<1>4. ReadsSuffice'
  BY DEF ReadsSuffice, Waited, Starting, Watching, Ending, Judging
<1> QED
  BY <1>1, <1>3, <1>4

\* The last reads keep the invariant: one that finds nothing has found all.
LEMMA FinalizeKeepsInv ==
  ASSUME RunnerInv, Finalize PROVE RunnerInv'
<1> USE RunnerAssumption DEF RunnerInv, Finalize, Goto, procVars, pipeVars, fileVars
<1>1. TypeOK'
  BY RoundReads DEF TypeOK, Label
<1>2. Waited' /\ Passed' /\ AnswerIsWhole'
  BY DEF Waited, Passed, AnswerIsWhole, Starting, Watching, Ending, Judging
<1>3. PipesOrdered'
  BY RoundReads DEF PipesOrdered, TypeOK
<1>4. ReadsSuffice'
  <2>1. CASE rounds = 0
    BY <2>1 DEF ReadsSuffice, TypeOK, Starting, Watching, Ending, Judging
  <2>2. CASE rounds # 0
    <3>1. /\ rounds \in Nat \ {0} /\ rounds' = rounds - 1 /\ total' = Drained
          /\ pc' = IF total' = total THEN "judge" ELSE "finalize"
      BY <2>2 DEF TypeOK
    <3>2. ASSUME detail = "none", NEW p \in Pipes
          PROVE  last[p] <= total'[p] + rounds' * Chunk
      <4>1. last[p] <= total[p] + rounds * Chunk /\ last[p] <= written[p]
        BY <3>2 DEF ReadsSuffice, PipesOrdered
      <4>2. rounds * Chunk = rounds' * Chunk + Chunk /\ rounds' * Chunk \in Nat
        BY <3>1, RoundWorth
      <4>3. total'[p] = written[p] \/ total'[p] = total[p] + Chunk
        BY <3>1, RoundReads
      <4>4. last[p] \in Nat /\ written[p] \in Nat /\ total[p] \in Nat
        BY DEF TypeOK
      <4> HIDE DEF RunnerInv, Finalize
      <4> QED
        BY <4>1, <4>2, <4>3, <4>4
    <3>3. ASSUME total' = total, NEW p \in Pipes PROVE last[p] <= total'[p]
      <4>1. total'[p] = written[p]
        BY <3>1, <3>3, RoundReads DEF TypeOK
      <4> QED
        BY <4>1 DEF PipesOrdered
    <3> QED
      BY <3>1, <3>2, <3>3
      DEF ReadsSuffice, Starting, Watching, Ending, Judging
  <2> QED
    BY <2>1, <2>2
<1> QED
  BY <1>1, <1>2, <1>3, <1>4

\* The verdict keeps the invariant.
LEMMA VerdictKeepsInv ==
  ASSUME RunnerInv,
         JudgeControl \/ JudgeRouter \/ Extract \/ Output \/ Size \/ Digest \/ Load
  PROVE  RunnerInv'
<1> USE DEF RunnerInv, JudgeControl, JudgeRouter, Extract, Output, Size, Digest, Load,
            Keep, Goto, Return, procVars, fileVars, pipeVars
<1>1. TypeOK'
  BY DEF TypeOK, Label, Mode, Content, Extractable
<1>2. Waited' /\ PipesOrdered'
  BY DEF Waited, PipesOrdered, Starting, Watching, Ending
<1>3. ReadsSuffice'
  BY DEF ReadsSuffice, Starting, Watching, Ending, Judging
<1>4. ~Over(total) => \A p \in Pipes : total[p] <= Emitted
  BY RunnerAssumption DEF Over, TypeOK
<1>5. Passed'
  BY <1>4 DEF Passed, Judging
<1>6. AnswerIsWhole'
  BY <1>4 DEF AnswerIsWhole, Passed, ReadsSuffice, Judging
<1> QED
  BY <1>1, <1>2, <1>3, <1>5, <1>6

-----------------------------------------------------------------------------

\* The invariant holds at first.
LEMMA InitRunnerInv == Init => RunnerInv
<1> USE RunnerAssumption DEF Init
<1>1. Init => TypeOK
  <2> SUFFICES ASSUME Init PROVE TypeOK
    OBVIOUS
  <2>1. pc \in Label /\ inside \in Content /\ file \in Content /\ rounds \in 0..Rounds
    BY DEF Label, Content
  <2>2. /\ written \in [Pipes -> Nat] /\ last \in [Pipes -> Nat]
        /\ total \in [Pipes -> Nat]
    OBVIOUS
  <2>3. reaped \in BOOLEAN /\ late \in BOOLEAN /\ wrong \in BOOLEAN
    OBVIOUS
  <2>4. leader \in {"none"} /\ code \in {0} /\ descendant \in {"none"}
    OBVIOUS
  <2> QED
    BY <2>1, <2>2, <2>3, <2>4 DEF TypeOK
<1>2. Init => Waited /\ ReadsSuffice /\ Passed /\ AnswerIsWhole
  BY DEF Waited, ReadsSuffice, Passed, AnswerIsWhole, Starting, Watching, Ending, Judging
<1>3. Init => PipesOrdered
  BY DEF PipesOrdered
<1> QED
  BY <1>1, <1>2, <1>3 DEF RunnerInv

\* The invariant holds always.
THEOREM RunnerInvariant == Spec => []RunnerInv
<1>1. RunnerInv /\ [Next]_vars => RunnerInv'
  <2> SUFFICES ASSUME RunnerInv, [Next]_vars PROVE RunnerInv'
    OBVIOUS
  <2>1. CASE Thread
    BY <2>1, WatchingKeepsInv, EndingKeepsInv, FinalizeKeepsInv, VerdictKeepsInv
    DEF Thread
  <2>2. CASE UNCHANGED vars
    BY <2>2
    DEF vars, procVars, pipeVars, fileVars, RunnerInv, TypeOK, Waited, PipesOrdered,
        ReadsSuffice, Passed, AnswerIsWhole
  <2> QED
    BY <2>1, <2>2, EnvironmentKeepsInv DEF Next
<1> QED
  BY InitRunnerInv, <1>1, PTL DEF Spec

\* AnswerIsWhole, for every limit and every number of reads that empties a pipe.
THEOREM AnswersAreWhole == Spec => []AnswerIsWhole
BY RunnerInvariant, PTL DEF RunnerInv

\* SignalsOwnGroup: no number of a process that was waited for is signalled.
THEOREM SignalsStayOwn == Spec => []SignalsOwnGroup
<1>1. RunnerInv => SignalsOwnGroup
  BY DEF RunnerInv, Waited, SignalsOwnGroup, Ending
<1> QED
  BY <1>1, RunnerInvariant, PTL

-----------------------------------------------------------------------------
(* The verdict's grounds. *)

\* A rule is broken by too much output, an exit code, an output file that is too big, or
\* none that is valid when the process ends.
Broken ==
  /\ \A p \in Pipes : written[p] > Emitted => wrong
  /\ code # 0 => wrong
  /\ "big" \in {inside, file} => wrong
  /\ leader = "ended" /\ mode = "host" /\ file # "valid" => wrong
  /\ leader = "ended" /\ mode = "isolated" /\ inside # "valid" => wrong

\* What the thread ended the process for is so, and a failure of its own never gets to
\* the verdict.
Grounds ==
  /\ detail = "late" => late
  /\ detail \in {"over", "big"} => wrong
  /\ pc \in {"finalize"} \cup Judging => detail # "pipes"
  /\ detail = "unread" => pc = "done"

\* Output of an earlier attempt is cleared, left by a failure, or no router's; what is
\* read is as the process left it, or a rule was broken since.
Fresh ==
  /\ inside # "stale"
  /\ file = "stale" => mode = "control" \/ pc = "clear" \/ result = "infrastructure"
  /\ pc \in Judging \ {"judge"} => mode # "control"
  /\ pc = "extract" => mode = "isolated"
  /\ pc \in {"output", "size", "digest", "load"} /\ file # "valid" => wrong

FairInv == Broken /\ Grounds /\ Fresh /\ VerdictIsFair

\* The process breaks rules openly.
LEMMA EnvironmentIsFair ==
  ASSUME RunnerInv, FairInv, Environment \/ DeadlinePasses PROVE FairInv'
<1> USE DEF FairInv, Hears
<1>1. /\ result # "none" => pc = "done"
      /\ written \in [Pipes -> Nat] /\ pc # "done" /\ pc # "clear"
  BY DEF RunnerInv, Passed, TypeOK, Environment, LeaderWrites, DescendantWrites, Write,
     LeaderSaves, DescendantSaves, LeaderEnds, Forks, DescendantEnds, DeadlinePasses
<1>2. result = "none" /\ UNCHANGED <<mode, pc, detail, result>>
  BY <1>1 DEF RunnerInv, Passed, Environment, LeaderWrites, DescendantWrites, Write,
     LeaderSaves, DescendantSaves, LeaderEnds, Forks, DescendantEnds, DeadlinePasses
<1>3. ASSUME NEW p \in Pipes, LeaderWrites(p) \/ DescendantWrites(p) PROVE FairInv'
  <2>1. /\ written' = [written EXCEPT ![p] = @ + 1]
        /\ wrong' = (wrong \/ written[p] + 1 > Emitted)
        /\ UNCHANGED <<leader, code, late, inside, file>>
    BY <1>3 DEF LeaderWrites, DescendantWrites, Write, fileVars
  <2>2. Broken'
    BY <1>1, <1>2, <2>1 DEF Broken
  <2> QED
    BY <1>2, <2>1, <2>2 DEF Grounds, Fresh, VerdictIsFair
<1>4. ASSUME NEW c \in {"valid", "invalid", "big"}, LeaderSaves(c) \/ DescendantSaves(c)
      PROVE  FairInv'
  <2>1. CASE LeaderSaves(c)
    <3>1. /\ leader = "running" /\ mode # "control"
          /\ wrong' = (wrong \/ c = "big")
          /\ UNCHANGED <<leader, code, written, late>>
          /\ \/ file' = c /\ UNCHANGED inside
             \/ inside' = c /\ UNCHANGED file
      BY <2>1 DEF LeaderSaves, pipeVars
    <3>2. pc \notin {"output", "size", "digest", "load"}
      BY <3>1 DEF RunnerInv, ReadsSuffice, Passed, Judging
    <3> QED
      BY <1>2, <3>1, <3>2 DEF Broken, Grounds, Fresh, VerdictIsFair
  <2>2. CASE DescendantSaves(c)
    <3>1. /\ mode = "host" /\ file' = c /\ wrong' = (wrong \/ c # "valid")
          /\ UNCHANGED <<leader, code, written, late, inside>>
      BY <2>2 DEF DescendantSaves, pipeVars
    <3> QED
      BY <1>2, <3>1 DEF Broken, Grounds, Fresh, VerdictIsFair
  <2> QED
    BY <1>4, <2>1, <2>2
<1>5. ASSUME NEW c \in {0, 1}, LeaderEnds(c) PROVE FairInv'
  BY <1>2, <1>5 DEF LeaderEnds, Broken, Grounds, Fresh, VerdictIsFair, pipeVars, fileVars
<1>6. CASE Forks \/ DescendantEnds \/ DeadlinePasses
  <2>1. /\ UNCHANGED <<leader, code, written, wrong, inside, file>>
        /\ late => late'
    BY <1>6 DEF Forks, DescendantEnds, DeadlinePasses, pipeVars, fileVars, procVars
  <2> QED
    BY <1>2, <2>1 DEF Broken, Grounds, Fresh, VerdictIsFair
<1> QED
  BY <1>3, <1>4, <1>5, <1>6 DEF Environment

\* Until the verdict, the thread ends a process only for what it saw, and returns nothing
\* that charges anybody.
LEMMA WatchingIsFair ==
  ASSUME RunnerInv, FairInv,
         \/ Clear \/ Spawn \/ Prepare \/ Poll \/ Clock \/ Drain \/ Watch
         \/ Terminate \/ Term \/ Grace \/ Kill \/ Wait \/ Finalize
  PROVE  FairInv'
<1> USE DEF FairInv, Goto, Return
<1>1. result = "none" /\ UNCHANGED <<mode, code, written, late, wrong, inside>>
  BY DEF RunnerInv, Passed, Clear, Spawn, Prepare, Poll, Clock, Drain, Watch, Terminate, Term,
     Grace, Kill, Wait, Finalize, Signal, WaitOver, procVars, pipeVars, fileVars
<1>2. result' \in {"none", "refused", "infrastructure"}
      /\ (result' # "none" => pc' = "done")
  BY <1>1 DEF Clear, Spawn, Prepare, Poll, Clock, Drain, Watch, Terminate, Term, Grace, Kill,
     Wait, Finalize, Signal, WaitOver, AfterEnd, Fault
<1>3. Broken' /\ (file' = "stale" => file = "stale")
  BY <1>1 DEF Broken, Clear, Spawn, Prepare, Poll, Clock, Drain, Watch, Terminate, Term, Grace,
     Kill, Wait, Finalize, Signal, WaitOver, procVars, fileVars, RunnerInv, Waited, Starting
<1>4. Grounds'
  <2>1. CASE Drain
    <3>1. Over(total') => wrong
      BY <2>1, RoundReads, RunnerAssumption
      DEF Drain, Over, Broken, RunnerInv, TypeOK
    <3> QED
      BY <1>1, <2>1, <3>1 DEF Drain, Grounds, Judging
  <2>2. CASE ~Drain
    BY <1>1, <2>2
    DEF Grounds, Broken, Clear, Spawn, Prepare, Poll, Clock, Watch, Terminate, Term, Grace, Kill,
        Wait, Finalize, Signal, WaitOver, AfterEnd, Judging, RunnerInv, Waited, Starting, Watching
  <2> QED
    BY <2>1, <2>2
<1>5. Fresh'
  <2>1. pc' \notin Judging \ {"judge"}
    BY DEF Clear, Spawn, Prepare, Poll, Clock, Drain, Watch, Terminate, Term, Grace, Kill, Wait,
       Finalize, Signal, WaitOver, AfterEnd, Judging
  <2>2. file' = "stale" => mode' = "control" \/ result' = "infrastructure"
    BY <1>1, <1>3 DEF Fresh, Clear, Spawn, Prepare, Poll, Clock, Drain, Watch, Terminate, Term,
       Grace, Kill, Wait, Finalize, Signal, WaitOver
  <2> QED
    BY <1>1, <2>1, <2>2 DEF Fresh, Judging
<1> QED
  BY <1>2, <1>3, <1>4, <1>5 DEF VerdictIsFair

\* The verdict has grounds.
LEMMA VerdictStaysFair ==
  ASSUME RunnerInv, FairInv,
         JudgeControl \/ JudgeRouter \/ Extract \/ Output \/ Size \/ Digest \/ Load
  PROVE  FairInv'
<1> USE DEF FairInv, Goto, Return
<1>1. /\ result = "none"
      /\ UNCHANGED <<mode, leader, code, written, total, late, wrong, inside>>
      /\ detail' = detail \/ (Load /\ detail' = "unread" /\ pc' = "done")
  BY DEF RunnerInv, Passed, JudgeControl, JudgeRouter, Extract, Output, Size, Digest, Load, Keep,
     Judging, procVars, pipeVars, fileVars
<1>2. /\ leader = "ended" \/ detail # "none"
      /\ pc # "judge" => detail = "none"
      /\ pc \in Judging
  BY DEF RunnerInv, ReadsSuffice, Passed, JudgeControl, JudgeRouter, Extract, Output, Size,
     Digest, Load, Judging
<1>3. CASE JudgeControl
  BY <1>1, <1>3 DEF JudgeControl, Keep, Broken, Grounds, Fresh, VerdictIsFair, Judging, fileVars
<1>4. CASE JudgeRouter
  <2>1. Over(total) => wrong
    BY RunnerAssumption DEF RunnerInv, TypeOK, PipesOrdered, Over, Broken
  <2>2. detail \notin {"none", "unreadable"} => late \/ wrong
    BY <1>2 DEF Grounds, RunnerInv, TypeOK, Judging
  <2>3. mode # "control" /\ file' = file
    BY <1>4 DEF JudgeRouter, fileVars
  <2>4. CASE pc' = "output"
    BY <1>1, <1>2, <1>4, <2>3, <2>4
    DEF JudgeRouter, Broken, Grounds, Fresh, VerdictIsFair, Judging, RunnerInv, TypeOK, Mode
  <2>5. CASE pc' # "output"
    BY <1>1, <1>2, <1>4, <2>1, <2>2, <2>3, <2>5
    DEF JudgeRouter, Broken, Grounds, Fresh, VerdictIsFair, Judging
  <2> QED
    BY <2>4, <2>5
<1>5. CASE Extract
  <2>1. mode = "isolated" /\ leader = "ended"
    BY <1>2, <1>5 DEF Extract, Fresh, Judging
  <2> QED
    BY <1>1, <1>2, <1>5, <2>1
    DEF Extract, Extractable, Broken, Grounds, Fresh, VerdictIsFair, Judging
<1>6. CASE Output \/ Size \/ Digest \/ Load
  <2>1. file' = file /\ mode # "control" /\ file # "stale" /\ (file # "valid" => wrong)
    BY <1>1, <1>6 DEF Output, Size, Digest, Load, Fresh, Judging, fileVars
  <2> QED
    BY <1>1, <1>2, <1>6, <2>1
    DEF Output, Size, Digest, Load, Broken, Grounds, Fresh, VerdictIsFair, Judging
<1> QED
  BY <1>3, <1>4, <1>5, <1>6

\* VerdictIsFair: for all limits and whatever the process does when, a participant is
\* charged only for a deadline or a broken rule, and credited only with its own output.
THEOREM VerdictsAreFair == Spec => []VerdictIsFair
<1>1. Init => FairInv
  BY RunnerAssumption
  DEF Init, FairInv, Broken, Grounds, Fresh, VerdictIsFair, Judging
<1>2. RunnerInv /\ FairInv /\ [Next]_vars => FairInv'
  <2> SUFFICES ASSUME RunnerInv, FairInv, [Next]_vars PROVE FairInv'
    OBVIOUS
  <2>1. CASE UNCHANGED vars
    BY <2>1 DEF vars, procVars, pipeVars, fileVars, FairInv, Broken, Grounds, Fresh, VerdictIsFair
  <2> QED
    BY <2>1, EnvironmentIsFair, WatchingIsFair, VerdictStaysFair DEF Next, Thread
<1>3. FairInv => VerdictIsFair
  BY DEF FairInv
<1> QED
  BY RunnerInvariant, <1>1, <1>2, <1>3, PTL DEF Spec
=============================================================================
