--------------------------- MODULE ProcessRunner ---------------------------
(***************************************************************************)
(* One process started by runtime.py and watched by one thread: a control  *)
(* command of the runtime client (_run_control_command), a router on the   *)
(* host (run_router_once) or the client of a participant's container,      *)
(* whose output a helper extracts (_run_isolated_container_once).  The     *)
(* process, a descendant that inherited its pipes and the clock move       *)
(* between any two steps of the thread; a descendant may outlive the       *)
(* process and hold the pipes open.  Bytes are counted, in blocks.         *)
(***************************************************************************)
EXTENDS Integers, FiniteSets

CONSTANTS
  Pipes,       \* stdout and stderr
  Capacity,    \* what a pipe holds (the kernel)
  Chunk,       \* what one os.read returns at most
  Rounds,      \* reads of each pipe once the process is over
  Emitted,     \* max_log_emitted_bytes, max_stdout_bytes, max_stderr_bytes
  MaxWritten   \* bound of the model: what is written to one pipe

ASSUME RunnerAssumption ==
  /\ Capacity \in Nat /\ Chunk \in Nat \ {0} /\ Rounds \in Nat /\ Emitted \in Nat
  /\ MaxWritten \in Nat
  /\ Capacity <= Rounds * Chunk

VARIABLES
  mode, pc,
  leader, code, reaped,    \* the process, its exit code, and whether we waited for it
  descendant,
  written, last, total,    \* per pipe: bytes written, up to the leader's last, and read
  late,                    \* is the deadline past?
  inside, file,            \* the output in the volume, and at output_path
  detail,                  \* why the thread ended the process, or "unread"
  rounds,                  \* reads left
  result,
  wrong                    \* history: did the process break a rule?

procVars == <<leader, code, descendant, wrong>>
pipeVars == <<written, last>>
fileVars == <<inside, file>>
vars == <<mode, pc, procVars, reaped, pipeVars, total, late, fileVars, detail,
          rounds, result>>

Mode    == {"control", "host", "isolated"}
Content == {"absent", "stale", "valid", "invalid", "big"}
Label   == {"clear", "spawn", "pipes", "poll", "clock", "drain", "watch",
            "terminate", "term", "grace", "kill", "wait", "finalize", "judge",
            "extract", "output", "size", "digest", "load", "done"}

TypeOK ==
  /\ mode \in Mode /\ pc \in Label
  /\ leader \in {"none", "running", "ended"} /\ code \in {0, 1}
  /\ reaped \in BOOLEAN /\ late \in BOOLEAN /\ wrong \in BOOLEAN
  /\ descendant \in {"none", "running", "ended"}
  /\ written \in [Pipes -> Nat] /\ last \in [Pipes -> Nat] /\ total \in [Pipes -> Nat]
  /\ inside \in Content /\ file \in Content
  /\ detail \in {"none", "pipes", "late", "over", "unreadable", "big", "unread"}
  /\ rounds \in 0..Rounds
  /\ result \in {"none", "answer", "refused", "valid", "execution", "infrastructure"}

Init ==
  /\ mode \in Mode
  /\ pc = IF mode = "control" THEN "spawn" ELSE "clear"
  /\ leader = "none" /\ code = 0 /\ reaped = FALSE /\ descendant = "none"
  /\ written = [p \in Pipes |-> 0] /\ last = written /\ total = written
  /\ late = FALSE /\ wrong = FALSE
  /\ inside = "absent" /\ file \in {"absent", "stale"}
  /\ detail = "none" /\ rounds = Rounds /\ result = "none"

-----------------------------------------------------------------------------
(* The process, its descendant and the clock.                              *)

Hears == pc \notin {"clear", "spawn", "done"}

Least(a, b) == IF a < b THEN a ELSE b

Room(p) == written[p] < MaxWritten /\ written[p] - total[p] < Capacity

Write(p) ==
  /\ Hears /\ Room(p)
  /\ written' = [written EXCEPT ![p] = @ + 1]
  /\ wrong' = (wrong \/ written[p] + 1 > Emitted)
  /\ UNCHANGED <<mode, pc, leader, code, descendant, reaped, total, late, fileVars,
                 detail, rounds, result>>

LeaderWrites(p) ==
  /\ leader = "running"
  /\ last' = [last EXCEPT ![p] = written[p] + 1]
  /\ Write(p)

DescendantWrites(p) ==
  /\ descendant = "running"
  /\ UNCHANGED last
  /\ Write(p)

\* A router on the host writes the output itself, one in a container its volume.
LeaderSaves(c) ==
  /\ Hears /\ leader = "running" /\ mode # "control"
  /\ IF mode = "host" THEN file' = c /\ UNCHANGED inside
                      ELSE inside' = c /\ UNCHANGED file
  /\ wrong' = (wrong \/ c = "big")
  /\ UNCHANGED <<mode, pc, leader, code, descendant, reaped, pipeVars, total, late,
                 detail, rounds, result>>

DescendantSaves(c) ==
  /\ Hears /\ descendant = "running" /\ mode = "host"
  /\ file' = c
  /\ wrong' = (wrong \/ c # "valid")
  /\ UNCHANGED <<mode, pc, leader, code, descendant, reaped, pipeVars, total, late,
                 inside, detail, rounds, result>>

Forks ==
  /\ Hears /\ leader = "running" /\ descendant = "none"
  /\ descendant' = "running"
  /\ UNCHANGED <<mode, pc, leader, code, wrong, reaped, pipeVars, total, late,
                 fileVars, detail, rounds, result>>

\* On its own, or by a signal; nothing says that a signal has an effect in time.
LeaderEnds(c) ==
  /\ Hears /\ leader = "running"
  /\ leader' = "ended" /\ code' = c
  /\ wrong' = \/ wrong \/ c # 0
              \/ mode = "host" /\ file # "valid"
              \/ mode = "isolated" /\ inside # "valid"
  /\ UNCHANGED <<mode, pc, descendant, reaped, pipeVars, total, late, fileVars,
                 detail, rounds, result>>

DescendantEnds ==
  /\ Hears /\ descendant = "running"
  /\ descendant' = "ended"
  /\ UNCHANGED <<mode, pc, leader, code, wrong, reaped, pipeVars, total, late,
                 fileVars, detail, rounds, result>>

DeadlinePasses ==
  /\ Hears /\ ~late
  /\ late' = TRUE
  /\ UNCHANGED <<mode, pc, procVars, reaped, pipeVars, total, fileVars, detail,
                 rounds, result>>

Environment ==
  \/ \E p \in Pipes : LeaderWrites(p) \/ DescendantWrites(p)
  \/ \E c \in {"valid", "invalid", "big"} : LeaderSaves(c) \/ DescendantSaves(c)
  \/ \E c \in {0, 1} : LeaderEnds(c)
  \/ Forks \/ DescendantEnds

-----------------------------------------------------------------------------
(* The thread.                                                             *)

Goto(label) == pc' = label /\ UNCHANGED result
Return(res) == pc' = "done" /\ result' = res

\* What a failure of the operator's own means to the two callers.
Fault == IF mode = "control" THEN "refused" ELSE "infrastructure"

\* A router's output of an earlier attempt goes first.
Clear ==
  /\ pc = "clear"
  /\ \/ file' = "absent" /\ Goto("spawn")
     \/ UNCHANGED file /\ Return("infrastructure")
  /\ UNCHANGED <<mode, procVars, reaped, pipeVars, total, late, inside, detail, rounds>>

Spawn ==
  /\ pc = "spawn"
  /\ \/ leader' = "running" /\ Goto("pipes")
     \/ UNCHANGED leader /\ Return(Fault)
  /\ UNCHANGED <<mode, code, descendant, wrong, reaped, pipeVars, total, late,
                 fileVars, detail, rounds>>

Prepare ==
  /\ pc = "pipes"
  /\ \/ UNCHANGED detail /\ Goto("poll")
     \/ detail' = "pipes" /\ Goto("terminate")
  /\ UNCHANGED <<mode, procVars, reaped, pipeVars, total, late, fileVars, rounds>>

\* Fault: what is left in the pipes of a process that is over is not read.
PollUndrained ==
  /\ pc = "poll"
  /\ reaped' = (leader = "ended")
  /\ Goto(IF leader = "ended" THEN "judge" ELSE "clock")
  /\ UNCHANGED <<mode, procVars, pipeVars, total, late, fileVars, detail, rounds>>

Poll ==
  /\ pc = "poll"
  /\ reaped' = (leader = "ended")
  /\ Goto(IF leader = "ended" THEN "finalize" ELSE "clock")
  /\ UNCHANGED <<mode, procVars, pipeVars, total, late, fileVars, detail, rounds>>

Clock ==
  /\ pc = "clock"
  /\ IF late THEN detail' = "late" /\ Goto("terminate")
             ELSE UNCHANGED detail /\ Goto("drain")
  /\ UNCHANGED <<mode, procVars, reaped, pipeVars, total, late, fileVars, rounds>>

\* One read of every pipe that has something.
Drained == [p \in Pipes |-> Least(written[p], total[p] + Chunk)]

Over(count) == \E p \in Pipes : count[p] > Emitted

Drain ==
  /\ pc = "drain"
  /\ total' = Drained
  /\ IF Over(total') THEN detail' = "over" /\ Goto("terminate")
     ELSE /\ UNCHANGED detail
          /\ Goto(IF mode = "host" THEN "watch" ELSE "poll")
  /\ UNCHANGED <<mode, procVars, reaped, pipeVars, late, fileVars, rounds>>

Watch ==
  /\ pc = "watch"
  /\ \/ file # "big" /\ UNCHANGED detail /\ Goto("poll")
     \/ file = "big" /\ detail' = "big" /\ Goto("terminate")
     \/ file # "absent" /\ detail' = "unreadable" /\ Goto("terminate")
  /\ UNCHANGED <<mode, procVars, reaped, pipeVars, total, late, fileVars, rounds>>
-----------------------------------------------------------------------------
(* _terminate_process_group, and the last reads.                           *)

\* The pipes are read to their end unless they could not be watched at all.
AfterEnd == IF detail # "pipes" THEN Goto("finalize") ELSE Return(Fault)

WaitOver(from, otherwise) ==
  /\ pc = from
  /\ \/ leader = "ended" /\ reaped' = TRUE /\ AfterEnd
     \/ UNCHANGED reaped /\ otherwise
  /\ UNCHANGED <<mode, procVars, pipeVars, total, late, fileVars, detail, rounds>>

Terminate ==
  /\ pc = "terminate"
  /\ reaped' = (leader = "ended")
  /\ IF leader = "ended" THEN AfterEnd ELSE Goto("term")
  /\ UNCHANGED <<mode, procVars, pipeVars, total, late, fileVars, detail, rounds>>

\* killpg with the process's number; that it is gone is passed over.
Signal(from, next) ==
  /\ pc = from /\ Goto(next)
  /\ UNCHANGED <<mode, procVars, reaped, pipeVars, total, late, fileVars, detail,
                 rounds>>

\* Fault: the rest of the group is killed although the process is over.
GraceKillsGroup ==
  /\ pc = "grace" /\ Goto("kill")
  /\ reaped' = (leader = "ended")
  /\ UNCHANGED <<mode, procVars, pipeVars, total, late, fileVars, detail, rounds>>

Term == Signal("term", "grace")

Grace == WaitOver("grace", Goto("kill"))

Kill == Signal("kill", "wait")

Wait == WaitOver("wait", AfterEnd)

\* Fault: the pipes are read until they end.
FinalizeToEnd ==
  /\ pc = "finalize"
  /\ total' = Drained
  /\ Goto(IF total' = total /\ leader = "ended" /\ descendant # "running"
          THEN "judge" ELSE "finalize")
  /\ UNCHANGED <<mode, procVars, reaped, pipeVars, late, fileVars, detail, rounds>>

\* The reads end with the first that finds nothing, or with the last allowed.
Finalize ==
  /\ pc = "finalize"
  /\ IF rounds = 0 THEN Goto("judge") /\ UNCHANGED <<total, rounds>>
     ELSE /\ total' = Drained /\ rounds' = rounds - 1
          /\ Goto(IF total' = total THEN "judge" ELSE "finalize")
  /\ UNCHANGED <<mode, procVars, reaped, pipeVars, late, fileVars, detail>>

-----------------------------------------------------------------------------
(* The verdict.                                                            *)

Keep == UNCHANGED <<mode, procVars, reaped, pipeVars, total, late, detail, rounds>>

JudgeControl ==
  /\ pc = "judge" /\ mode = "control"
  /\ Return(IF detail # "none" \/ Over(total) THEN "refused" ELSE "answer")
  /\ Keep /\ UNCHANGED fileVars

JudgeRouter ==
  /\ pc = "judge" /\ mode # "control"
  /\ IF detail = "unreadable" THEN Return("infrastructure")
     ELSE IF detail # "none" \/ Over(total) \/ code # 0 THEN Return("execution")
     ELSE Goto(IF mode = "isolated" THEN "extract" ELSE "output")
  /\ Keep /\ UNCHANGED fileVars

\* What the helper copies: one regular file within the limit.
Extractable == inside \notin {"absent", "big"}

\* Its exit code tells the participant's fault from the operator's.
Extract ==
  /\ pc = "extract"
  /\ \/ Extractable /\ file' = inside /\ Goto("output")
     \/ ~Extractable /\ UNCHANGED file /\ Return("execution")
     \/ UNCHANGED file /\ Return("infrastructure")
  /\ Keep /\ UNCHANGED inside

Output ==
  /\ pc = "output"
  /\ IF file = "absent" THEN Return("execution") ELSE Goto("size")
  /\ Keep /\ UNCHANGED fileVars

\* What is read may be replaced between two reads, by a descendant on the host.
Size ==
  /\ pc = "size"
  /\ \/ file = "big" /\ Return("execution")
     \/ file # "big" /\ Goto("digest")
     \/ Return("infrastructure")
  /\ Keep /\ UNCHANGED fileVars

\* Fault: this failure is taken for the participant's, like that of Load.
DigestCharged ==
  /\ pc = "digest"
  /\ Goto("load") \/ Return("execution")
  /\ Keep /\ UNCHANGED fileVars

Digest ==
  /\ pc = "digest"
  /\ Goto("load") \/ Return("infrastructure")
  /\ Keep /\ UNCHANGED fileVars

\* A stale output is a valid one: only its age is wrong.  That the operator cannot read
\* the file a last time (load_json makes it a ProtocolError) is a refusal like any other.
Load ==
  /\ pc = "load"
  /\ \/ /\ Return(IF file \in {"valid", "stale"} THEN "valid" ELSE "execution")
        /\ UNCHANGED detail
     \/ Return("execution") /\ detail' = "unread"
  /\ UNCHANGED <<mode, procVars, reaped, pipeVars, total, late, fileVars, rounds>>

Thread ==
  \/ Clear \/ Spawn \/ Prepare \/ Poll \/ Clock \/ Drain \/ Watch
  \/ Terminate \/ Term \/ Grace \/ Kill \/ Wait \/ Finalize
  \/ JudgeControl \/ JudgeRouter \/ Extract \/ Output \/ Size \/ Digest \/ Load

Next == Environment \/ DeadlinePasses \/ Thread

Spec == Init /\ [][Next]_vars

\* The thread runs and time passes; the process owes nothing.
FairSpec == Spec /\ WF_vars(Thread) /\ WF_vars(DeadlinePasses)

-----------------------------------------------------------------------------
(* Properties.                                                             *)

\* A process group is signalled only while the process has not been waited for:
\* afterwards its number may be somebody else's (_terminate_process_group).
SignalsOwnGroup == pc \in {"term", "kill"} => ~reaped

\* What is accepted was counted to the last byte the process wrote before it ended,
\* however late it was written, and is within the limit: a caller never parses half
\* an answer (_run_control_command, _finalize_pipe_capture).
AnswerIsWhole ==
  result \in {"answer", "valid"} =>
    \A p \in Pipes : last[p] <= total[p] /\ total[p] <= Emitted

\* A participant is charged only for a deadline that passed or a rule its process
\* broke, and credited only with an output of this attempt.  A failure of the operator's
\* is taken for neither, at whatever step, but one: that the output, which was there and
\* was read for its digest, cannot be read once more (_run_prepared_router_once).
VerdictIsFair ==
  /\ result = "execution" => late \/ wrong \/ detail = "unread"
  /\ result = "valid" => file # "stale"

\* The thread returns, whatever the process does: it may hang, ignore its signals,
\* write on for ever or leave its pipes to a descendant.
RunnerReturns == <>(pc = "done")
=============================================================================
