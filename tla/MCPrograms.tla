---------------------------- MODULE MCPrograms ----------------------------
(***************************************************************************)
(* The programs that run beside the official tier: a router makes a        *)
(* selection (BatchRouter), a selection is compared under other IDs        *)
(* (IdOrderAudit) and scored (SelfCheck), tied submissions are measured    *)
(* (TieBreak) and so are the reference routers (Benchmark).  In a          *)
(* behaviour of this module one of them runs while the others rest.        *)
(***************************************************************************)
EXTENDS IdOrderAudit, BatchRouter, SelfCheck, TieBreak, MCBenchmark

-----------------------------------------------------------------------------
(* Batches and artifacts of BatchRouter. *)

F(ch, code, math) ==
  [characters |-> ch, messages |-> 1, code |-> code, math |-> math, dense |-> FALSE,
   reasoning |-> FALSE, wordy |-> FALSE, formal |-> FALSE, program |-> code > 0,
   constraints |-> 0, transform |-> TRUE]

\* Episodes: short with little to gain, large, cheap with much to gain, and one
\* with equal predictions for two models.
EpShort == [score |-> <<4, 5, 6>>, cost |-> <<3, 6, 60>>, rank |-> <<3, 6, 50>>,
            features |-> F(400, 0, 1)]
EpLarge == [score |-> <<2, 4, 9>>, cost |-> <<20, 40, 450>>, rank |-> <<20, 45, 400>>,
            features |-> F(2500, 1, 0)]
EpTiny  == [score |-> <<1, 6, 9>>, cost |-> <<1, 2, 20>>, rank |-> <<1, 3, 18>>,
            features |-> F(600, 1, 2)]
EpEven  == [score |-> <<5, 5, 5>>, cost |-> <<4, 3, 2>>, rank |-> <<1, 1, 1>>,
            features |-> F(9000, 1, 2)]
EpFlat  == [score |-> <<0, 9, 10>>, cost |-> <<5, 11, 12>>, rank |-> <<9, 9, 9>>,
            features |-> F(500, 1, 2)]

MCBatch == {<<EpShort>>, <<EpFlat>>, <<EpTiny, EpLarge>>, <<EpEven, EpFlat>>,
            <<EpFlat, EpFlat>>, <<EpShort, EpTiny, EpLarge>>, <<EpTiny, EpTiny, EpEven>>,
            <<EpLarge, EpFlat, EpTiny>>}
MCWeighing == {[safety |-> 14, risk |-> <<20, 20, 80>>, highCap |-> 10, share |-> 14],
               [safety |-> 10, risk |-> <<20, 24, 80>>, highCap |-> 20, share |-> 18],
               [safety |-> 20, risk |-> <<20, 30, 40>>, highCap |-> 20, share |-> 20],
               [safety |-> 20, risk |-> <<20, 60, 20>>, highCap |-> 20, share |-> 20]}
MCLess == {4, 6, 12}
MCMultiple == <<1, 3, 33>>
MCBudget == [t \in Tier |-> CASE t = "fast" -> 25 [] t = "balanced" -> 40 [] t = "premium" -> 80]
MCWidths == {4, 5, 14, 15}

-----------------------------------------------------------------------------
(* Files of SelfCheck. *)

\* Files that go together, and then one of them in another form.
GoodInput == [readable |-> TRUE, fields |-> TRUE, version |-> 1, challenge |-> "c",
              split |-> "dev", episodes |-> <<Episode("a"), Episode("b")>>]
Answers(s) == [m \in ModelId |-> [score |-> s[m], generations |-> 1, input |-> m, output |-> m - 1]]
GoodOutcomes == [readable |-> TRUE, fields |-> TRUE, version |-> 1, challenge |-> "c",
                 split |-> "dev",
                 episodes |-> <<[id |-> "b", models |-> Answers(<<1, 3, 4>>)],
                                [id |-> "a", models |-> Answers(<<2, 3, 3>>)]>>]
GoodPolicy == [readable |-> TRUE, fields |-> TRUE, version |-> 1, policy |-> "v1",
               tokenUnit |-> 1000000, contextLimit |-> 1, light |-> Light,
               rates |-> [m \in ModelId |-> [fixed |-> 0, input |-> 2 * m - 1, output |-> m]],
               multiplier |-> [t \in Tier |-> CASE t = "fast" -> 4 [] t = "balanced" -> 18
                                                [] t = "premium" -> 90],
               weight |-> [t \in Tier |-> IF t = "premium" THEN 2 ELSE 1]]
Made(t, decisions) ==
  [readable |-> TRUE, fields |-> TRUE, version |-> 1, challenge |-> "c", split |-> "dev",
   policy |-> "v1", tier |-> t, decisions |-> decisions]
D(id, m) == [id |-> id, model |-> m]
GoodSubmission == [t \in Tier |-> Made(t, <<D("a", Light), D("b", Light)>>)]
GoodCase == [input |-> GoodInput, outcomes |-> GoodOutcomes, policy |-> GoodPolicy,
             submission |-> GoodSubmission]

OtherInputs ==
  {[GoodInput EXCEPT !.readable = FALSE], [GoodInput EXCEPT !.split = "train"],
   [GoodInput EXCEPT !.episodes = <<Episode("a"), Episode("a")>>],
   [GoodInput EXCEPT !.episodes = <<Episode("a"), [id |-> "b", shape |-> "both"]>>],
   [GoodInput EXCEPT !.episodes = <<Episode("a")>>],
   [GoodInput EXCEPT !.episodes = <<Episode("b"), Episode("a"), Episode("c")>>]}
OtherOutcomes ==
  {[GoodOutcomes EXCEPT !.fields = FALSE], [GoodOutcomes EXCEPT !.challenge = "d"],
   [GoodOutcomes EXCEPT !.episodes[1].models[High].score = 5],
   [GoodOutcomes EXCEPT !.episodes[1].id = "a"],
   [GoodOutcomes EXCEPT !.episodes = <<GoodOutcomes.episodes[1]>>],
   [GoodOutcomes EXCEPT !.episodes = Append(@, [id |-> "c", models |-> Answers(<<0, 0, 0>>)])]}
OtherPolicies ==
  {[GoodPolicy EXCEPT !.readable = FALSE], [GoodPolicy EXCEPT !.multiplier["fast"] = 0],
   [GoodPolicy EXCEPT !.multiplier["premium"] = 3], [GoodPolicy EXCEPT !.weight["fast"] = 2],
   [GoodPolicy EXCEPT !.rates[Light].input = 0], [GoodPolicy EXCEPT !.light = Mid],
   [GoodPolicy EXCEPT !.rates[Light].fixed = 1, !.rates[Mid].fixed = 2]}
OtherDecisions ==
  {<<D("b", m), D("a", n)>> : m, n \in ModelId}
    \cup {<<D("a", Light)>>, <<D("a", Light), D("c", Mid)>>, <<D("a", 4), D("b", Light)>>,
          <<D("a", Mid), D("b", Light), D("a", Light)>>,
          <<D("a", Light), D("b", Mid), D("c", Mid)>>}

MCCases ==
       {GoodCase}
  \cup {[GoodCase EXCEPT !.input = i] : i \in OtherInputs}
  \cup {[GoodCase EXCEPT !.outcomes = o] : o \in OtherOutcomes}
  \cup {[GoodCase EXCEPT !.policy = p] : p \in OtherPolicies}
  \cup {[GoodCase EXCEPT !.submission[t].decisions = d] : t \in Tier, d \in OtherDecisions}
  \cup {[GoodCase EXCEPT !.submission["balanced"].decisions = <<D("b", m), D("a", n)>>,
                         !.submission["premium"].decisions = <<D("b", k), D("a", l)>>] :
          m, n, k, l \in ModelId}
  \cup {[GoodCase EXCEPT !.submission[t].tier = u] : t, u \in Tier}
  \cup {[GoodCase EXCEPT !.submission["fast"].tier = "premium",
                         !.submission["premium"].tier = "fast",
                         !.submission["fast"].decisions[1].model = High]}

-----------------------------------------------------------------------------
(* Submissions of TieBreak. *)

Sub(id, usual) == [id |-> id, sound |-> TRUE, image |-> "fits", usual |-> usual]

MCFields ==
  {<<Sub("a", 12), Sub("b", 9)>>, <<Sub("a", 11), Sub("b", 11)>>,
   <<Sub("a", 14), Sub("b", 12), Sub("c", 14)>>,
   <<Sub("a", 14)>>, <<Sub("a", 14), Sub("a", 12)>>,
   <<Sub("a", 14), [Sub("b", 12) EXCEPT !.sound = FALSE]>>,
   <<Sub("a", 14), [Sub("b", 12) EXCEPT !.image = "large"]>>,
   <<[Sub("b", 12) EXCEPT !.image = "unknown"], Sub("a", 14)>>}

-----------------------------------------------------------------------------

\* An audit that is over: one episode, which cannot move.
AuditRests ==
  /\ stage = "done" /\ size = 1
  /\ router = CHOOSE r \in Router(1) : r.sees = "prompt"
  /\ ids = Same(1) /\ rows = Same(1)
  /\ official = router.answer /\ audited = router.answer /\ mismatches = {}

\* Two calls that are over.
RouterRests ==
  /\ LET c == Plain("prompt", "fast", <<EpShort>>, CHOOSE w \in MCWeighing : TRUE)
     IN calls = <<c, c>>
  /\ moved = <<1>> /\ turn = 2 /\ routing = "done"
  /\ low = 0 /\ high = 0 /\ left = 0 /\ locked = <<>> /\ chosen = <<>>
  /\ answers = <<<<Light>>, <<Light>>>> /\ output = 2 /\ temporary = "absent"
  /\ exited = <<0, 0>>

\* Commands that were all used up.
CommandsRest ==
  /\ file = [input |-> GoodInput, outcomes |-> [GoodOutcomes EXCEPT !.readable = FALSE],
             policy |-> GoodPolicy, submission |-> GoodSubmission, report |-> Emptied]
  /\ command = "none" /\ step = 0
  /\ past = [n \in 1..MaxCommands |-> <<"validate-input", 0>>]

\* A measurement with too few submissions.
MeasurerRests ==
  /\ field = <<Sub("a", 14)>> /\ phase = "over" /\ ended = 2
  /\ tierAt = 1 /\ repetition = 0 /\ position = 1 /\ troubles = 0
  /\ taken = NothingTaken /\ journals = {} /\ record = <<>> /\ mishaps = 0

\* A benchmark whose runs were all used up.
BenchRests ==
  /\ tree = MaxEdits + 1 /\ quirk = [c \in 1..Cells |-> "none"]
  /\ invocation = MaxInvocations /\ bench = "idle"
  /\ manifest = 0 /\ options = NoOptions /\ outcomes = <<>>
  /\ pair = [p \in Path |-> 0] /\ found = pair
  /\ durable = [paths |-> [p \in Path |-> {0}], marker |-> {FALSE}]
  /\ backup = pair /\ marker = FALSE
  /\ todo = <<>> /\ unnoted = {} /\ gaps = {} /\ faults = MaxFaults

ProgramsInit ==
  \/ Init /\ RouterRests /\ CommandsRest /\ MeasurerRests /\ BenchRests
  \/ AuditRests /\ RouteInit /\ CommandsRest /\ MeasurerRests /\ BenchRests
  \/ AuditRests /\ RouterRests /\ CheckInit /\ MeasurerRests /\ BenchRests
  \/ AuditRests /\ RouterRests /\ CommandsRest /\ LatencyInit /\ BenchRests
  \/ AuditRests /\ RouterRests /\ CommandsRest /\ MeasurerRests /\ BenchInit

ProgramsNext ==
  \/ Next /\ UNCHANGED <<routeVars, checkVars, latencyVars, benchVars>>
  \/ RouteNext /\ UNCHANGED <<vars, checkVars, latencyVars, benchVars>>
  \/ CheckNext /\ UNCHANGED <<vars, routeVars, latencyVars, benchVars>>
  \/ LatencyNext /\ UNCHANGED <<vars, routeVars, checkVars, benchVars>>
  \/ BenchNext /\ UNCHANGED <<vars, routeVars, checkVars, latencyVars>>

ProgramsSpec ==
  ProgramsInit
    /\ [][ProgramsNext]_<<vars, routeVars, checkVars, latencyVars, benchVars>>
=============================================================================
