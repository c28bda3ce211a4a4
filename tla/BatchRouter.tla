---------------------------- MODULE BatchRouter ----------------------------
(***************************************************************************)
(* One process of a router, from its artifact to the submission file: the  *)
(* team router of heuristic.py (the container's entry point), the prompt   *)
(* heuristic, the baselines hash_regex and feature_budget, and the copies  *)
(* of the team router's rule that training/ evaluates.  Two calls that a   *)
(* reader would expect to be related are carried out one after the other:  *)
(* the same batch with less to spend, in another order, or by a copy.      *)
(*                                                                         *)
(* Numbers are exact: ratios are counted in 1/Unit, scores in 1/ScoreUnit, *)
(* penalties in 1/Grain.  Grain is a multiple of 2^Halvings, so that the   *)
(* midpoints of the search are exact, as they are in binary floating point.*)
(***************************************************************************)
EXTENDS Protocol

CONSTANTS
  Batch,          \* batches: sequences of episodes, each with what is predicted for it
  Weighing,       \* what an artifact says beside its predictors: safety, risk, caps
  Less,           \* the safety ratios a second call may have instead
  Unit, ScoreUnit, Grain,
  Ceiling,        \* the penalty at which doubling stops: 2^40 or 2^60
  Halvings,       \* bisection steps of the team router: 40
  HashHalvings,   \* bisection steps of hash_regex: 80
  CopyHalvings,   \* bisection steps of training/: 60
  MultipleBound,  \* _TEAM_MULTIPLE_BOUND
  Budget,         \* the budget multiplier of each tier
  FillSafety,     \* PREMIUM_AX31_FILL_SAFETY_RATIO
  FeatureSafety,  \* SAFETY_RATIO of feature_budget
  MidMultiplier,  \* ax31's largest token rate relative to the light model's
  MaxPriority,
  Dense, Frequencies, Bins, Widths    \* shapes of artifacts

ASSUME ShapeAssumption ==
  /\ Dense \in Nat /\ Frequencies \in Nat
  /\ Bins \subseteq Nat /\ Bins # {}

\* The policy an artifact is made for, the only one it is used with, multiplies
\* by at least one, and training/ halves more often.
ASSUME NumbersAssumption ==
  /\ {Unit, ScoreUnit, Grain, Ceiling, Halvings, HashHalvings, CopyHalvings,
      MaxPriority} \subseteq Nat
  /\ Halvings <= CopyHalvings
  /\ {FillSafety, FeatureSafety, MidMultiplier} \subseteq Int
  /\ MultipleBound \in [ModelId -> Int]
  /\ Budget \in [Tier -> Nat] /\ \A t \in Tier : Unit <= Budget[t]

\* What is predicted for an episode, and what is counted in its text.
Predicted ==
  [score : [ModelId -> Int], cost : [ModelId -> Nat], rank : [ModelId -> Nat],
   features : [characters : Nat, messages : Nat, code : Nat, math : Nat, dense : BOOLEAN,
               reasoning : BOOLEAN, wordy : BOOLEAN, formal : BOOLEAN, program : BOOLEAN,
               constraints : Nat, transform : BOOLEAN]]

\* parse_input refuses a batch without episodes; the ratios and risks of the
\* shipped artifact are not negative.
ASSUME BatchesAssumption ==
  /\ Batch # {} /\ \A b \in Batch : b \in Seq(Predicted) /\ b # <<>>
  /\ Weighing # {}
  /\ Weighing \subseteq [safety : Nat, risk : [ModelId -> Nat], highCap : Nat, share : Int]
  /\ Less \subseteq Nat

VARIABLES
  calls,      \* the two calls
  moved,      \* the episode of the first call at each place of the second
  turn,       \* the call under way
  routing,    \* where it is
  low, high,  \* the penalties the search is between
  left,       \* bisection steps left, or the next priority of feature_budget
  locked,     \* fill_ax31_upgrades: the choices it may not lower
  chosen,     \* the model chosen for each episode
  answers,    \* what the finished calls chose
  output,     \* the submission file: the call whose answer it has, or 0
  temporary,  \* the file beside it
  exited      \* the exit codes of the finished calls

routeVars == <<calls, moved, turn, routing, low, high, left, locked, chosen, answers,
               output, temporary, exited>>

Places(c) == 1..Len(c.rows)
AllLight(c) == [i \in Places(c) |-> Light]

Greater(a, b) == IF a > b THEN a ELSE b

\* cost_from: a larger model costs more than a smaller one, if only by a factor
\* of 1 + 1e-12, the least step of this model.
Raised(raw) ==
  LET mid == Greater(raw[Mid], raw[Light] + 1)
  IN <<raw[Light], mid, Greater(raw[High], mid + 1)>>

\* hash_regex has one prediction of the costs, the team router another one to
\* compare episodes with.
CostOf(c, i) == Raised(c.rows[i].cost)
RankOf(c, i) == Raised(IF c.rule = "hash" THEN c.rows[i].cost ELSE c.rows[i].rank)

Cost(c, sel) == Sum([i \in Places(c) |-> CostOf(c, i)[sel[i]]])
LightCost(c) == Sum([i \in Places(c) |-> CostOf(c, i)[Light]])
RankLight(c) == Sum([i \in Places(c) |-> RankOf(c, i)[Light]])

-----------------------------------------------------------------------------
(* Artifacts: the widths of their vectors against that of the features. *)

RawWidth(c) ==
  IF c.rule = "team" THEN Dense + c.artifact.bins + 1 ELSE Dense + c.artifact.bins

FeatureWidth(c) ==
  IF c.rule = "team" THEN RawWidth(c) + 2 * Frequencies * Dense ELSE RawWidth(c)

\* Fault: the column of the hash block's norm is forgotten.
ExpectedWidthNoNorm(c) ==
  IF c.rule = "team"
  THEN Dense * (1 + 2 * Frequencies) + c.artifact.bins
  ELSE Dense + c.artifact.bins

\* What the parsers of the two artifacts take for the width of a vector.
ExpectedWidth(c) ==
  IF c.rule = "team"
  THEN Dense * (1 + 2 * Frequencies) + c.artifact.bins + 1
  ELSE Dense + c.artifact.bins

\* _team_parse_artifact, parse_artifact and the comparison with the policy: the
\* same features, hash, models and policy, and vectors of the expected width.
Accepts(c) ==
  \/ c.rule \in {"prompt", "feature", "copy", "calibrate"}
  \/ /\ c.artifact.same
     /\ \A v \in DOMAIN c.artifact.width : c.artifact.width[v] = ExpectedWidth(c)

Fits(c) == \A v \in DOMAIN c.artifact.width : c.artifact.width[v] = FeatureWidth(c)

-----------------------------------------------------------------------------
(* prompt heuristic and feature_budget: features of a prompt. *)

LongContext(f) == f.characters >= 8000

Complexity(f) ==
    (IF f.characters >= 500 THEN 1 ELSE 0)
  + (IF f.characters >= 2000 THEN 1 ELSE 0)
  + (IF LongContext(f) THEN 2 ELSE 0)
  + (IF f.messages >= 3 THEN 1 ELSE 0)
  + (IF f.code > 0 THEN 2 ELSE 0)
  + (IF f.math >= 2 \/ f.dense THEN 2 ELSE IF f.math = 1 THEN 1 ELSE 0)
  + (IF f.reasoning THEN 1 ELSE 0)
  + (IF f.wordy THEN 1 ELSE 0)

Selected(f, tier) ==
  CASE tier = "premium" -> Mid
    [] tier = "fast" -> IF Complexity(f) >= 3 /\ ~LongContext(f) THEN Mid ELSE Light
    [] tier = "balanced" -> IF Complexity(f) >= 2 /\ ~LongContext(f) THEN Mid ELSE Light

Priority(f) ==
  LET marked == Complexity(f) + (IF f.formal THEN 2 ELSE 0)
                  + (IF f.program THEN 2 ELSE 0) + (IF f.constraints >= 2 THEN 1 ELSE 0)
      simple == f.characters < 500 /\ marked <= 2 /\ f.transform
  IN Greater(0, IF simple THEN marked - 1 ELSE marked)

Weight(c, i) == Greater(1, c.rows[i].features.characters)

MinimumPriority(tier) ==
  CASE tier = "fast" -> 5 [] tier = "balanced" -> 2 [] tier = "premium" -> 0

Surrogate(c, sel) ==
  Sum([i \in Places(c) |-> Weight(c, i) * (IF sel[i] = Light THEN Unit ELSE MidMultiplier)])

Affordable(c, sel) ==
  Surrogate(c, sel) * Unit * Unit
    <= Surrogate(c, AllLight(c)) * Budget[c.tier] * FeatureSafety

\* Fault: of a group only the first episode is upgraded.
GroupFirst(c, sel, p) ==
  LET g == {i \in Places(c) : Priority(c.rows[i].features) = p /\ sel[i] = Light}
  IN {i \in g : \A j \in g : i <= j}

Group(c, sel, p) == {i \in Places(c) : Priority(c.rows[i].features) = p /\ sel[i] = Light}

Lifted(c, sel, p) == [i \in Places(c) |-> IF i \in Group(c, sel, p) THEN Mid ELSE sel[i]]

-----------------------------------------------------------------------------
(* The choice at a penalty, and its limits. *)

\* The score of each model for an episode, less its penalised share of what the
\* batch costs by the light model.
Values(c, i, penalty, light) ==
  [m \in ModelId |->
       c.rows[i].score[m] * Grain * Unit * light
     - penalty * (IF c.rule = "hash" THEN Unit ELSE c.risk[m]) * RankOf(c, i)[m] * ScoreUnit]

\* The first model in the order of MODEL_IDS among the best.
Best(values) ==
  CHOOSE m \in ModelId :
    \A k \in ModelId : values[m] > values[k] \/ (values[m] = values[k] /\ m <= k)

\* fill_ax31_upgrades: a light choice becomes ax31 when it still gains.
Filled(c, i, model, penalty) ==
  IF /\ model = Light
     /\ (c.rows[i].score[Mid] - c.rows[i].score[Light]) * Grain * LightCost(c)
          > penalty * (CostOf(c, i)[Mid] - CostOf(c, i)[Light]) * ScoreUnit
  THEN Mid ELSE model

Choose(c, lock, penalty) ==
  LET light == RankLight(c)
  IN [i \in Places(c) |->
        IF lock = <<>> THEN Best(Values(c, i, penalty, light))
        ELSE Filled(c, i, lock[i], penalty)]

\* Each limit is multiplied by the units of its ratios.
Cap(c) == LightCost(c) * (Unit * Unit + (Budget[c.tier] - Unit) * c.safety)

OverCap(c, sel) == Cost(c, sel) * Unit * Unit > Cap(c)

OverHighCap(c, sel) ==
  Sum([i \in Places(c) |-> IF sel[i] = High THEN CostOf(c, i)[High] ELSE 0])
    * Unit * Unit * Unit > Cap(c) * c.highCap

OverShare(c, sel) ==
  Sum([i \in Places(c) |->
         IF sel[i] = Light THEN 0 ELSE (MultipleBound[sel[i]] - 1) * CostOf(c, i)[Light]])
    * Unit * Unit > (Budget[c.tier] - Unit) * c.share * LightCost(c)

\* hash_regex: the whole multiplier is scaled, but never below all-light.
OverScaled(c, safety, sel, atLeast) ==
  Cost(c, sel) * Unit * Unit >
    Greater(atLeast * Unit * Unit,
            LightCost(c) * Greater(Unit * Unit, Budget[c.tier] * safety))

\* calibrate_safety.allocate_vectorized has no share of the excess.
Violates(c, lock, sel) ==
  CASE c.rule = "hash" -> IF lock = <<>> THEN OverScaled(c, c.safety, sel, 0)
                          ELSE OverScaled(c, FillSafety, sel, Cost(c, lock))
    [] c.rule \in {"team", "copy"} ->
         OverCap(c, sel) \/ OverHighCap(c, sel) \/ OverShare(c, sel)
    [] c.rule = "calibrate" -> OverCap(c, sel) \/ OverHighCap(c, sel)

\* What is answered when no penalty meets the limits.
Fallback(c, lock) == IF lock = <<>> THEN AllLight(c) ELSE lock

Steps(c) ==
  CASE c.rule = "team" -> Halvings
    [] c.rule = "hash" -> HashHalvings
    [] c.rule \in {"copy", "calibrate"} -> CopyHalvings

-----------------------------------------------------------------------------
(* The pairs of calls. *)

Permuted(rows, f) == [i \in 1..Len(rows) |-> rows[f[i]]]

Orders(rows) ==
  {f \in [1..Len(rows) -> 1..Len(rows)] :
     \A i, j \in 1..Len(rows) : f[i] = f[j] => i = j}

InOrder(rows) == [i \in 1..Len(rows) |-> i]

Vectors == {"mean", "head"}

\* A call under an artifact made for this code.
Plain(rule, tier, rows, w) ==
  LET bins  == CHOOSE b \in Bins : TRUE
      blank == [rule |-> rule, tier |-> tier, rows |-> rows,
                safety |-> w.safety, risk |-> w.risk, highCap |-> w.highCap,
                share |-> w.share,
                artifact |-> [bins |-> bins, same |-> TRUE,
                              width |-> [v \in Vectors |-> 0]]]
  IN [blank EXCEPT !.artifact.width = [v \in Vectors |-> FeatureWidth(blank)]]

\* The same batch with less to spend.
LessToSpend ==
  \E r \in {"team", "copy"}, t \in Tier, b \in Batch, w \in Weighing, s \in Less :
    /\ s < w.safety
    /\ calls = <<Plain(r, t, b, w), [Plain(r, t, b, w) EXCEPT !.safety = s]>>
    /\ moved = InOrder(b)

\* The same batch by a copy of the rule and by the router.
CopyFirst ==
  \E r \in {"copy", "calibrate"}, t \in Tier, b \in Batch, w \in Weighing :
    /\ calls = <<Plain(r, t, b, w), Plain("team", t, b, w)>>
    /\ moved = InOrder(b)

\* The same batch in another order.
Reordered ==
  \E r \in {"team", "hash", "prompt", "feature"}, t \in Tier, b \in Batch, w \in Weighing :
    \E f \in Orders(b) :
      /\ calls = <<Plain(r, t, b, w), Plain(r, t, Permuted(b, f), w)>>
      /\ moved = f

\* A batch under any artifact, made for this code or not.
UnderArtifact(r, n, same, width) ==
  [Plain(r, "fast", CHOOSE b \in Batch : TRUE, CHOOSE w \in Weighing : TRUE) EXCEPT
     !.artifact = [bins |-> n, same |-> same, width |-> width]]

Shaped ==
  \E r \in {"team", "hash"}, n \in Bins, same \in BOOLEAN, width \in [Vectors -> Widths] :
    /\ calls = <<UnderArtifact(r, n, same, width), UnderArtifact(r, n, same, width)>>
    /\ moved = InOrder(calls[1].rows)

Fresh ==
  /\ turn = 1 /\ routing = "load"
  /\ low = 0 /\ high = 0 /\ left = 0
  /\ locked = <<>> /\ chosen = <<>> /\ answers = <<>>
  /\ output = 0 /\ temporary = "absent" /\ exited = <<>>

RouteInit == (LessToSpend \/ CopyFirst \/ Reordered \/ Shaped) /\ Fresh

-----------------------------------------------------------------------------
(* One call. *)

Now == calls[turn]

\* A refusal, or a failure to write, ends the process with exit code 2.
Ended(code) ==
  /\ exited' = Append(exited, code)
  /\ routing' = "ended"

\* load_input, the artifact's parser and the comparison with the policy.
Load ==
  /\ routing = "load"
  /\ IF Accepts(Now)
     THEN routing' = "predict" /\ UNCHANGED exited
     ELSE Ended(2)
  /\ UNCHANGED <<calls, moved, turn, low, high, left, locked, chosen, answers,
                 output, temporary>>

\* The baseline's zip stops at the shorter vector and says nothing.
Predict ==
  /\ routing = "predict"
  /\ IF Now.rule = "team" /\ ~Fits(Now)
     THEN Ended(2)
     ELSE /\ routing' = CASE Now.rule = "prompt"  -> "prompt"
                          [] Now.rule = "feature" -> "feature"
                          [] OTHER -> "route"
          /\ UNCHANGED exited
  /\ chosen' = AllLight(Now)
  /\ left' = MaxPriority
  /\ UNCHANGED <<calls, moved, turn, low, high, locked, answers, output, temporary>>

\* select_model for every episode.
SelectByPrompt ==
  /\ routing = "prompt"
  /\ chosen' = [i \in Places(Now) |-> Selected(Now.rows[i].features, Now.tier)]
  /\ routing' = "write"
  /\ UNCHANGED <<calls, moved, turn, low, high, left, locked, answers, output,
                 temporary, exited>>

\* _upgrade_groups: the groups of equal priority, from the highest down.
UpgradeGroup ==
  /\ routing = "feature" /\ left >= MinimumPriority(Now.tier)
  /\ chosen' = IF Affordable(Now, Lifted(Now, chosen, left))
               THEN Lifted(Now, chosen, left) ELSE chosen
  /\ left' = left - 1
  /\ UNCHANGED <<calls, moved, turn, routing, low, high, locked, answers, output,
                 temporary, exited>>

UpgradesDone ==
  /\ routing = "feature" /\ left < MinimumPriority(Now.tier)
  /\ routing' = "write"
  /\ UNCHANGED <<calls, moved, turn, low, high, left, locked, chosen, answers,
                 output, temporary, exited>>

\* Without a penalty, then with one of 1.
Route ==
  /\ routing = "route"
  /\ IF Violates(Now, locked, Choose(Now, locked, 0))
     THEN /\ low' = 0 /\ high' = Grain
          /\ chosen' = Choose(Now, locked, Grain)
          /\ routing' = "double"
     ELSE /\ chosen' = Choose(Now, locked, 0)
          /\ routing' = "settle"
          /\ UNCHANGED <<low, high>>
  /\ UNCHANGED <<calls, moved, turn, left, locked, answers, output, temporary, exited>>

Double ==
  /\ routing = "double"
  /\ Violates(Now, locked, chosen) /\ high < Ceiling
  /\ low' = high
  /\ high' = 2 * high
  /\ chosen' = Choose(Now, locked, 2 * high)
  /\ UNCHANGED <<calls, moved, turn, routing, left, locked, answers, output,
                 temporary, exited>>

Bisect ==
  /\ routing = "double"
  /\ ~Violates(Now, locked, chosen) \/ high >= Ceiling
  /\ left' = Steps(Now)
  /\ routing' = "halve"
  /\ UNCHANGED <<calls, moved, turn, low, high, locked, chosen, answers, output,
                 temporary, exited>>

Middle == (low + high) \div 2

\* Fault: the last candidate is kept although it violates the limits.
HalveCareless ==
  /\ routing = "halve" /\ left > 0
  /\ left' = left - 1
  /\ chosen' = Choose(Now, locked, Middle)
  /\ IF Violates(Now, locked, Choose(Now, locked, Middle))
     THEN low' = Middle /\ UNCHANGED high
     ELSE high' = Middle /\ UNCHANGED low
  /\ UNCHANGED <<calls, moved, turn, routing, locked, answers, output, temporary, exited>>

Halve ==
  /\ routing = "halve" /\ left > 0
  /\ left' = left - 1
  /\ IF Violates(Now, locked, Choose(Now, locked, Middle))
     THEN low' = Middle /\ UNCHANGED <<high, chosen>>
     ELSE high' = Middle /\ chosen' = Choose(Now, locked, Middle) /\ UNCHANGED low
  /\ UNCHANGED <<calls, moved, turn, routing, locked, answers, output, temporary, exited>>

Halved ==
  /\ routing = "halve" /\ left = 0
  /\ routing' = "settle"
  /\ UNCHANGED <<calls, moved, turn, low, high, left, locked, chosen, answers,
                 output, temporary, exited>>

\* Without any penalty that meets the limits the cheapest choice is taken.
Met == IF Violates(Now, locked, chosen) THEN Fallback(Now, locked) ELSE chosen

\* The premium tier of hash_regex goes on with what it chose locked.
Settle ==
  /\ routing = "settle"
  /\ chosen' = Met
  /\ IF Now.rule = "hash" /\ Now.tier = "premium" /\ locked = <<>>
     THEN locked' = Met /\ routing' = "route"
     ELSE routing' = "write" /\ UNCHANGED locked
  /\ UNCHANGED <<calls, moved, turn, low, high, left, answers, output, temporary, exited>>

\* The copies of the rule in training/ only return the choice.
Return ==
  /\ routing = "write" /\ Now.rule \in {"copy", "calibrate"}
  /\ Ended(0)
  /\ UNCHANGED <<calls, moved, turn, low, high, left, locked, chosen, answers, output,
                 temporary>>

\* write_submission_atomic: a file beside the output is filled and renamed; it is
\* removed again when a step fails.
OpenTemporary ==
  /\ routing = "write" /\ Now.rule \notin {"copy", "calibrate"}
  /\ temporary' = "partial"
  /\ routing' = "filling"
  /\ UNCHANGED <<calls, moved, turn, low, high, left, locked, chosen, answers, output, exited>>

FillTemporary ==
  /\ routing = "filling"
  /\ temporary' = "whole"
  /\ routing' = "replace"
  /\ UNCHANGED <<calls, moved, turn, low, high, left, locked, chosen, answers, output, exited>>

Replace ==
  /\ routing = "replace"
  /\ output' = turn /\ temporary' = "absent"
  /\ Ended(0)
  /\ UNCHANGED <<calls, moved, turn, low, high, left, locked, chosen, answers>>

WritingFails ==
  /\ routing \in {"filling", "replace"}
  /\ temporary' = "absent"
  /\ Ended(2)
  /\ UNCHANGED <<calls, moved, turn, low, high, left, locked, chosen, answers, output>>

\* The container is killed: nothing removes the file beside the output.
Killed ==
  /\ routing \in {"filling", "replace"}
  /\ Ended(137)
  /\ UNCHANGED <<calls, moved, turn, low, high, left, locked, chosen, answers, output,
                 temporary>>

\* The next call begins where this one ended.
NextCall ==
  /\ routing = "ended"
  /\ answers' = Append(answers, chosen)
  /\ chosen' = <<>> /\ locked' = <<>>
  /\ low' = 0 /\ high' = 0 /\ left' = 0
  /\ IF turn = 1 THEN turn' = 2 /\ routing' = "load"
     ELSE routing' = "done" /\ UNCHANGED turn
  /\ UNCHANGED <<calls, moved, output, temporary, exited>>

RouteNext ==
  \/ Load \/ Predict \/ SelectByPrompt \/ UpgradeGroup \/ UpgradesDone
  \/ Route \/ Double \/ Bisect \/ Halve \/ Halved \/ Settle
  \/ Return \/ OpenTemporary \/ FillTemporary \/ Replace \/ WritingFails \/ Killed
  \/ NextCall

RouteSpec == RouteInit /\ [][RouteNext]_routeVars

-----------------------------------------------------------------------------
(* Properties. *)

\* A search over a jump in the costs still ends on the right side: its lower end
\* always breaks a limit and its upper end is the penalty of the choice at hand,
\* and what is answered meets every limit or is the fallback.
Searched ==
  /\ routing \in {"double", "halve"} =>
       /\ chosen = Choose(Now, locked, high)
       /\ Violates(Now, locked, Choose(Now, locked, low))
  /\ routing = "write" /\ Now.rule \notin {"prompt", "feature"} =>
       \/ ~Violates(Now, locked, chosen)
       \/ chosen = Fallback(Now, locked)
  /\ routing = "write" /\ Now.rule = "feature" =>
       Affordable(Now, chosen) \/ chosen = AllLight(Now)

Answered == routing = "done" /\ \A k \in 1..2 : Len(answers[k]) = Len(calls[k].rows)

\* Risks that grow with the model, as those of the shipped artifact do.
Ascending(c) == c.risk[Light] <= c.risk[Mid] /\ c.risk[Mid] <= c.risk[High]

\* With less to spend, or by the router where a copy of training/ was asked
\* before, no episode gets a more expensive model: what is calibrated never spends
\* less than what is shipped, and a curve over the safety ratio has no dips.
OnlyDown ==
  Answered /\ calls[1].rule \in {"team", "copy", "calibrate"} /\ Ascending(calls[1])
    /\ moved = InOrder(calls[1].rows)
    => \A i \in Places(calls[1]) : answers[2][i] <= answers[1][i]

\* The same episodes in another order get the same models from every router.
OrderBlind ==
  Answered /\ calls[2].rows = Permuted(calls[1].rows, moved)
    /\ calls[2].safety = calls[1].safety /\ calls[2].rule = calls[1].rule
    => \A i \in Places(calls[1]) : answers[2][i] = answers[1][moved[i]]

\* An artifact that is accepted fits the features: prediction neither fails later
\* nor loses a coefficient in silence.
AcceptedFits ==
  routing \notin {"load", "ended", "done"} /\ Now.rule \in {"team", "hash"} => Fits(Now)

=============================================================================
