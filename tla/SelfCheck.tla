----------------------------- MODULE SelfCheck -----------------------------
(***************************************************************************)
(* The public command line (cli.py) over one set of files: validate-input, *)
(* always-light, which writes a submission per tier, and self-check, which *)
(* scores them (scoring.py).  Files are written in place, one after the    *)
(* other, so that a command that dies leaves a torn file or a set of old   *)
(* and new ones.                                                           *)
(*                                                                         *)
(* Scores and weights are counted in 1/Whole, multipliers in 1/Ratio, and  *)
(* the scores of a report in 1/Quantum (12 decimal places in the code).    *)
(***************************************************************************)
EXTENDS Protocol

CONSTANTS
  Cases,        \* what the files may be at first
  Whole, Ratio, Quantum,
  MaxCommands

ASSUME UnitsAssumption ==
  Whole \in Nat \ {0} /\ Ratio \in Nat \ {0} /\ Quantum \in Nat \ {0}

ASSUME CasesAssumption ==
  \A c \in Cases :
    /\ InputTyped(c.input) /\ OutcomesTyped(c.outcomes, Whole) /\ PolicyTyped(c.policy, Whole)
    /\ DOMAIN c.submission = Tier /\ \A t \in Tier : SubmissionTyped(c.submission[t])

VARIABLES
  file,         \* input, outcomes, policy, the submission of each tier, the report
  command, step,
  past          \* the commands so far and their exit codes

checkVars == <<file, command, step, past>>

SubmissionOf(t) == file.submission[t]

-----------------------------------------------------------------------------
(* scoring.py *)

\* ROUND_HALF_EVEN
HalfEven(n, d) ==
  LET q == n \div d
      r == n % d
  IN IF 2 * r > d \/ (2 * r = d /\ q % 2 = 1) THEN q + 1 ELSE q

ResultCost(r, rates, policy) ==
  rates.fixed * policy.tokenUnit + r.input * rates.input + r.output * rates.output

Matching(d, i) == d.version = i.version /\ d.challenge = i.challenge /\ d.split = i.split

SharedMetadata(i, o, subs, p) ==
  /\ i.version = p.version
  /\ Matching(o, i)
  /\ \A t \in Tier : Matching(subs[t], i) /\ subs[t].policy = p.policy

\* An outcome for every model and every episode of the input, and none besides.
MatrixComplete(i, o) == Ids(o.episodes) = Ids(i.episodes)

DecidesAll(i, sub) == Ids(sub.decisions) = Ids(i.episodes)

\* decisions: a dictionary, where the last entry of an ID counts.
Decided(sub, id) ==
  LET at == CHOOSE k \in 1..Len(sub.decisions) :
              /\ sub.decisions[k].id = id
              /\ \A l \in k + 1..Len(sub.decisions) : sub.decisions[l].id # id
  IN sub.decisions[at].model

Outcome(o, id, m) ==
  LET at == CHOOSE k \in 1..Len(o.episodes) : o.episodes[k].id = id
  IN o.episodes[at].models[m]

\* Over the episodes of the input, of which each has the chosen model.
TotalCost(i, o, p, choice) ==
  Sum([k \in 1..Len(i.episodes) |->
         LET id == i.episodes[k].id
         IN ResultCost(Outcome(o, id, choice[id]), p.rates[choice[id]], p)])

LightTotal(i, o, p) == TotalCost(i, o, p, [id \in Ids(i.episodes) |-> p.light])

Spent(i, o, sub, p) ==
  TotalCost(i, o, p, [id \in Ids(i.episodes) |-> Decided(sub, id)])

Quality(i, o, sub) ==
  Sum([k \in 1..Len(i.episodes) |->
         Outcome(o, i.episodes[k].id, Decided(sub, i.episodes[k].id)).score])

\* Fault: a choice that costs the whole budget is over it.
UnderBudget(i, o, sub, p, t) == Spent(i, o, sub, p) * Ratio < LightTotal(i, o, p) * p.multiplier[t]

InBudget(i, o, sub, p, t) == Spent(i, o, sub, p) * Ratio <= LightTotal(i, o, p) * p.multiplier[t]

\* _score_tier
TierReport(i, o, sub, p, t) ==
  LET quality == Quality(i, o, sub)
      points == IF InBudget(i, o, sub, p, t) THEN quality ELSE 0
  IN [passed |-> InBudget(i, o, sub, p, t),
      counts |-> [m \in ModelId |->
                    Sum([k \in 1..Len(sub.decisions) |->
                           IF Decided(sub, sub.decisions[k].id) = m THEN 1 ELSE 0])],
      cost |-> Spent(i, o, sub, p),
      points |-> points,
      score |-> HalfEven(points * Quantum, Len(i.episodes) * Whole)]

\* The file of a tier is known by what it says, not by its name.
OfTier(subs, t) == subs[CHOOSE n \in Tier : subs[n].tier = t]

\* ScoringError
Scorable(i, o, subs, p) ==
  /\ {subs[n].tier : n \in Tier} = Tier
  /\ SharedMetadata(i, o, subs, p)
  /\ MatrixComplete(i, o)
  /\ \A t \in Tier : DecidesAll(i, subs[t])
  /\ LightTotal(i, o, p) > 0

\* final_score: the exact points are weighted and rounded once.
Final(i, reports, p) ==
  HalfEven(Sum([k \in 1..3 |-> reports[TIERS[k]].points * p.weight[TIERS[k]]]) * Quantum,
           Len(i.episodes) * Whole * Whole)

\* score_submissions
Scored(i, o, subs, p) ==
  LET reports == [t \in Tier |-> TierReport(i, o, OfTier(subs, t), p, t)]
  IN [readable |-> TRUE, tiers |-> reports, final |-> Final(i, reports, p)]

-----------------------------------------------------------------------------
(* cli.py *)

\* A file that was opened for writing, or is not there.
Emptied == [readable |-> FALSE]

CheckInit ==
  /\ \E c \in Cases :
       file = [input |-> c.input, outcomes |-> c.outcomes, policy |-> c.policy,
               submission |-> c.submission, report |-> Emptied]
  /\ command = "none" /\ step = 0 /\ past = <<>>

CommandEnds(code) ==
  /\ past' = Append(past, <<command, code>>)
  /\ command' = "none" /\ step' = 0

Enter ==
  /\ command = "none" /\ Len(past) < MaxCommands
  /\ command' \in {"validate-input", "always-light", "self-check"}
  /\ UNCHANGED <<file, step, past>>

ValidateInput ==
  /\ command = "validate-input"
  /\ CommandEnds(IF InputParses(file.input) THEN 0 ELSE 2)
  /\ UNCHANGED file

\* The files a command reads, before it writes the first.
AlwaysLightReads ==
  /\ command = "always-light" /\ step = 0
  /\ IF /\ InputParses(file.input) /\ PolicyParses(file.policy, Whole)
        /\ file.input.version = file.policy.version
     THEN step' = 1 /\ UNCHANGED <<command, past>>
     ELSE CommandEnds(2)
  /\ UNCHANGED file

\* The light model is the one the policy names.
LightSubmission(t) ==
  [readable |-> TRUE, fields |-> TRUE, version |-> file.input.version,
   challenge |-> file.input.challenge, split |-> file.input.split,
   policy |-> file.policy.policy, tier |-> t,
   decisions |-> [k \in 1..Len(file.input.episodes) |->
                    [id |-> file.input.episodes[k].id, model |-> file.policy.light]]]

\* write_json opens the file for writing, which empties it, and fills it.  Odd
\* steps open, even ones fill.
OpenSubmission ==
  /\ command = "always-light" /\ step \in {1, 3, 5}
  /\ file' = [file EXCEPT !.submission[TIERS[(step + 1) \div 2]] = Emptied]
  /\ step' = step + 1
  /\ UNCHANGED <<command, past>>

FillSubmission ==
  /\ command = "always-light" /\ step \in {2, 4, 6}
  /\ LET t == TIERS[step \div 2]
     IN file' = [file EXCEPT !.submission[t] = LightSubmission(t)]
  /\ IF step = 6 THEN CommandEnds(0)
     ELSE step' = step + 1 /\ UNCHANGED <<command, past>>

Loaded ==
  /\ InputParses(file.input) /\ OutcomesParse(file.outcomes, Whole)
  /\ PolicyParses(file.policy, Whole)
  /\ \A t \in Tier : SubmissionParses(SubmissionOf(t))

SelfCheckReads ==
  /\ command = "self-check" /\ step = 0
  /\ IF Loaded /\ Scorable(file.input, file.outcomes, file.submission, file.policy)
     THEN step' = 1 /\ UNCHANGED <<command, past>>
     ELSE CommandEnds(2)
  /\ UNCHANGED file

OpenReport ==
  /\ command = "self-check" /\ step = 1
  /\ file' = [file EXCEPT !.report = Emptied]
  /\ step' = 2
  /\ UNCHANGED <<command, past>>

FillReport ==
  /\ command = "self-check" /\ step = 2
  /\ file' = [file EXCEPT !.report =
                Scored(file.input, file.outcomes, file.submission, file.policy)]
  /\ CommandEnds(0)

\* OSError while a file is opened or filled: exit code 2; or the process dies.
CommandFails ==
  /\ step > 0
  /\ \E code \in {2, 137} : CommandEnds(code)
  /\ UNCHANGED file

CheckNext ==
  \/ Enter \/ ValidateInput \/ AlwaysLightReads \/ OpenSubmission \/ FillSubmission
  \/ SelfCheckReads \/ OpenReport \/ FillReport \/ CommandFails

CheckSpec == CheckInit /\ [][CheckNext]_checkVars

-----------------------------------------------------------------------------
(* Properties. *)

Ends(commands) ==
  LET earlier == Len(past) - Len(commands)
  IN /\ command = "none" /\ earlier >= 0
     /\ \A k \in 1..Len(commands) : past[earlier + k] = commands[k]

\* What one decision of a tier's file says of an episode, whichever it is.
Decisions(t, e) == {k \in 1..Len(OfTier(file.submission, t).decisions) :
                      OfTier(file.submission, t).decisions[k].id = e.id}

\* Points that a tier earns are those of a file that decides every episode of the
\* input exactly once and nothing else, counted over these decisions, and its cost
\* is within the budget; the final score is off the exact weighted points by at
\* most half a unit of its last place.
ReportEarned ==
  Ends(<<<<"self-check", 0>>>>) =>
    /\ \A t \in Tier :
         LET n == Len(file.input.episodes)
             made == OfTier(file.submission, t).decisions
             earned == file.report.tiers[t]
         IN /\ Len(made) = n
            /\ \A e \in 1..n : \E k \in 1..n : Decisions(t, file.input.episodes[e]) = {k}
            /\ earned.points # 0 =>
                 /\ earned.points =
                      Sum([k \in 1..n |-> Outcome(file.outcomes, made[k].id, made[k].model).score])
                 /\ earned.cost * Ratio
                      <= LightTotal(file.input, file.outcomes, file.policy)
                           * file.policy.multiplier[t]
    /\ LET n == Len(file.input.episodes)
           exact == Sum([k \in 1..3 |-> file.report.tiers[TIERS[k]].points
                                          * file.policy.weight[TIERS[k]]]) * Quantum
           shown == file.report.final * n * Whole * Whole
       IN 2 * (exact - shown) <= n * Whole * Whole /\ 2 * (shown - exact) <= n * Whole * Whole

\* Outcomes that belong to the input, with a light model that costs something.
Suitable ==
  /\ OutcomesParse(file.outcomes, Whole)
  /\ Matching(file.outcomes, file.input) /\ MatrixComplete(file.input, file.outcomes)
  /\ LightTotal(file.input, file.outcomes, file.policy) > 0
  /\ \A t \in Tier : file.policy.multiplier[t] >= Ratio

\* What always-light wrote, whatever was there and whatever failed before, is
\* accepted by self-check and stays within every budget, one of exactly the light
\* model's costs included.
LightScores ==
  Suitable =>
    /\ Ends(<<<<"always-light", 0>>>>) =>
         Loaded /\ Scorable(file.input, file.outcomes, file.submission, file.policy)
    /\ Ends(<<<<"always-light", 0>>, <<"self-check", 0>>>>) =>
         \A t \in Tier : file.report.tiers[t].passed

=============================================================================
