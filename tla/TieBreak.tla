------------------------------ MODULE TieBreak ------------------------------
(***************************************************************************)
(* tiebreak_latency.py: router-measure-tiebreak runs every tied submission *)
(* under the same conditions, tier by tier and in rotating order, ranks    *)
(* them by the sum of the tiers' medians and publishes one record.         *)
(*                                                                         *)
(* The router of a submission usually takes some time; mishaps (slow runs, *)
(* failures of the submission or of the operator, a clock that cannot be   *)
(* read, an unresolved cleanup, a kill) are rationed.  What one run of a   *)
(* container does is RuntimeResources.                                     *)
(***************************************************************************)
EXTENDS Protocol, FiniteSets

CONSTANTS
  Fields,        \* lists of submissions that may be measured
  MeasuredRuns,  \* MEASURED_RUNS_PER_TIER: 5
  LimitTime,     \* what a failed run of a submission counts
  SlowTimes,     \* what a disturbed run may take
  Tick,          \* the resolution of the timer
  MaxTroubles,   \* max_infrastructure_failures: 3
  MaxMishaps

ASSUME MeasuringAssumption ==
  /\ MeasuredRuns \in Nat /\ MeasuredRuns % 2 = 1
  /\ Tick \in Nat \ {0} /\ MaxTroubles \in Nat \ {0}
  /\ LimitTime \in Nat /\ SlowTimes \subseteq Nat

ASSUME FieldsAssumption ==
  \A f \in Fields : f \in Seq([id : STRING, sound : BOOLEAN, image : STRING, usual : Nat])

VARIABLES
  field,       \* the list given to the command: id, image, usual time
  phase,       \* where measure_tiebreak_latency is
  tierAt, repetition, position,    \* the condition under way; repetition 0 is the warm-up
  troubles,    \* operator failures under this condition
  taken,       \* tier_record["measurements"], by submission and tier
  journals,    \* the candidate-NNN directories with an unresolved journal
  record,      \* the record file: the ranking it has, or what was there before
  ended,       \* the exit code, or -1
  mishaps

latencyVars == <<field, phase, tierAt, repetition, position, troubles, taken, journals,
                 record, ended, mishaps>>

Entries == 1..Len(field)

\* Fault: one place off the middle.
MedianOff(s) ==
  CHOOSE x \in {s[i] : i \in 1..Len(s)} :
    /\ 2 * Cardinality({i \in 1..Len(s) : s[i] < x}) < Len(s) + 2
    /\ 2 * Cardinality({i \in 1..Len(s) : s[i] <= x}) > Len(s) + 2

\* _median_of_five: the middle of the sorted values.
Median(s) ==
  CHOOSE x \in {s[i] : i \in 1..Len(s)} :
    /\ 2 * Cardinality({i \in 1..Len(s) : s[i] < x}) < Len(s)
    /\ 2 * Cardinality({i \in 1..Len(s) : s[i] <= x}) > Len(s)

\* _comparison_time_ns
Ticks(elapsed) == ((elapsed + Tick \div 2) \div Tick) * Tick

\* _rank_candidates: equal times have equal ranks, and the ranks after them are
\* skipped.
Ranks(totals) ==
  [c \in DOMAIN totals |->
     1 + Cardinality({d \in DOMAIN totals : Ticks(totals[d]) < Ticks(totals[c])})]

Total(c) ==
  Sum([t \in 1..Len(TIERS) |->
         Median([r \in 1..MeasuredRuns |-> taken[c][t][r].elapsed])])

\* _validate_candidate_set
FieldValid ==
  /\ Len(field) >= 2
  /\ \A c \in Entries : field[c].sound
  /\ UniqueIds(field)

\* The submission at a place of an order that starts n submissions later.
Rotated(n) == ((position - 1 + n) % Len(field)) + 1

\* The warm-up rotates with the tier, the measurements with the repetition.
Current == Rotated(IF repetition = 0 THEN tierAt - 1 ELSE repetition - 1)

NothingTaken == [c \in Entries |-> [t \in 1..Len(TIERS) |-> <<>>]]

-----------------------------------------------------------------------------

LatencyInit ==
  /\ field \in Fields
  /\ phase = "start"
  /\ tierAt = 1 /\ repetition = 0 /\ position = 1 /\ troubles = 0
  /\ taken = NothingTaken
  /\ journals \in {{}, {Len(field)}}
  /\ record = <<>> /\ ended = -1 /\ mishaps = 0

Finish(code) == phase' = "over" /\ ended' = code

Mishap == mishaps < MaxMishaps /\ mishaps' = mishaps + 1

Unfit == {c \in Entries : field[c].image # "fits"}

\* load_latency_candidates, then image_resolver and _validate_resolved_image for one
\* submission after the other, then the check for journals.
Admit ==
  /\ phase = "start"
  /\ IF ~FieldValid THEN Finish(2)
     ELSE IF Unfit # {}
     THEN Finish(IF field[CHOOSE c \in Unfit : \A d \in Unfit : c <= d].image = "large"
                 THEN 6 ELSE 4)
     ELSE IF journals \cap Entries # {} THEN Finish(4)
     ELSE phase' = "run" /\ UNCHANGED ended
  /\ UNCHANGED <<field, tierAt, repetition, position, troubles, taken, journals, record,
                 mishaps>>

\* The next submission, the next repetition, the next tier.
Advance ==
  /\ troubles' = 0
  /\ IF position < Len(field)
     THEN position' = position + 1 /\ UNCHANGED <<tierAt, repetition, phase>>
     ELSE /\ position' = 1
          /\ IF repetition < MeasuredRuns
             THEN repetition' = repetition + 1 /\ UNCHANGED <<tierAt, phase>>
             ELSE IF tierAt < Len(TIERS)
             THEN tierAt' = tierAt + 1 /\ repetition' = 0 /\ UNCHANGED phase
             ELSE phase' = "rank" /\ UNCHANGED <<tierAt, repetition>>

\* What the warm-up took is not kept.
Take(elapsed, calm) ==
  /\ taken' = IF repetition = 0 THEN taken
              ELSE [taken EXCEPT ![Current][tierAt] =
                      Append(@, [elapsed |-> elapsed, at |-> position, calm |-> calm])]
  /\ Advance
  /\ UNCHANGED <<field, journals, record, ended>>

Runs ==
  /\ phase = "run"
  /\ Take(field[Current].usual, TRUE)
  /\ UNCHANGED mishaps

RunsSlowly ==
  /\ phase = "run" /\ Mishap
  /\ \E s \in SlowTimes : Take(s, FALSE)

\* AttemptKind.EXECUTION_FAILURE: the time limit counts.
RunFails ==
  /\ phase = "run" /\ Mishap
  /\ Take(LimitTime, FALSE)

\* AttemptKind.FAIRNESS_VIOLATION
NeedsReview ==
  /\ phase = "run" /\ Mishap
  /\ Finish(2)
  /\ UNCHANGED <<field, tierAt, repetition, position, troubles, taken, journals, record>>

\* AttemptKind.INFRASTRUCTURE_FAILURE, or a valid measured run whose time is
\* unknown: the same condition is run again, unless a cleanup is unresolved or it
\* went on too often.
OperatorFails ==
  /\ phase = "run" /\ Mishap
  /\ \E pending \in BOOLEAN :
       /\ journals' = IF pending THEN journals \cup {Current} ELSE journals
       /\ IF pending \/ troubles + 1 >= MaxTroubles
          THEN Finish(4) /\ UNCHANGED troubles
          ELSE troubles' = troubles + 1 /\ UNCHANGED <<phase, ended>>
  /\ UNCHANGED <<field, tierAt, repetition, position, taken, record>>

Standing == Ranks([c \in Entries |-> Total(c)])

\* The record is replaced as a whole; the write may fail before or after.
WriteLatencyRecord ==
  /\ phase = "rank"
  /\ \/ record' = Standing /\ Finish(0) /\ UNCHANGED mishaps
     \/ /\ Mishap
        /\ record' \in {record, Standing}
        /\ Finish(4)
  /\ UNCHANGED <<field, tierAt, repetition, position, troubles, taken, journals>>

MeasurerKilled ==
  /\ phase \in {"run", "rank"} /\ Mishap
  /\ Finish(137)
  /\ journals' \in {journals, IF phase = "run" THEN journals \cup {Current} ELSE journals}
  /\ UNCHANGED <<field, tierAt, repetition, position, troubles, taken, record>>

LatencyNext ==
  \/ Admit \/ Runs \/ RunsSlowly \/ RunFails \/ NeedsReview \/ OperatorFails
  \/ WriteLatencyRecord \/ MeasurerKilled

LatencySpec == LatencyInit /\ [][LatencyNext]_latencyVars

-----------------------------------------------------------------------------
(* Properties. *)

Disturbed(c, t) == Cardinality({r \in 1..MeasuredRuns : ~taken[c][t][r].calm})

Steady == \A c \in Entries, t \in 1..Len(TIERS) : 2 * Disturbed(c, t) < MeasuredRuns

Times(c, t, p) == Cardinality({r \in 1..MeasuredRuns : taken[c][t][r].at = p})

\* A published ranking is of submissions that were all measured equally often in
\* every tier and took turns at every place of the order, and as long as fewer than
\* half of the runs of a submission under a tier were disturbed, it is the ranking
\* of what the routers usually take: whatever failed, was repeated or was slow.
RankEarned ==
  record # <<>> =>
    /\ \A c \in Entries, t \in 1..Len(TIERS) :
         /\ Len(taken[c][t]) = MeasuredRuns
         /\ \A p, q \in Entries : Times(c, t, p) <= Times(c, t, q) + 1
    /\ Steady =>
         \A c, d \in Entries :
           record[c] <= record[d] <=>
             Ticks(Len(TIERS) * field[c].usual) <= Ticks(Len(TIERS) * field[d].usual)

=============================================================================
