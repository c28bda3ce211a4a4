------------------------------ MODULE Protocol ------------------------------
(***************************************************************************)
(* protocol.py: which documents the parsers accept.  A document is a       *)
(* record of what the parsers tell apart:                                  *)
(*   readable  the file could be read and is JSON without repeated keys    *)
(*   fields    its objects have exactly the keys they should have          *)
(* and the values that are compared with others or calculated with.  Empty *)
(* texts are "", a decimal that is no decimal is Malformed, and decimals   *)
(* are counted in some fixed unit.                                         *)
(***************************************************************************)
EXTENDS Integers, Sequences

TIERS == <<"fast", "balanced", "premium">>
Tier == {"fast", "balanced", "premium"}

\* MODEL_IDS, from the cheapest to the most expensive.
ModelId == 1..3
Light == 1
Mid   == 2
High  == 3

Malformed == -1

\* A sum over the indices of a sequence or over the models.
Sum(f) ==
  LET upTo[i \in 0..Len(f)] == IF i = 0 THEN 0 ELSE upTo[i - 1] + f[i]
  IN upTo[Len(f)]

\* Fault: a second entry for the same episode is accepted.
UniqueIdsUnchecked(s) == TRUE

UniqueIds(s) == \A i, j \in 1..Len(s) : s[i].id = s[j].id => i = j

Ids(s) == {s[i].id : i \in 1..Len(s)}

\* _common_header
Header(d) == d.version = 1 /\ d.challenge # "" /\ d.split # ""

\* An episode has a prompt or messages of known roles, not both.
EpisodeParses(e) == e.id # "" /\ e.shape \in {"prompt", "messages"}

InputParses(d) ==
  /\ d.readable /\ d.fields /\ Header(d)
  /\ d.episodes # <<>>
  /\ \A i \in 1..Len(d.episodes) : EpisodeParses(d.episodes[i])
  /\ UniqueIds(d.episodes)

\* The result of one model: a score of at most Whole, and counts.
ResultParses(r, whole) ==
  /\ r.score \in 0..whole
  /\ r.generations >= 1 /\ r.input >= 1 /\ r.output >= 0

OutcomesParse(d, whole) ==
  /\ d.readable /\ d.fields /\ Header(d)
  /\ d.episodes # <<>>
  /\ \A i \in 1..Len(d.episodes) :
       /\ d.episodes[i].id # ""
       /\ DOMAIN d.episodes[i].models = ModelId
       /\ \A m \in ModelId : ResultParses(d.episodes[i].models[m], whole)
  /\ UniqueIds(d.episodes)

SubmissionParses(d) ==
  /\ d.readable /\ d.fields /\ Header(d)
  /\ d.policy # "" /\ d.tier \in Tier
  /\ d.decisions # <<>>
  /\ \A i \in 1..Len(d.decisions) :
       d.decisions[i].id # "" /\ d.decisions[i].model \in ModelId
  /\ UniqueIds(d.decisions)

\* Rates may be zero, multipliers may not; the weights make one Whole.
PolicyParses(d, whole) ==
  /\ d.readable /\ d.fields /\ d.version = 1
  /\ d.policy = "v1" /\ d.tokenUnit = 1000000
  /\ d.contextLimit >= 1
  /\ DOMAIN d.rates = ModelId /\ d.light \in ModelId
  /\ \A m \in ModelId : \A k \in DOMAIN d.rates[m] : d.rates[m][k] # Malformed
  /\ DOMAIN d.multiplier = Tier
  /\ \A t \in Tier : d.multiplier[t] > 0 /\ d.weight[t] # Malformed
  /\ d.weight["fast"] + d.weight["balanced"] + d.weight["premium"] = whole

-----------------------------------------------------------------------------
(* What the parsers return of a document they accept: InputBatch, OutcomeBatch,   *)
(* Submission and RoutingPolicy.                                               *)

InputTyped(d) == InputParses(d) => d.episodes \in Seq([id : STRING, shape : STRING])

OutcomesTyped(d, whole) ==
  OutcomesParse(d, whole) =>
    d.episodes \in Seq([id : STRING,
                        models : [ModelId -> [score : Int, generations : Int,
                                              input : Int, output : Int]]])

SubmissionTyped(d) == SubmissionParses(d) => d.decisions \in Seq([id : STRING, model : Int])

PolicyTyped(d, whole) ==
  PolicyParses(d, whole) =>
    /\ d.rates \in [ModelId -> [fixed : Int, input : Int, output : Int]]
    /\ d.multiplier \in [Tier -> Int] /\ d.weight \in [Tier -> Int]

-----------------------------------------------------------------------------
(* public_runtime.py: the two public inputs as one. *)

\* _validate_materialized_input: the pinned file, its split and its length.
Materialized(d, split, entry) ==
  /\ entry.count >= 1 /\ d.digest = entry.digest
  /\ InputParses(d) /\ d.split = split
  /\ Len(d.episodes) = entry.count

\* combine_public_inputs
Combines(train, dev) ==
  /\ train.version = dev.version /\ train.challenge = dev.challenge
  /\ train.split = "train" /\ dev.split = "dev"
  /\ Ids(train.episodes) \cap Ids(dev.episodes) = {}

\* load_public_runtime_workload
WorkloadLoads(w) ==
  /\ Materialized(w.train, "train", w.registry.train)
  /\ Materialized(w.dev, "dev", w.registry.dev)
  /\ \A d \in {w.train, w.dev} : d.challenge = w.registry.challenge
  /\ Combines(w.train, w.dev)

Combined(train, dev) ==
  [readable |-> TRUE, fields |-> TRUE, version |-> train.version, challenge |-> "public",
   split |-> "public-train-dev", episodes |-> train.episodes \o dev.episodes]
=============================================================================
