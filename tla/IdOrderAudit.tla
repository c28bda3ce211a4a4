---------------------------- MODULE IdOrderAudit ----------------------------
(***************************************************************************)
(* The comparison of the ID/order audit of orchestrator.py: the same       *)
(* prompts are routed again under other IDs and in another order, drawn by *)
(* a secret, and the two selections are compared occurrence by occurrence. *)
(* OfficialTier has the retries and the records around it.                 *)
(*                                                                         *)
(* Episodes, IDs and places in the batch are numbers: episode i has ID i   *)
(* and place i in the official input.  The HMAC tokens of a secret sort    *)
(* the episodes in some order, and any order is possible.                  *)
(***************************************************************************)
EXTENDS Integers

CONSTANTS MaxEpisodes, Model

ASSUME EpisodesAssumption == MaxEpisodes \in Nat \ {0}

VARIABLES
  stage,      \* what run_id_order_audit has done
  size,       \* len(inputs.episodes)
  router,     \* what the submission goes by, and what it answers
  ids,        \* assigned_ids: the ID each episode has in the audit
  rows,       \* the episode at each place of the audit's input
  official, audited,    \* the model selected for each ID
  mismatches

vars == <<stage, size, router, ids, rows, official, audited, mismatches>>

\* A router goes by the prompt, by the ID or by the place.  Equal prompts are
\* episodes with equal answers.
Router(n) == [sees : {"prompt", "id", "place"}, answer : [1..n -> Model]]

Permutation(n) ==
  {f \in [1..n -> 1..n] : /\ \A i, j \in 1..n : f[i] = f[j] => i = j
                          /\ \A j \in 1..n : \E i \in 1..n : f[i] = j}

Same(n) == [i \in 1..n |-> i]

\* Every episode is at some place of a permutation.
Place(f, i) == CHOOSE p \in DOMAIN f : f[p] = i

-----------------------------------------------------------------------------
(* make_id_order_audit_variant *)

\* Fault: episodes exchange their IDs in pairs.
AssignedMirrored(n, cycle) == [i \in 1..n |-> cycle[n + 1 - Place(cycle, i)]]

\* Every episode takes the ID of its successor on one cycle through all of them.
Assigned(n, cycle) ==
  [i \in 1..n |->
     LET p == Place(cycle, i) IN IF p = n THEN cycle[1] ELSE cycle[p + 1]]

\* Fault: the order of the secret is taken as it is.
DrawnRows(n, order) == order

\* An order that happens to be the official one is rotated.
Rows(n, order) ==
  IF n > 1 /\ order = Same(n)
  THEN [p \in 1..n |-> IF p = n THEN 1 ELSE p + 1]
  ELSE order

\* What a router goes by when it is shown episode i.
Clue(r, id, i, place) ==
  IF r.sees = "prompt" THEN i ELSE IF r.sees = "id" THEN id ELSE place

\* The selections of one execution, by ID.
Selections(n, r, newIds, newRows) ==
  [id \in 1..n |->
     LET i == Place(newIds, id) IN r.answer[Clue(r, id, i, Place(newRows, i))]]

\* Fault: selections are compared ID by ID.
MismatchesById(n) == {i \in 1..n : official[i] # audited[i]}

\* Selections are compared through original_to_audit_id.
Mismatches(n) == {i \in 1..n : official[i] # audited[ids[i]]}

-----------------------------------------------------------------------------

Init ==
  /\ stage = "official"
  /\ size \in 1..MaxEpisodes
  /\ router \in Router(size)
  /\ ids = Same(size) /\ rows = Same(size)
  /\ official = <<>> /\ audited = <<>>
  /\ mismatches = {}

Official ==
  /\ stage = "official"
  /\ official' = Selections(size, router, ids, rows)
  /\ stage' = "vary"
  /\ UNCHANGED <<size, router, ids, rows, audited, mismatches>>

Vary ==
  /\ stage = "vary"
  /\ \E cycle, order \in Permutation(size) :
       /\ ids' = Assigned(size, cycle)
       /\ rows' = Rows(size, order)
  /\ stage' = "audit"
  /\ UNCHANGED <<size, router, official, audited, mismatches>>

Audit ==
  /\ stage = "audit"
  /\ audited' = Selections(size, router, ids, rows)
  /\ stage' = "compare"
  /\ UNCHANGED <<size, router, ids, rows, official, mismatches>>

Compare ==
  /\ stage = "compare"
  /\ mismatches' = Mismatches(size)
  /\ stage' = "done"
  /\ UNCHANGED <<size, router, ids, rows, official, audited>>

Next == Official \/ Vary \/ Audit \/ Compare

Spec == Init /\ [][Next]_vars

-----------------------------------------------------------------------------
(* Properties. *)

Varied == stage \in {"audit", "compare", "done"}

TypeOK ==
  /\ stage \in {"official", "vary", "audit", "compare", "done"}
  /\ size \in 1..MaxEpisodes
  /\ router \in Router(size)
  /\ ids \in Permutation(size) /\ rows \in Permutation(size)
  /\ stage # "official" => official \in [1..size -> Model]
  /\ stage \in {"compare", "done"} => audited \in [1..size -> Model]
  /\ mismatches \subseteq 1..size

\* Whatever the secret, no episode of a batch of several keeps its ID, and the
\* order is not the official one.
NothingStays ==
  Varied /\ size > 1 => /\ \A i \in 1..size : ids[i] # i
                        /\ rows # Same(size)

\* A router that goes by the prompt alone is never sent to review: the selections
\* are compared by occurrence although IDs, places and lookups all changed.
PromptRouterPasses ==
  stage = "done" /\ router.sees = "prompt" => mismatches = {}

\* Whatever the secret, a router that goes by the ID and does not answer the same
\* for all of them is found out: the IDs move along one cycle, so that no group of
\* episodes exchanges its IDs within itself.
IdRouterCaught ==
  stage = "done" /\ router.sees = "id" /\ mismatches = {} =>
    \A i, j \in 1..size : router.answer[i] = router.answer[j]

=============================================================================
