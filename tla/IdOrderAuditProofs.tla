------------------------- MODULE IdOrderAuditProofs -------------------------
(***************************************************************************)
(* What the audit promises for batches of every size, every set of models  *)
(* and every secret.                                                       *)
(***************************************************************************)
EXTENDS IdOrderAudit, WellFoundedInduction, TLAPS

\* A set of naturals has a least member: induction, stated with sets.
LEMMA LeastMember ==
  ASSUME NEW T, T \subseteq Nat, T # {}
  PROVE  \E x \in T : \A y \in T : x <= y
<1> DEFINE Less == {ss \in Nat \X Nat : ss[1] < ss[2]}
<1>1. IsWellFoundedOn(Less, Nat)
  BY NatLessThanWellFounded, Zenon DEF OpToRel
<1>2. PICK x \in T : \A y \in T : ~ (<<y, x>> \in Less)
  <2> HIDE DEF Less
  <2> QED
    BY <1>1, WFMin
<1>3. \A y \in T : y \in Nat /\ x \in Nat /\ ~ (y < x)
  BY <1>2
<1> QED
  BY <1>3

\* Every episode has one place in a permutation.
LEMMA PlaceOf ==
  ASSUME NEW n \in Nat, NEW f \in Permutation(n), NEW i \in 1..n
  PROVE  /\ Place(f, i) \in 1..n /\ f[Place(f, i)] = i
         /\ \A p \in 1..n : f[p] = i => Place(f, i) = p
<1>1. DOMAIN f = 1..n /\ \E p \in DOMAIN f : f[p] = i
  BY DEF Permutation
<1>2. Place(f, i) \in 1..n /\ f[Place(f, i)] = i
  BY <1>1 DEF Place
<1> QED
  BY <1>2 DEF Permutation

\* A batch as it was submitted is a permutation of itself.
LEMMA SameIsPermutation ==
  ASSUME NEW n \in Nat PROVE Same(n) \in Permutation(n)
BY DEF Same, Permutation

\* assigned_ids gives every ID to exactly one episode, and none its own.
LEMMA AssignedPermutes ==
  ASSUME NEW n \in Nat \ {0}, NEW cycle \in Permutation(n)
  PROVE  /\ Assigned(n, cycle) \in Permutation(n)
         /\ \A p \in 1..n : Assigned(n, cycle)[cycle[p]]
                              = IF p = n THEN cycle[1] ELSE cycle[p + 1]
         /\ n > 1 => \A i \in 1..n : Assigned(n, cycle)[i] # i
<1> DEFINE a == Assigned(n, cycle)
           next(p) == IF p = n THEN 1 ELSE p + 1
<1>1. cycle \in [1..n -> 1..n]
  BY DEF Permutation
<1>2. \A p \in 1..n : next(p) \in 1..n
  OBVIOUS
<1>3. \A i \in 1..n : Place(cycle, i) \in 1..n /\ cycle[Place(cycle, i)] = i
  BY PlaceOf
<1>4. \A i \in 1..n : a[i] = cycle[next(Place(cycle, i))]
  BY DEF Assigned
<1>5. a \in [1..n -> 1..n]
  <2>1. a = [i \in 1..n |-> cycle[next(Place(cycle, i))]]
    BY DEF Assigned
  <2>2. \A i \in 1..n : cycle[next(Place(cycle, i))] \in 1..n
    BY <1>1, <1>2, <1>3
  <2> QED
    BY <2>1, <2>2
<1>6. \A p \in 1..n : a[cycle[p]] = cycle[next(p)]
  <2> TAKE p \in 1..n
  <2>1. cycle[p] \in 1..n
    BY <1>1
  <2>2. Place(cycle, cycle[p]) = p
    BY <2>1, PlaceOf
  <2> QED
    BY <2>1, <2>2, <1>4
<1>7. \A i, j \in 1..n : cycle[i] = cycle[j] => i = j
  BY DEF Permutation
<1>8. \A i, j \in 1..n : a[i] = a[j] => i = j
  <2> SUFFICES ASSUME NEW i \in 1..n, NEW j \in 1..n, a[i] = a[j] PROVE i = j
    OBVIOUS
  <2> DEFINE p == Place(cycle, i)
             q == Place(cycle, j)
  <2>1. p \in 1..n /\ q \in 1..n /\ cycle[p] = i /\ cycle[q] = j
    BY <1>3
  <2>2. cycle[next(p)] = cycle[next(q)]
    BY <1>4
  <2> HIDE DEF p, q
  <2>3. next(p) = next(q)
    BY <2>1, <2>2, <1>2, <1>7
  <2>4. p = q
    BY <2>1, <2>3
  <2> QED
    BY <2>1, <2>4
<1>9. \A j \in 1..n : \E i \in 1..n : a[i] = j
  <2> TAKE j \in 1..n
  <2>1. PICK q \in 1..n : cycle[q] = j
    BY DEF Permutation
  <2>2. PICK p \in 1..n : next(p) = q
    <3>1. CASE q = 1
      <4>1. n \in 1..n /\ next(n) = q
        BY <3>1
      <4> QED
        BY <4>1
    <3>2. CASE q # 1
      <4>1. q - 1 \in 1..n /\ next(q - 1) = q
        BY <3>2
      <4> QED
        BY <4>1
    <3> QED
      BY <3>1, <3>2
  <2>3. cycle[p] \in 1..n /\ a[cycle[p]] = j
    BY <2>1, <2>2, <1>6, <1>1
  <2> QED
    BY <2>3
<1>10. ASSUME n > 1, NEW i \in 1..n PROVE a[i] # i
  <2> DEFINE p == Place(cycle, i)
  <2>1. p \in 1..n /\ cycle[p] = i /\ a[i] = cycle[next(p)]
    BY <1>3, <1>4
  <2> HIDE DEF p
  <2>2. next(p) # p
    BY <1>10, <2>1
  <2> QED
    BY <2>1, <2>2, <1>2, <1>7
<1>11. a \in Permutation(n)
  BY <1>5, <1>8, <1>9 DEF Permutation
<1>12. \A p \in 1..n : a[cycle[p]] = IF p = n THEN cycle[1] ELSE cycle[p + 1]
  BY <1>6
<1> QED
  BY <1>10, <1>11, <1>12

\* The order of the variant holds every episode once, and is never the official
\* order of a batch of several.
LEMMA RowsPermute ==
  ASSUME NEW n \in Nat \ {0}, NEW order \in Permutation(n)
  PROVE  /\ Rows(n, order) \in Permutation(n)
         /\ n > 1 => Rows(n, order) # Same(n)
<1>1. CASE n > 1 /\ order = Same(n)
  <2> DEFINE r == [p \in 1..n |-> IF p = n THEN 1 ELSE p + 1]
  <2>1. Rows(n, order) = r
    BY <1>1 DEF Rows
  <2>2. r \in [1..n -> 1..n] /\ \A i, j \in 1..n : r[i] = r[j] => i = j
    OBVIOUS
  <2>3. \A j \in 1..n : \E i \in 1..n : r[i] = j
    <3> TAKE j \in 1..n
    <3>1. CASE j = 1
      <4>1. n \in 1..n /\ r[n] = j
        BY <3>1
      <4> QED
        BY <4>1
    <3>2. CASE j # 1
      <4>1. j - 1 \in 1..n /\ r[j - 1] = j
        BY <3>2
      <4> QED
        BY <4>1
    <3> QED
      BY <3>1, <3>2
  <2>4. r[1] # Same(n)[1]
    BY <1>1 DEF Same
  <2>5. r \in Permutation(n)
    BY <2>2, <2>3 DEF Permutation
  <2>6. r # Same(n)
    BY <2>4
  <2> QED
    BY <2>1, <2>5, <2>6
<1>2. CASE ~ (n > 1 /\ order = Same(n))
  BY <1>2 DEF Rows
<1> QED
  BY <1>1, <1>2

\* The selections are models, one for each ID.
LEMMA SelectionsAnswer ==
  ASSUME NEW n \in Nat, NEW r \in Router(n),
         NEW f \in Permutation(n), NEW g \in Permutation(n)
  PROVE  /\ Selections(n, r, f, g) \in [1..n -> Model]
         /\ \A i \in 1..n :
              Selections(n, r, f, g)[f[i]]
                = r.answer[Clue(r, f[i], i, Place(g, i))]
<1>1. r.answer \in [1..n -> Model] /\ r.sees \in {"prompt", "id", "place"}
  BY DEF Router
<1>2. ASSUME NEW id \in 1..n
      PROVE  Clue(r, id, Place(f, id), Place(g, Place(f, id))) \in 1..n
  <2>1. Place(f, id) \in 1..n /\ Place(g, Place(f, id)) \in 1..n
    BY PlaceOf
  <2> QED
    BY <2>1 DEF Clue
<1>3. Selections(n, r, f, g) \in [1..n -> Model]
  BY <1>1, <1>2 DEF Selections
<1>4. ASSUME NEW i \in 1..n PROVE f[i] \in 1..n /\ Place(f, f[i]) = i
  <2>1. f[i] \in 1..n
    BY DEF Permutation
  <2> QED
    BY <2>1, PlaceOf
<1> QED
  BY <1>3, <1>4 DEF Selections

-----------------------------------------------------------------------------
(* The invariant. *)

\* What each stage has established: the variant came from a secret, and the
\* selections from the router.
Established ==
  /\ stage \in {"official", "vary"} => ids = Same(size) /\ rows = Same(size)
  /\ stage # "official" => official = Selections(size, router, Same(size), Same(size))
  /\ Varied => \E cycle, order \in Permutation(size) :
                 ids = Assigned(size, cycle) /\ rows = Rows(size, order)
  /\ stage \in {"compare", "done"} => audited = Selections(size, router, ids, rows)
  /\ stage = "done" => mismatches = Mismatches(size)

AuditInv == TypeOK /\ Established

\* Every stage establishes what the next one needs.
LEMMA AuditInvariant == Spec => []AuditInv
<1>1. Init => AuditInv
  <2> SUFFICES ASSUME Init PROVE AuditInv
    OBVIOUS
  <2>1. size \in Nat
    BY EpisodesAssumption DEF Init
  <2>2. TypeOK
    BY <2>1, SameIsPermutation DEF Init, TypeOK
  <2>3. Established
    BY DEF Init, Established, Varied
  <2> QED
    BY <2>2, <2>3 DEF AuditInv
<1>2. AuditInv /\ [Next]_vars => AuditInv'
  <2> SUFFICES ASSUME AuditInv, [Next]_vars PROVE AuditInv'
    OBVIOUS
  <2>1. size \in Nat \ {0} /\ Same(size) \in Permutation(size)
    BY EpisodesAssumption, SameIsPermutation DEF AuditInv, TypeOK
  <2>2. CASE Official
    <3>1. ids = Same(size) /\ rows = Same(size)
      BY <2>2 DEF AuditInv, Established, Official
    <3>2. official' = Selections(size, router, Same(size), Same(size))
      BY <2>2, <3>1 DEF Official
    <3>3. official' \in [1..size -> Model]
      BY <2>1, <3>2, SelectionsAnswer DEF AuditInv, TypeOK
    <3>4. TypeOK'
      BY <2>2, <3>3 DEF Official, AuditInv, TypeOK
    <3>5. Established'
      BY <2>2, <3>1, <3>2 DEF Official, Established, Varied
    <3> QED
      BY <3>4, <3>5 DEF AuditInv
  <2>3. CASE Vary
    <3>1. PICK cycle \in Permutation(size), order \in Permutation(size) :
            ids' = Assigned(size, cycle) /\ rows' = Rows(size, order)
      BY <2>3 DEF Vary
    <3>2. ids' \in Permutation(size) /\ rows' \in Permutation(size)
      BY <2>1, <3>1, AssignedPermutes, RowsPermute
    <3>3. TypeOK'
      BY <2>3, <3>2 DEF Vary, AuditInv, TypeOK
    <3>4. Established'
      BY <2>3, <3>1 DEF Vary, AuditInv, Established, Varied
    <3> QED
      BY <3>3, <3>4 DEF AuditInv
  <2>4. CASE Audit
    <3>1. audited' \in [1..size -> Model]
      BY <2>1, <2>4, SelectionsAnswer DEF Audit, AuditInv, TypeOK
    <3>2. TypeOK'
      BY <2>4, <3>1 DEF Audit, AuditInv, TypeOK
    <3>3. Established'
      BY <2>4 DEF Audit, AuditInv, Established, Varied
    <3> QED
      BY <3>2, <3>3 DEF AuditInv
  <2>5. CASE Compare
    <3>1. TypeOK'
      BY <2>5 DEF Compare, AuditInv, TypeOK, Mismatches
    <3>2. Established'
      BY <2>5 DEF Compare, AuditInv, Established, Varied, Mismatches
    <3> QED
      BY <3>1, <3>2 DEF AuditInv
  <2>6. CASE UNCHANGED vars
    BY <2>6 DEF vars, AuditInv, TypeOK, Established, Varied, Mismatches
  <2> QED
    BY <2>2, <2>3, <2>4, <2>5, <2>6 DEF Next
<1> QED
  BY <1>1, <1>2, PTL DEF Spec

\* When the audit is over, an episode is a mismatch exactly when the router answered
\* it differently.
LEMMA DoneMeans ==
  ASSUME AuditInv, stage = "done"
  PROVE  /\ size \in Nat \ {0} /\ ids \in Permutation(size)
         /\ \A i \in 1..size : i \notin mismatches =>
              /\ router.sees = "id" => router.answer[ids[i]] = router.answer[i]
         /\ router.sees = "prompt" => mismatches = {}
<1>1. size \in Nat \ {0} /\ Same(size) \in Permutation(size)
  BY EpisodesAssumption, SameIsPermutation DEF AuditInv, TypeOK
<1>2. ids \in Permutation(size) /\ rows \in Permutation(size) /\ router \in Router(size)
  BY DEF AuditInv, TypeOK
<1>3. ASSUME NEW i \in 1..size
      PROVE  /\ router.sees = "id" => /\ official[i] = router.answer[i]
                                      /\ audited[ids[i]] = router.answer[ids[i]]
             /\ router.sees = "prompt" => official[i] = audited[ids[i]]
  <2>1. Same(size)[i] = i
    BY DEF Same
  <2>2. /\ official = Selections(size, router, Same(size), Same(size))
        /\ audited = Selections(size, router, ids, rows)
    BY DEF AuditInv, Established
  <2>3. official[i] = router.answer[Clue(router, i, i, Place(Same(size), i))]
    BY <1>1, <1>2, <2>1, <2>2, SelectionsAnswer
  <2>4. audited[ids[i]] = router.answer[Clue(router, ids[i], i, Place(rows, i))]
    BY <1>1, <1>2, <2>2, SelectionsAnswer
  <2> QED
    BY <2>3, <2>4 DEF Clue
<1>4. mismatches = {i \in 1..size : official[i] # audited[ids[i]]}
  BY DEF AuditInv, Established, Mismatches
<1> QED
  BY <1>1, <1>2, <1>3, <1>4

-----------------------------------------------------------------------------
(* The theorems. *)

\* TypeOK: what the audit assigns are permutations, whatever the secret.
THEOREM AuditTypes == Spec => []TypeOK
<1>1. AuditInv => TypeOK
  BY DEF AuditInv
<1> QED
  BY <1>1, AuditInvariant, PTL

\* NothingStays: no secret leaves an ID or the order of a larger batch as it was.
THEOREM EverythingMoves == Spec => []NothingStays
<1>1. AuditInv => NothingStays
  <2> SUFFICES ASSUME AuditInv, Varied, size > 1
               PROVE  (\A i \in 1..size : ids[i] # i) /\ rows # Same(size)
    BY DEF NothingStays
  <2>1. size \in Nat \ {0}
    BY EpisodesAssumption DEF AuditInv, TypeOK
  <2>2. PICK cycle \in Permutation(size), order \in Permutation(size) :
          ids = Assigned(size, cycle) /\ rows = Rows(size, order)
    BY DEF AuditInv, Established
  <2> QED
    BY <2>1, <2>2, AssignedPermutes, RowsPermute
<1> QED
  BY <1>1, AuditInvariant, PTL

\* PromptRouterPasses: a router that goes by the prompt alone is never sent to
\* review by the audit.
THEOREM HonestRouterPasses == Spec => []PromptRouterPasses
<1>1. AuditInv => PromptRouterPasses
  BY DoneMeans DEF PromptRouterPasses
<1> QED
  BY <1>1, AuditInvariant, PTL

\* IdRouterCaught: along the cycle of the secret a router that goes by the ID and
\* is not found out answers as it did before, so that it always answers the same.
THEOREM LookupRouterCaught == Spec => []IdRouterCaught
<1>1. AuditInv => IdRouterCaught
  <2> SUFFICES ASSUME AuditInv, stage = "done", router.sees = "id", mismatches = {},
                      NEW i \in 1..size, NEW j \in 1..size
               PROVE  router.answer[i] = router.answer[j]
    BY DEF IdRouterCaught
  <2>1. /\ size \in Nat \ {0}
        /\ \A k \in 1..size : router.answer[ids[k]] = router.answer[k]
    BY DoneMeans
  <2>2. PICK cycle \in Permutation(size) : ids = Assigned(size, cycle)
    BY DEF AuditInv, Established, Varied
  <2>3. \A p \in 1..size :
          /\ cycle[p] \in 1..size
          /\ ids[cycle[p]] = IF p = size THEN cycle[1] ELSE cycle[p + 1]
    <3>1. cycle \in [1..size -> 1..size]
      BY DEF Permutation
    <3> QED
      BY <2>1, <2>2, <3>1, AssignedPermutes
  <2> DEFINE T == {p \in 1..size : router.answer[cycle[p]] # router.answer[cycle[1]]}
  <2>4. T = {}
    <3> SUFFICES ASSUME T # {} PROVE FALSE
      OBVIOUS
    <3>1. T \subseteq Nat
      OBVIOUS
    <3>2. PICK p \in T : \A q \in T : p <= q
      <4> HIDE DEF T
      <4> QED
        BY <3>1, LeastMember
    <3>3. p \in 1..size /\ p # 1
      BY <3>2
    <3>4. p - 1 \in 1..size /\ ~ (p <= p - 1)
      BY <2>1, <3>3
    <3>5. p - 1 \notin T
      <4> HIDE DEF T
      <4> QED
        BY <3>2, <3>4
    <3>6. ids[cycle[p - 1]] = cycle[p] /\ cycle[p - 1] \in 1..size
      BY <2>1, <2>3, <3>3, <3>4
    <3>7. router.answer[cycle[p]] = router.answer[cycle[p - 1]]
      BY <2>1, <3>6
    <3> QED
      BY <3>2, <3>4, <3>5, <3>7
  <2>5. PICK p \in 1..size : cycle[p] = i
    BY DEF Permutation
  <2>6. PICK q \in 1..size : cycle[q] = j
    BY DEF Permutation
  <2>7. p \notin T /\ q \notin T
    BY <2>4
  <2> QED
    BY <2>5, <2>6, <2>7
<1> QED
  BY <1>1, AuditInvariant, PTL

=============================================================================
