---------------------------- MODULE ScoringProofs ----------------------------
(***************************************************************************)
(* What a score, a budget and a rank of the tie-break are worth, for       *)
(* inputs of every length, and the facts about sums that this takes.       *)
(***************************************************************************)
EXTENDS SelfCheck, TieBreak, FiniteSetTheorems, WellFoundedInduction, TLAPS

-----------------------------------------------------------------------------
(* Sums.  Sum is a recursive function: what it returns is proved by the least  *)
(* length for which a fact would fail.                                         *)

\* A set of naturals has a least member: induction, stated with sets.
LEMMA LeastMember ==
  ASSUME NEW T, T \subseteq Nat, T # {}
  PROVE  \E x \in T : \A y \in T : x <= y
<1> DEFINE Less == {ss \in Nat \X Nat : ss[1] < ss[2]}
<1>1. IsWellFoundedOn(Less, Nat)
  BY NatLessThanWellFounded, Zenon DEF OpToRel
<1>2. PICK x \in T : \A y \in T : ~ (<<y, x>> \in Less)
  <2> HIDE DEF Less
  <2> QED
    BY <1>1, WFMin
<1>3. \A y \in T : y \in Nat /\ x \in Nat /\ ~ (y < x)
  BY <1>2
<1> QED
  BY <1>3

\* g is the sum of the first i members of f, for all i up to n.
SumsUpTo(f, g, n) == g = [i \in 0..n |-> IF i = 0 THEN 0 ELSE g[i - 1] + f[i]]

LEMMA SumsExist ==
  ASSUME NEW f, NEW n \in Nat PROVE \E g : SumsUpTo(f, g, n)
<1> DEFINE T == {m \in Nat : ~ \E g : SumsUpTo(f, g, m)}
<1> SUFFICES ASSUME n \in T PROVE FALSE
  OBVIOUS
<1>1. PICK m \in T : \A y \in T : m <= y
  BY LeastMember
<1>2. CASE m = 0
  <2>1. SumsUpTo(f, [i \in 0..0 |-> 0], 0)
    BY DEF SumsUpTo
  <2> QED
    BY <1>1, <1>2, <2>1
<1>3. CASE m # 0
  <2>1. m - 1 \in Nat /\ m - 1 \notin T
    BY <1>1, <1>3
  <2>2. PICK g : SumsUpTo(f, g, m - 1)
    BY <2>1
  <2> DEFINE h == [i \in 0..m |-> IF i = m THEN g[m - 1] + f[m] ELSE g[i]]
  <2>3. \A i \in 0..(m - 1) : g[i] = IF i = 0 THEN 0 ELSE g[i - 1] + f[i]
    BY <2>1, <2>2 DEF SumsUpTo
  <2>4. \A i \in 0..m : h[i] = IF i = 0 THEN 0 ELSE h[i - 1] + f[i]
    BY <1>3, <2>1, <2>3
  <2>5. SumsUpTo(f, h, m)
    BY <2>4 DEF SumsUpTo
  <2> QED
    BY <1>1, <2>5
<1> QED
  BY <1>1, <1>2, <1>3

LEMMA SumIs ==
  ASSUME NEW f, Len(f) \in Nat
  PROVE  \E g : SumsUpTo(f, g, Len(f)) /\ Sum(f) = g[Len(f)]
<1> DEFINE u == CHOOSE g : SumsUpTo(f, g, Len(f))
<1>1. SumsUpTo(f, u, Len(f))
  BY SumsExist
<1>2. Sum(f) = u[Len(f)]
  BY Zenon DEF Sum, SumsUpTo
<1> QED
  BY <1>1, <1>2

\* Sums of sequences that agree so far agree so far.
LEMMA SumsAgree ==
  ASSUME NEW f, NEW g, NEW n \in Nat, SumsUpTo(f, g, n),
         NEW e, NEW h, NEW m \in Nat, SumsUpTo(e, h, m),
         NEW k \in 0..n, k <= m, \A i \in 1..k : f[i] = e[i]
  PROVE  g[k] = h[k]
<1> DEFINE T == {i \in 0..k : g[i] # h[i]}
<1>1. ASSUME T # {} PROVE FALSE
  <2>0. T \subseteq Nat
    OBVIOUS
  <2>1. PICK i \in T : \A y \in T : i <= y
    BY <1>1, <2>0, LeastMember
  <2>2. /\ g[i] = IF i = 0 THEN 0 ELSE g[i - 1] + f[i]
        /\ h[i] = IF i = 0 THEN 0 ELSE h[i - 1] + e[i]
    BY DEF SumsUpTo
  <2>3. CASE i = 0
    BY <2>2, <2>3
  <2>4. CASE i # 0
    <3>1. i - 1 \in 0..k /\ i - 1 \notin T
      BY <2>1, <2>4
    <3> QED
      BY <2>1, <2>2, <2>4, <3>1
  <2> QED
    BY <2>3, <2>4
<1> QED
  BY <1>1

\* What Sum returns, step by step.
LEMMA SumEmpty ==
  ASSUME NEW f, Len(f) = 0 PROVE Sum(f) = 0
BY SumIs DEF SumsUpTo

LEMMA SumLast ==
  ASSUME NEW f, NEW e, NEW n \in Nat, Len(f) = n + 1, Len(e) = n, \A i \in 1..n : e[i] = f[i]
  PROVE  Sum(f) = Sum(e) + f[n + 1]
<1>1. PICK g : SumsUpTo(f, g, n + 1) /\ Sum(f) = g[n + 1]
  BY SumIs
<1>2. PICK h : SumsUpTo(e, h, n) /\ Sum(e) = h[n]
  BY SumIs
<1>3. g[n + 1] = g[n] + f[n + 1]
  BY <1>1 DEF SumsUpTo
<1>4. g[n] = h[n]
  BY <1>1, <1>2, SumsAgree
<1> QED
  BY <1>1, <1>2, <1>3, <1>4

LEMMA SumEqual ==
  ASSUME NEW f, NEW e, NEW n \in Nat, Len(f) = n, Len(e) = n, \A i \in 1..n : e[i] = f[i]
  PROVE  Sum(f) = Sum(e)
BY SumIs, SumsAgree

LEMMA Lengths ==
  ASSUME NEW n \in Nat, NEW S, NEW f \in [1..n -> S]
  PROVE  Len(f) = n /\ f \in Seq(S)
OBVIOUS

\* Without its last number a sequence of integers is one.
LEMMA Shorter ==
  ASSUME NEW n \in Nat, NEW f \in [1..(n + 1) -> Int]
  PROVE  /\ [i \in 1..n |-> f[i]] \in [1..n -> Int]
         /\ Sum(f) = Sum([i \in 1..n |-> f[i]]) + f[n + 1]
<1> DEFINE e == [i \in 1..n |-> f[i]]
<1>1. e \in [1..n -> Int]
  OBVIOUS
<1>2. Len(f) = n + 1 /\ Len(e) = n /\ \A i \in 1..n : e[i] = f[i]
  BY <1>1
<1> QED
  BY <1>1, <1>2, SumLast

LEMMA SumInteger ==
  ASSUME NEW n \in Nat, NEW f \in [1..n -> Int] PROVE Sum(f) \in Int
<1> DEFINE T == {m \in Nat : \E e \in [1..m -> Int] : Sum(e) \notin Int}
<1>1. ASSUME T # {} PROVE FALSE
  <2>1. PICK m \in T : \A y \in T : m <= y
    BY <1>1, LeastMember
  <2>2. PICK e \in [1..m -> Int] : Sum(e) \notin Int
    BY <2>1
  <2>3. CASE m = 0
    BY <2>2, <2>3, SumEmpty, Lengths
  <2>4. CASE m # 0
    <3>1. m - 1 \in Nat /\ m - 1 \notin T /\ m - 1 + 1 = m
      BY <2>1, <2>4
    <3> DEFINE d == [i \in 1..(m - 1) |-> e[i]]
    <3>2. d \in [1..(m - 1) -> Int] /\ Sum(e) = Sum(d) + e[m]
      BY <3>1, Shorter
    <3>3. Sum(d) \in Int
      BY <3>1, <3>2
    <3> HIDE DEF d
    <3> QED
      BY <2>2, <3>1, <3>2, <3>3
  <2> QED
    BY <2>3, <2>4
<1> QED
  BY <1>1

\* One number taken out of n + 1.
Without(f, n, k) == [i \in 1..n |-> IF i < k THEN f[i] ELSE f[i + 1]]

\* A number counts the same wherever it stands in a sum.
PlaceFree(n) ==
  \A a \in [1..(n + 1) -> Int], j \in 1..(n + 1) : Sum(a) = Sum(Without(a, n, j)) + a[j]

LEMMA WithoutType ==
  ASSUME NEW n \in Nat, NEW a \in [1..(n + 1) -> Int], NEW j \in 1..(n + 1)
  PROVE  Without(a, n, j) \in [1..n -> Int]
BY DEF Without

LEMMA PlaceFreeNext ==
  ASSUME NEW m \in Nat, m # 0 => PlaceFree(m - 1) PROVE PlaceFree(m)
<1> SUFFICES ASSUME NEW a \in [1..(m + 1) -> Int], NEW j \in 1..(m + 1)
             PROVE  Sum(a) = Sum(Without(a, m, j)) + a[j]
  BY DEF PlaceFree
<1>1. m + 1 \in 1..(m + 1) /\ a[m + 1] \in Int
  OBVIOUS
<1>2. PICK d \in [1..m -> Int] : (\A i \in 1..m : d[i] = a[i]) /\ Sum(a) = Sum(d) + a[m + 1]
  BY Shorter
<1>3. PICK w \in [1..m -> Int] : w = Without(a, m, j)
  BY WithoutType
<1>4. \A i \in 1..m : w[i] = IF i < j THEN a[i] ELSE a[i + 1]
  BY <1>3 DEF Without
<1>5. CASE j = m + 1
  <2>1. \A i \in 1..m : w[i] = d[i]
    BY <1>2, <1>4, <1>5
  <2>2. Sum(w) = Sum(d)
    BY <2>1, SumEqual, Lengths
  <2> QED
    BY <1>2, <1>3, <1>5, <2>2
<1>6. CASE j # m + 1
  <2>1. PICK n \in Nat : m = n + 1 /\ n = m - 1
    BY <1>6
  <2>2. j \in 1..(n + 1) /\ m \in 1..m
    BY <1>6, <2>1
  <2>3. d \in [1..(n + 1) -> Int] /\ w \in [1..(n + 1) -> Int]
    BY <2>1
  <2>4. Sum(d) = Sum(Without(d, n, j)) + d[j]
    <3>1. PlaceFree(n)
      BY <2>1
    <3> QED
      BY <2>2, <2>3, <3>1 DEF PlaceFree
  <2>5. PICK v \in [1..n -> Int] : v = Without(d, n, j)
    BY <2>2, <2>3, WithoutType
  <2>6. \A i \in 1..n : v[i] = w[i]
    <3> SUFFICES ASSUME NEW i \in 1..n PROVE v[i] = w[i]
      OBVIOUS
    <3>1. i \in 1..m /\ i + 1 \in 1..m
      BY <2>1
    <3>2. v[i] = IF i < j THEN d[i] ELSE d[i + 1]
      BY <2>5 DEF Without
    <3> QED
      BY <1>2, <1>4, <3>1, <3>2
  <2>7. w[n + 1] = a[m + 1]
    BY <1>4, <2>1, <2>2
  <2>8. Sum(w) = Sum(v) + w[n + 1]
    <3>1. Len(v) = n /\ Len(w) = n + 1
      BY <2>3, Lengths
    <3> QED
      BY <2>6, <3>1, SumLast
  <2>9. Sum(v) \in Int /\ d[j] = a[j] /\ a[j] \in Int
    BY <1>2, <2>1, <2>2, SumInteger
  <2> QED
    BY <1>1, <1>2, <1>3, <2>4, <2>5, <2>7, <2>8, <2>9
<1> QED
  BY <1>5, <1>6

LEMMA SumWithout ==
  ASSUME NEW n \in Nat, NEW f \in [1..(n + 1) -> Int], NEW k \in 1..(n + 1)
  PROVE  Sum(f) = Sum(Without(f, n, k)) + f[k]
<1> DEFINE T == {m \in Nat : ~ PlaceFree(m)}
<1>1. ASSUME T # {} PROVE FALSE
  <2>1. PICK m \in T : \A y \in T : m <= y
    BY <1>1, LeastMember
  <2>2. m # 0 => m - 1 \in Nat /\ m - 1 \notin T
    BY <2>1
  <2> QED
    BY <2>1, <2>2, PlaceFreeNext
<1>2. PlaceFree(n)
  BY <1>1
<1> QED
  BY <1>2 DEF PlaceFree

\* Where a place is after place k was taken out.
Shifted(x, k) == IF x < k THEN x ELSE x - 1

LEMMA ShiftedPlaces ==
  ASSUME NEW n \in Nat, NEW k \in 1..(n + 1), NEW x \in 1..(n + 1), x # k
  PROVE  /\ Shifted(x, k) \in 1..n
         /\ \A y \in 1..(n + 1) : y # k /\ Shifted(y, k) = Shifted(x, k) => y = x
<1>1. Shifted(x, k) \in 1..n
  BY DEF Shifted
<1>2. ASSUME NEW y \in 1..(n + 1), y # k, Shifted(y, k) = Shifted(x, k) PROVE y = x
  BY <1>2 DEF Shifted
<1> QED
  BY <1>1, <1>2

LEMMA ShiftedValue ==
  ASSUME NEW n \in Nat, NEW k \in 1..(n + 1), NEW x \in 1..(n + 1), x # k, NEW f
  PROVE  Without(f, n, k)[Shifted(x, k)] = f[x]
<1>1. PICK y \in 1..n : y = Shifted(x, k)
  BY ShiftedPlaces
<1>2. Without(f, n, k)[y] = IF y < k THEN f[y] ELSE f[y + 1]
  BY DEF Without
<1>3. IF x < k THEN y = x /\ y < k ELSE y + 1 = x /\ ~ (y < k)
  BY <1>1 DEF Shifted
<1> QED
  BY <1>1, <1>2, <1>3

\* A sum does not depend on the order of its numbers.
Matched(n, a, b, q) ==
  /\ \A i, j \in 1..n : q[i] = q[j] => i = j
  /\ \A i \in 1..n : a[i] = b[q[i]]

OrderFree(n) ==
  \A a, b \in [1..n -> Int], q \in [1..n -> 1..n] : Matched(n, a, b, q) => Sum(a) = Sum(b)

LEMMA OrderFreeNext ==
  ASSUME NEW n \in Nat, OrderFree(n) PROVE OrderFree(n + 1)
<1> SUFFICES ASSUME NEW a \in [1..(n + 1) -> Int], NEW b \in [1..(n + 1) -> Int],
                    NEW q \in [1..(n + 1) -> 1..(n + 1)], Matched(n + 1, a, b, q)
             PROVE  Sum(a) = Sum(b)
  BY DEF OrderFree
<1>1. n + 1 \in 1..(n + 1) /\ \A i \in 1..n : i \in 1..(n + 1) /\ i # n + 1
  OBVIOUS
<1>2. PICK k \in 1..(n + 1) : k = q[n + 1]
  BY <1>1
<1>3. a[n + 1] = b[k] /\ \A i \in 1..n : a[i] = b[q[i]]
  BY <1>1, <1>2 DEF Matched
<1>4. \A i \in 1..n : q[i] \in 1..(n + 1) /\ q[i] # k
  BY <1>1, <1>2 DEF Matched
<1>5. PICK c \in [1..n -> Int] : (\A i \in 1..n : c[i] = a[i]) /\ Sum(a) = Sum(c) + a[n + 1]
  BY Shorter
<1>6. Without(b, n, k) \in [1..n -> Int] /\ Sum(b) = Sum(Without(b, n, k)) + b[k]
  BY WithoutType, SumWithout
<1> DEFINE r == [i \in 1..n |-> Shifted(q[i], k)]
<1>7. /\ r \in [1..n -> 1..n]
      /\ \A i \in 1..n : r[i] = Shifted(q[i], k)
  BY <1>4, ShiftedPlaces
<1> HIDE DEF r
<1>8. ASSUME NEW i \in 1..n, NEW j \in 1..n, r[i] = r[j] PROVE i = j
  <2>1. /\ q[i] \in 1..(n + 1) /\ q[i] # k /\ q[j] \in 1..(n + 1) /\ q[j] # k
        /\ Shifted(q[j], k) = Shifted(q[i], k)
    BY <1>4, <1>7, <1>8
  <2>2. q[j] = q[i]
    BY <2>1, ShiftedPlaces
  <2> QED
    BY <1>1, <2>2 DEF Matched
<1>9. ASSUME NEW i \in 1..n PROVE c[i] = Without(b, n, k)[r[i]]
  <2>1. q[i] \in 1..(n + 1) /\ q[i] # k /\ r[i] = Shifted(q[i], k)
    BY <1>4, <1>7
  <2>2. Without(b, n, k)[Shifted(q[i], k)] = b[q[i]]
    BY <2>1, ShiftedValue
  <2> QED
    BY <1>3, <1>5, <2>1, <2>2
<1>10. Matched(n, c, Without(b, n, k), r)
  BY <1>8, <1>9 DEF Matched
<1>11. Sum(c) = Sum(Without(b, n, k))
  BY <1>6, <1>7, <1>10 DEF OrderFree
<1> QED
  BY <1>3, <1>5, <1>6, <1>11

LEMMA SumPermuted ==
  ASSUME NEW n \in Nat, NEW f \in [1..n -> Int], NEW e \in [1..n -> Int],
         NEW p \in [1..n -> 1..n], Matched(n, f, e, p)
  PROVE  Sum(f) = Sum(e)
<1> DEFINE T == {m \in Nat : ~ OrderFree(m)}
<1>1. OrderFree(0)
  BY SumEmpty, Lengths DEF OrderFree
<1>2. ASSUME T # {} PROVE FALSE
  <2>1. PICK m \in T : \A y \in T : m <= y
    BY <1>2, LeastMember
  <2>2. m - 1 \in Nat /\ m - 1 \notin T /\ m - 1 + 1 = m
    BY <1>1, <2>1
  <2> QED
    BY <2>1, <2>2, OrderFreeNext
<1>3. OrderFree(n)
  BY <1>2
<1> QED
  BY <1>3 DEF OrderFree

\* Larger numbers, a larger sum.
Monotone(m) ==
  \A a, b \in [1..m -> Int] : (\A i \in 1..m : a[i] <= b[i]) => Sum(a) <= Sum(b)

LEMMA MonotoneNext ==
  ASSUME NEW n \in Nat, Monotone(n) PROVE Monotone(n + 1)
<1> SUFFICES ASSUME NEW a \in [1..(n + 1) -> Int], NEW b \in [1..(n + 1) -> Int],
                    \A i \in 1..(n + 1) : a[i] <= b[i]
             PROVE  Sum(a) <= Sum(b)
  BY DEF Monotone
<1>1. n + 1 \in 1..(n + 1)
  OBVIOUS
<1>2. PICK c \in [1..n -> Int] : (\A i \in 1..n : c[i] = a[i]) /\ Sum(a) = Sum(c) + a[n + 1]
  BY Shorter
<1>3. PICK d \in [1..n -> Int] : (\A i \in 1..n : d[i] = b[i]) /\ Sum(b) = Sum(d) + b[n + 1]
  BY Shorter
<1>4. \A i \in 1..n : c[i] <= d[i]
  BY <1>2, <1>3
<1>5. Sum(c) <= Sum(d)
  BY <1>4 DEF Monotone
<1>6. Sum(c) \in Int /\ Sum(d) \in Int
  BY SumInteger
<1>7. a[n + 1] <= b[n + 1] /\ a[n + 1] \in Int /\ b[n + 1] \in Int
  BY <1>1
<1> QED
  BY <1>2, <1>3, <1>5, <1>6, <1>7

LEMMA SumMonotone ==
  ASSUME NEW n \in Nat, NEW f \in [1..n -> Int], NEW e \in [1..n -> Int],
         \A i \in 1..n : f[i] <= e[i]
  PROVE  Sum(f) <= Sum(e)
<1> DEFINE T == {m \in Nat : ~ Monotone(m)}
<1>1. Monotone(0)
  BY SumEmpty, Lengths DEF Monotone
<1>2. ASSUME T # {} PROVE FALSE
  <2>1. PICK m \in T : \A y \in T : m <= y
    BY <1>2, LeastMember
  <2>2. m - 1 \in Nat /\ m - 1 \notin T /\ m - 1 + 1 = m
    BY <1>1, <2>1
  <2> QED
    BY <2>1, <2>2, MonotoneNext
<1>3. Monotone(n)
  BY <1>2
<1> QED
  BY <1>3 DEF Monotone

-----------------------------------------------------------------------------
(* The command line. *)

Commands == {"validate-input", "always-light", "self-check"}

FilesTyped ==
  /\ DOMAIN file = {"input", "outcomes", "policy", "submission", "report"}
  /\ InputTyped(file.input) /\ OutcomesTyped(file.outcomes, Whole)
  /\ PolicyTyped(file.policy, Whole)
  /\ DOMAIN file.submission = Tier /\ \A t \in Tier : SubmissionTyped(SubmissionOf(t))

CommandsTyped ==
  /\ command \in Commands \cup {"none"} /\ step \in 0..6
  /\ past \in Seq(Commands \X {0, 2, 137})

\* Files that self-check accepts, and those that always-light reads.
Accepted == Loaded /\ Scorable(file.input, file.outcomes, file.submission, file.policy)

Readable ==
  /\ InputParses(file.input) /\ PolicyParses(file.policy, Whole)
  /\ file.input.version = file.policy.version

Written(n) == \A k \in 1..n : SubmissionOf(TIERS[k]) = LightSubmission(TIERS[k])

\* What the commands under way have checked and done.
UnderWay ==
  /\ command = "self-check" /\ step > 0 => Accepted
  /\ command = "always-light" /\ step > 0 =>
       Readable /\ \A k \in 1..3 : 2 * k < step => SubmissionOf(TIERS[k]) = LightSubmission(TIERS[k])
  /\ command \notin {"self-check", "always-light"} => step = 0

Last(k, c) == Len(past) >= k /\ past[Len(past) + 1 - k] = c

\* What the commands before have left.
Left ==
  /\ Last(1, <<"self-check", 0>>) /\ command = "none" =>
       Accepted /\ file.report = Scored(file.input, file.outcomes, file.submission, file.policy)
  /\ Last(1, <<"always-light", 0>>) /\ command # "always-light" => Readable /\ Written(3)
  /\ Last(1, <<"self-check", 0>>) /\ Last(2, <<"always-light", 0>>) /\ command = "none" =>
       Readable /\ Written(3)

CheckInv == FilesTyped /\ CommandsTyped /\ UnderWay /\ Left

LEMMA TierPlaces ==
  /\ \A k \in 1..3 : TIERS[k] \in Tier
  /\ \A t \in Tier : \E k \in 1..3 : TIERS[k] = t
  /\ \A j, k \in 1..3 : TIERS[j] = TIERS[k] => j = k
<1>1. TIERS[1] = "fast" /\ TIERS[2] = "balanced" /\ TIERS[3] = "premium"
  BY DEF TIERS
<1>2. 1..3 = {1, 2, 3}
  OBVIOUS
<1> QED
  BY <1>1, <1>2 DEF Tier

\* The members of a sequence.
LEMMA Members ==
  ASSUME NEW S, NEW s \in Seq(S)
  PROVE  Len(s) \in Nat /\ \A k \in 1..Len(s) : s[k] \in S
OBVIOUS

\* What parsed documents are like.
LEMMA ParsedInput ==
  ASSUME NEW d, InputTyped(d), InputParses(d)
  PROVE  /\ d.version = 1 /\ d.challenge # "" /\ d.split # ""
         /\ Len(d.episodes) \in Nat \ {0} /\ UniqueIds(d.episodes)
         /\ \A i \in 1..Len(d.episodes) : d.episodes[i].id \in STRING
         /\ \A i \in 1..Len(d.episodes) : d.episodes[i].id # ""
<1> DEFINE e == d.episodes
<1>1. e \in Seq([id : STRING, shape : STRING])
  BY Zenon DEF InputTyped
<1>2. /\ UniqueIds(e) /\ d.version = 1 /\ d.challenge # "" /\ d.split # ""
      /\ \A i \in 1..Len(e) : e[i].id # ""
  BY DEF InputParses, Header, EpisodeParses
<1>3. e # <<>>
  BY DEF InputParses
<1> HIDE DEF e
<1>4. Len(e) \in Nat /\ \A i \in 1..Len(e) : e[i] \in [id : STRING, shape : STRING]
  BY <1>1, Members
<1>5. Len(e) # 0
  BY <1>1, <1>3
<1>6. \A i \in 1..Len(e) : e[i].id \in STRING
  BY <1>4
<1> QED
  BY <1>2, <1>4, <1>5, <1>6, Zenon DEF e

LEMMA ParsedPolicy ==
  ASSUME NEW d, PolicyParses(d, Whole), PolicyTyped(d, Whole)
  PROVE  /\ d.policy = "v1" /\ d.light \in ModelId /\ d.tokenUnit \in Int
         /\ d.rates \in [ModelId -> [fixed : Int, input : Int, output : Int]]
         /\ d.multiplier \in [Tier -> Int] /\ d.weight \in [Tier -> Int]
<1>1. d.policy = "v1" /\ d.light \in ModelId /\ d.tokenUnit \in Int
  BY SMT DEF PolicyParses
<1> QED
  BY <1>1, Zenon DEF PolicyTyped

LEMMA ParsedSubmission ==
  ASSUME NEW d, SubmissionTyped(d), SubmissionParses(d)
  PROVE  /\ Len(d.decisions) \in Nat /\ UniqueIds(d.decisions)
         /\ \A i \in 1..Len(d.decisions) : d.decisions[i].model \in ModelId
<1> DEFINE e == d.decisions
<1>1. e \in Seq([id : STRING, model : Int])
  BY Zenon DEF SubmissionTyped
<1>2. UniqueIds(e) /\ \A i \in 1..Len(e) : e[i].model \in ModelId
  BY DEF SubmissionParses
<1> HIDE DEF e
<1> QED
  BY <1>1, <1>2, Members DEF e

\* One model for every episode makes a submission that parses.
LEMMA LightDecisions ==
  ASSUME NEW e, Len(e) \in Nat \ {0}, UniqueIds(e), NEW m \in ModelId,
         \A k \in 1..Len(e) : e[k].id \in STRING,
         NEW made, made = [k \in 1..Len(e) |-> [id |-> e[k].id, model |-> m]]
  PROVE  /\ Len(made) = Len(e) /\ made # <<>>
         /\ \A k \in 1..Len(e) : made[k].id = e[k].id /\ made[k].model = m
         /\ UniqueIds(made)
         /\ made \in Seq([id : STRING, model : Int])
<1> DEFINE R == [id : STRING, model : Int]
<1>1. PICK n \in Nat \ {0} : n = Len(e)
  OBVIOUS
<1>2. ASSUME NEW k \in 1..n
      PROVE  /\ made[k] = [id |-> e[k].id, model |-> m] /\ made[k] \in R
             /\ made[k].id = e[k].id /\ made[k].model = m
  <2>1. made[k] = [id |-> e[k].id, model |-> m]
    BY <1>1
  <2>2. e[k].id \in STRING /\ m \in Int
    BY <1>1 DEF ModelId
  <2> QED
    BY <2>1, <2>2
<1>3. made \in [1..n -> R]
  <2>1. made = [k \in 1..n |-> made[k]]
    BY <1>1
  <2> HIDE DEF R
  <2> QED
    BY <1>2, <2>1
<1> HIDE DEF R
<1>4. Len(made) = n /\ made \in Seq(R)
  BY <1>3, Lengths
<1>5. made # <<>>
  BY <1>4
<1>6. UniqueIds(made)
  BY <1>1, <1>2, <1>4 DEF UniqueIds
<1> QED
  BY <1>1, <1>2, <1>4, <1>5, <1>6 DEF R

\* The submissions always-light writes parse.
LEMMA LightIsFile ==
  ASSUME FilesTyped, Readable, NEW t \in Tier
  PROVE  /\ SubmissionTyped(LightSubmission(t)) /\ SubmissionParses(LightSubmission(t))
         /\ LightSubmission(t).tier = t
         /\ Len(LightSubmission(t).decisions) = Len(file.input.episodes)
         /\ \A k \in 1..Len(file.input.episodes) :
              /\ LightSubmission(t).decisions[k].id = file.input.episodes[k].id
              /\ LightSubmission(t).decisions[k].model = file.policy.light
<1> DEFINE e == file.input.episodes
           made == LightSubmission(t).decisions
<1>1. /\ InputTyped(file.input) /\ InputParses(file.input)
      /\ PolicyParses(file.policy, Whole) /\ PolicyTyped(file.policy, Whole)
  BY DEF FilesTyped, Readable
<1>2. /\ file.policy.policy = "v1"
      /\ file.input.version = 1 /\ file.input.challenge # "" /\ file.input.split # ""
      /\ \A k \in 1..Len(e) : e[k].id # ""
  BY <1>1, ParsedInput, ParsedPolicy
<1>3. /\ file.policy.light \in ModelId /\ Len(e) \in Nat \ {0} /\ UniqueIds(e)
      /\ \A k \in 1..Len(e) : e[k].id \in STRING
  BY <1>1, ParsedInput, ParsedPolicy
<1>4. made = [k \in 1..Len(e) |-> [id |-> e[k].id, model |-> file.policy.light]]
  BY DEF LightSubmission
<1> DEFINE sub == LightSubmission(t)
<1>5. sub.readable /\ sub.fields /\ sub.version = file.input.version
  BY DEF LightSubmission
<1>6. /\ sub.challenge = file.input.challenge /\ sub.split = file.input.split
      /\ sub.policy = file.policy.policy /\ sub.tier = t
  BY DEF LightSubmission
<1>7. sub.decisions = made
  OBVIOUS
<1> HIDE DEF e, made, sub
<1>8. /\ Len(made) = Len(e) /\ made # <<>>
      /\ \A k \in 1..Len(e) : made[k].id = e[k].id /\ made[k].model = file.policy.light
      /\ UniqueIds(made)
      /\ made \in Seq([id : STRING, model : Int])
  BY <1>3, <1>4, LightDecisions
<1>9. \A k \in 1..Len(made) : made[k].id # "" /\ made[k].model \in ModelId
  BY <1>2, <1>3, <1>8
<1>10. made # <<>> /\ UniqueIds(made)
  BY <1>8
<1>11. sub.challenge # "" /\ sub.split # "" /\ sub.policy # "" /\ sub.version = 1
  BY <1>2, <1>5, <1>6
<1>12. SubmissionParses(sub)
  BY <1>5, <1>6, <1>7, <1>9, <1>10, <1>11 DEF SubmissionParses, Header
<1>13. SubmissionTyped(sub)
  BY <1>7, <1>8, Zenon DEF SubmissionTyped
<1> QED
  BY <1>6, <1>7, <1>8, <1>12, <1>13, Zenon DEF sub, e, made

\* The tier of a step that opens and of one that fills.
LEMMA WrittenTier ==
  ASSUME NEW n
  PROVE  /\ n \in {1, 3, 5} => TIERS[(n + 1) \div 2] \in Tier
         /\ n \in {2, 4, 6} => TIERS[n \div 2] \in Tier
<1>1. /\ (1 + 1) \div 2 = 1 /\ (3 + 1) \div 2 = 2 /\ (5 + 1) \div 2 = 3
      /\ 2 \div 2 = 1 /\ 4 \div 2 = 2 /\ 6 \div 2 = 3
  OBVIOUS
<1> QED
  BY <1>1, TierPlaces

\* The files that nobody writes stay, and the others are of their types.
LEMMA FilesKept ==
  ASSUME CheckInv, CheckNext
  PROVE  FilesTyped' /\ UNCHANGED <<file.input, file.outcomes, file.policy>>
<1>1. CASE UNCHANGED file
  BY <1>1 DEF CheckInv, FilesTyped, SubmissionOf
<1>2. ASSUME NEW t \in Tier, NEW s, SubmissionTyped(s), file' = [file EXCEPT !.submission[t] = s]
      PROVE  FilesTyped' /\ UNCHANGED <<file.input, file.outcomes, file.policy>>
  <2>1. /\ UNCHANGED <<file.input, file.outcomes, file.policy>> /\ DOMAIN file' = DOMAIN file
        /\ file.submission' = [file.submission EXCEPT ![t] = s]
    BY <1>2 DEF CheckInv, FilesTyped
  <2> QED
    BY <1>2, <2>1 DEF CheckInv, FilesTyped, SubmissionOf
<1>3. CASE OpenSubmission
  <2>1. PICK t \in Tier : file' = [file EXCEPT !.submission[t] = Emptied]
    BY <1>3, WrittenTier DEF OpenSubmission
  <2>2. SubmissionTyped(Emptied)
    BY DEF SubmissionTyped, SubmissionParses, Emptied
  <2> QED
    BY <1>2, <2>1, <2>2
<1>4. CASE FillSubmission
  <2>1. PICK t \in Tier : file' = [file EXCEPT !.submission[t] = LightSubmission(t)]
    BY <1>4, WrittenTier DEF FillSubmission
  <2>2. SubmissionTyped(LightSubmission(t))
    BY <1>4, LightIsFile DEF CheckInv, UnderWay, FillSubmission
  <2> QED
    BY <1>2, <2>1, <2>2
<1>5. CASE OpenReport \/ FillReport
  <2>1. /\ UNCHANGED <<file.input, file.outcomes, file.policy, file.submission>>
        /\ DOMAIN file' = DOMAIN file
    BY <1>5 DEF OpenReport, FillReport, CheckInv, FilesTyped
  <2> QED
    BY <2>1 DEF CheckInv, FilesTyped, SubmissionOf
<1> QED
  BY <1>1, <1>3, <1>4, <1>5
     DEF CheckNext, Enter, ValidateInput, AlwaysLightReads, SelfCheckReads, CommandFails

\* What is said of the files that are read is the same when they are.
LEMMA SameFiles ==
  ASSUME UNCHANGED <<file.input, file.outcomes, file.policy, file.submission>>
  PROVE  /\ Accepted => Accepted'
         /\ Readable => Readable'
         /\ \A n : Written(n) => Written(n)'
<1>1. \A t : LightSubmission(t)' = LightSubmission(t) /\ SubmissionOf(t)' = SubmissionOf(t)
  BY DEF LightSubmission, SubmissionOf
<1>2. Loaded => Loaded'
  BY <1>1 DEF Loaded
<1> QED
  BY <1>1, <1>2 DEF Accepted, Readable, Written

\* One more command in the past.
LEMMA OneMore ==
  ASSUME CommandsTyped, NEW x, x \in Commands \X {0, 2, 137}, past' = Append(past, x)
  PROVE  /\ past' \in Seq(Commands \X {0, 2, 137})
         /\ \A c : Last(1, c)' <=> x = c
         /\ \A c : Last(2, c)' <=> Last(1, c)
<1> DEFINE S == Commands \X {0, 2, 137}
<1>1. past \in Seq(S) /\ x \in S
  BY DEF CommandsTyped
<1> HIDE DEF S
<1>2. /\ past' \in Seq(S) /\ Len(past) \in Nat /\ Len(past') = Len(past) + 1
      /\ past'[Len(past) + 1] = x /\ \A k \in 1..Len(past) : past'[k] = past[k]
  BY <1>1
<1>3. \A c : Last(1, c)' <=> x = c
  BY <1>2 DEF Last
<1>4. \A c : Last(2, c)' <=> Last(1, c)
  <2>1. Len(past) >= 1 => Len(past) \in 1..Len(past)
    BY <1>2
  <2> QED
    BY <1>2, <2>1 DEF Last
<1> QED
  BY <1>2, <1>3, <1>4 DEF S

LEMMA AppendLonger ==
  ASSUME NEW x, CommandsTyped PROVE Append(past, x) # past
<1>1. Len(Append(past, x)) = Len(past) + 1 /\ Len(past) \in Nat
  BY DEF CommandsTyped
<1> QED
  BY <1>1

\* A command that ends leaves what is said of its kind of end.
LEMMA EndKeeps ==
  ASSUME CheckInv, NEW code \in {0, 2, 137}, command \in Commands, CommandEnds(code),
         UNCHANGED <<file.input, file.outcomes, file.policy>>,
         <<command, code>> = <<"self-check", 0>> =>
           /\ UNCHANGED file.submission /\ Accepted
           /\ file'.report = Scored(file.input, file.outcomes, file.submission, file.policy),
         <<command, code>> = <<"always-light", 0>> => Readable' /\ Written(3)'
  PROVE  CommandsTyped' /\ UnderWay' /\ Left'
<1> DEFINE checked == <<"self-check", 0>>
           light == <<"always-light", 0>>
<1>1. /\ command' = "none" /\ step' = 0
      /\ past' \in Seq(Commands \X {0, 2, 137})
      /\ Last(1, checked)' => <<command, code>> = checked
      /\ Last(1, light)' => <<command, code>> = light
      /\ Last(2, light)' => Last(1, light)
  BY OneMore DEF CheckInv, CommandEnds
<1>2. CommandsTyped' /\ UnderWay'
  BY <1>1 DEF CommandsTyped, UnderWay
<1>3. Last(1, checked)' =>
        /\ Accepted'
        /\ file'.report = Scored(file.input, file.outcomes, file.submission, file.policy)'
  BY <1>1, SameFiles
<1>4. Last(1, light)' => Readable' /\ Written(3)'
  BY <1>1
<1>5. Last(1, checked)' /\ Last(2, light)' => Readable' /\ Written(3)'
  <2> SUFFICES ASSUME Last(1, checked)', Last(2, light)' PROVE Readable' /\ Written(3)'
    OBVIOUS
  <2>1. <<command, code>> = checked /\ command = "self-check" /\ command # "always-light"
    BY <1>1
  <2>2. Last(1, light)
    BY <1>1
  <2>3. Readable /\ Written(3)
    BY <2>1, <2>2 DEF CheckInv, Left
  <2> QED
    BY <2>1, <2>3, SameFiles
<1>6. Left'
  BY <1>3, <1>4, <1>5, Zenon DEF Left
<1> QED
  BY <1>2, <1>6

\* The tiers written so far, one after the other.
LEMMA OpenKeeps ==
  ASSUME CheckInv, OpenSubmission PROVE CommandsTyped' /\ UnderWay' /\ Left'
<1>1. /\ command = "always-light" /\ UNCHANGED <<command, past>>
      /\ step \in {1, 3, 5} /\ step' = step + 1
      /\ CheckNext
  BY DEF OpenSubmission, CheckNext
<1>2. UNCHANGED <<file.input, file.outcomes, file.policy>>
  BY <1>1, FilesKept
<1>3. PICK n \in 1..3 : step = 2 * n - 1 /\ (step + 1) \div 2 = n
  <2>1. (1 + 1) \div 2 = 1 /\ (3 + 1) \div 2 = 2 /\ (5 + 1) \div 2 = 3
    OBVIOUS
  <2> QED
    BY <1>1, <2>1
<1>4. \A k \in 1..3 : k # n => SubmissionOf(TIERS[k])' = SubmissionOf(TIERS[k])
  <2>1. file' = [file EXCEPT !.submission[TIERS[n]] = Emptied]
    BY <1>3 DEF OpenSubmission
  <2>2. file.submission' = [file.submission EXCEPT ![TIERS[n]] = Emptied]
    BY <2>1 DEF CheckInv, FilesTyped
  <2> QED
    BY <2>2, TierPlaces DEF SubmissionOf, CheckInv, FilesTyped
<1>5. \A t : LightSubmission(t)' = LightSubmission(t)
  BY <1>2 DEF LightSubmission
<1>6. \A k \in 1..3 : 2 * k < step' => SubmissionOf(TIERS[k])' = LightSubmission(TIERS[k])'
  <2> SUFFICES ASSUME NEW k \in 1..3, 2 * k < step'
               PROVE  SubmissionOf(TIERS[k])' = LightSubmission(TIERS[k])'
    OBVIOUS
  <2>1. k # n /\ 2 * k < step
    BY <1>1, <1>3
  <2> QED
    BY <1>1, <1>4, <1>5, <2>1 DEF CheckInv, UnderWay
<1>7. Readable'
  BY <1>1, <1>2 DEF CheckInv, UnderWay, Readable
<1>8. CommandsTyped'
  BY <1>1 DEF CheckInv, CommandsTyped
<1>9. UnderWay'
  BY <1>1, <1>6, <1>7 DEF UnderWay
<1>10. Left'
  BY <1>1 DEF Left
<1> QED
  BY <1>8, <1>9, <1>10

LEMMA FillKeeps ==
  ASSUME CheckInv, FillSubmission PROVE CommandsTyped' /\ UnderWay' /\ Left'
<1>1. command = "always-light" /\ step \in {2, 4, 6} /\ CheckNext
  BY DEF FillSubmission, CheckNext
<1>2. UNCHANGED <<file.input, file.outcomes, file.policy>>
  BY <1>1, FilesKept
<1>3. PICK n \in 1..3 : step = 2 * n /\ step \div 2 = n
  <2>1. 2 \div 2 = 1 /\ 4 \div 2 = 2 /\ 6 \div 2 = 3
    OBVIOUS
  <2> QED
    BY <1>1, <2>1
<1>4. /\ \A k \in 1..3 : k # n => SubmissionOf(TIERS[k])' = SubmissionOf(TIERS[k])
      /\ SubmissionOf(TIERS[n])' = LightSubmission(TIERS[n])
  <2>1. file' = [file EXCEPT !.submission[TIERS[n]] = LightSubmission(TIERS[n])]
    BY <1>3 DEF FillSubmission
  <2>2. file.submission' = [file.submission EXCEPT ![TIERS[n]] = LightSubmission(TIERS[n])]
    BY <2>1 DEF CheckInv, FilesTyped
  <2> QED
    BY <2>2, TierPlaces DEF SubmissionOf, CheckInv, FilesTyped
<1>5. \A t : LightSubmission(t)' = LightSubmission(t)
  BY <1>2 DEF LightSubmission
<1>6. \A k \in 1..n : SubmissionOf(TIERS[k])' = LightSubmission(TIERS[k])'
  <2> SUFFICES ASSUME NEW k \in 1..n
               PROVE  SubmissionOf(TIERS[k])' = LightSubmission(TIERS[k])'
    OBVIOUS
  <2>1. k \in 1..3 /\ (k # n => 2 * k < step) /\ step > 0
    BY <1>3
  <2> QED
    BY <1>1, <1>4, <1>5, <2>1 DEF CheckInv, UnderWay
<1>7. Readable'
  <2>1. Readable
    BY <1>1 DEF CheckInv, UnderWay
  <2> QED
    BY <1>2, <2>1 DEF Readable
<1>8. CASE step = 6
  <2>1. n = 3 /\ Written(3)'
    BY <1>3, <1>6, <1>8 DEF Written
  <2>2. CommandEnds(0)
    BY <1>8 DEF FillSubmission
  <2> QED
    BY <1>1, <1>2, <1>7, <2>1, <2>2, EndKeeps DEF Commands
<1>9. CASE step # 6
  <2>1. step' = step + 1 /\ UNCHANGED <<command, past>> /\ step \in {2, 4}
    BY <1>1, <1>9 DEF FillSubmission
  <2>2. \A k \in 1..3 : 2 * k < step' => k \in 1..n
    BY <1>3, <2>1
  <2>3. CommandsTyped'
    BY <2>1 DEF CheckInv, CommandsTyped
  <2>4. UnderWay'
    BY <1>1, <1>6, <1>7, <2>1, <2>2 DEF UnderWay
  <2>5. Left'
    BY <1>1, <2>1 DEF Left
  <2> QED
    BY <2>3, <2>4, <2>5
<1> QED
  BY <1>8, <1>9

LEMMA OtherKeeps ==
  ASSUME CheckInv, CheckNext, ~ OpenSubmission, ~ FillSubmission
  PROVE  CommandsTyped' /\ UnderWay' /\ Left'
<1>1. UNCHANGED <<file.input, file.outcomes, file.policy>>
  BY FilesKept
<1>2. CASE Enter
  <2>1. command = "none" /\ command' \in Commands /\ UNCHANGED <<file, step, past>> /\ step = 0
    BY <1>2 DEF Enter, Commands, CheckInv, UnderWay
  <2>2. CommandsTyped' /\ UnderWay'
    BY <2>1 DEF CheckInv, CommandsTyped, UnderWay, Commands
  <2>3. Left'
    BY <2>1, SameFiles DEF CheckInv, Left, Last, Commands
  <2> QED
    BY <2>2, <2>3
<1>3. CASE ValidateInput
  <2>1. PICK code \in {0, 2} : CommandEnds(code)
    BY <1>3 DEF ValidateInput
  <2>2. command = "validate-input"
    BY <1>3 DEF ValidateInput
  <2> QED
    BY <1>1, <2>1, <2>2, EndKeeps DEF Commands
<1>4. CASE (AlwaysLightReads \/ SelfCheckReads \/ CommandFails) /\ past' # past
  <2>1. PICK code \in {2, 137} : CommandEnds(code)
    BY <1>4 DEF AlwaysLightReads, SelfCheckReads, CommandFails
  <2>2. command \in Commands
    BY <1>4 DEF AlwaysLightReads, SelfCheckReads, CommandFails, CheckInv, UnderWay, Commands
  <2>3. code # 0
    OBVIOUS
  <2> QED
    BY <1>1, <2>1, <2>2, <2>3, EndKeeps
<1>5. CASE CommandFails /\ past' = past
  BY <1>5, AppendLonger DEF CommandFails, CommandEnds, CheckInv
<1>6. CASE AlwaysLightReads /\ past' = past
  <2>1. /\ command = "always-light" /\ UNCHANGED <<command, file>> /\ step' = 1 /\ Readable
    BY <1>6, AppendLonger DEF AlwaysLightReads, Readable, CommandEnds, CheckInv, CommandsTyped
  <2>2. CommandsTyped' /\ Left'
    BY <1>6, <2>1 DEF CheckInv, CommandsTyped, Left
  <2>3. UnderWay'
    <3>1. Readable' /\ \A k \in 1..3 : ~ (2 * k < 1)
      BY <2>1, SameFiles
    <3> QED
      BY <2>1, <3>1 DEF UnderWay
  <2> QED
    BY <2>2, <2>3
<1>7. CASE SelfCheckReads /\ past' = past
  <2>1. /\ command = "self-check" /\ UNCHANGED <<command, file>> /\ step' = 1 /\ Accepted
    BY <1>7, AppendLonger DEF SelfCheckReads, Accepted, CommandEnds, CheckInv, CommandsTyped
  <2>2. CommandsTyped'
    BY <1>7, <2>1 DEF CheckInv, CommandsTyped
  <2>3. Left'
    BY <1>7, <2>1, SameFiles DEF CheckInv, Left, Last
  <2>4. UnderWay'
    BY <2>1, SameFiles DEF UnderWay
  <2> QED
    BY <2>2, <2>3, <2>4
<1>8. CASE OpenReport
  <2>1. /\ command = "self-check" /\ UNCHANGED <<command, past>> /\ step = 1 /\ step' = 2
        /\ file.submission' = file.submission
    BY <1>8 DEF OpenReport, CheckInv, FilesTyped
  <2>2. CommandsTyped'
    BY <2>1 DEF CheckInv, CommandsTyped
  <2>3. Left'
    BY <1>1, <2>1, SameFiles DEF CheckInv, Left, Last
  <2>4. UnderWay'
    BY <1>1, <2>1, SameFiles DEF CheckInv, UnderWay
  <2> QED
    BY <2>2, <2>3, <2>4
<1>9. CASE FillReport
  <2>1. /\ command = "self-check" /\ CommandEnds(0) /\ Accepted
        /\ file.submission' = file.submission
        /\ file'.report = Scored(file.input, file.outcomes, file.submission, file.policy)
    BY <1>9 DEF FillReport, CheckInv, FilesTyped, UnderWay
  <2> QED
    BY <1>1, <2>1, EndKeeps DEF Commands
<1> QED
  BY <1>2, <1>3, <1>4, <1>5, <1>6, <1>7, <1>8, <1>9 DEF CheckNext

LEMMA CheckInvariant == CheckSpec => []CheckInv
<1>1. CheckInit => CheckInv
  <2> SUFFICES ASSUME CheckInit PROVE CheckInv
    OBVIOUS
  <2>1. PICK c \in Cases :
          file = [input |-> c.input, outcomes |-> c.outcomes, policy |-> c.policy,
                  submission |-> c.submission, report |-> Emptied]
    BY DEF CheckInit
  <2>2. command = "none" /\ step = 0 /\ past = <<>>
    BY DEF CheckInit
  <2>3. FilesTyped
    BY <2>1, CasesAssumption DEF FilesTyped, SubmissionOf
  <2>4. CommandsTyped /\ UnderWay /\ Left
    BY <2>2 DEF CommandsTyped, UnderWay, Left, Last
  <2> QED
    BY <2>3, <2>4 DEF CheckInv
<1>2. CheckInv /\ [CheckNext]_checkVars => CheckInv'
  <2> SUFFICES ASSUME CheckInv, [CheckNext]_checkVars PROVE CheckInv'
    OBVIOUS
  <2>1. CASE CheckNext
    BY <2>1, FilesKept, OpenKeeps, FillKeeps, OtherKeeps DEF CheckInv
  <2>2. CASE UNCHANGED checkVars
    <3>1. UNCHANGED <<file, command, step, past>>
      BY <2>2 DEF checkVars
    <3>2. FilesTyped' /\ CommandsTyped'
      BY <3>1 DEF CheckInv, FilesTyped, CommandsTyped, SubmissionOf
    <3>3. UnderWay' /\ Left'
      BY <3>1, SameFiles DEF CheckInv, UnderWay, Left, Last, SubmissionOf, LightSubmission
    <3> QED
      BY <3>2, <3>3 DEF CheckInv
  <2> QED
    BY <2>1, <2>2
<1> QED
  BY <1>1, <1>2, PTL DEF CheckSpec

-----------------------------------------------------------------------------
(* What a report is worth. *)

\* Each entry of one list has an entry of its ID in another, different ones different ones.
Found(s, u, p) ==
  /\ p \in [1..Len(s) -> 1..Len(u)]
  /\ \A i \in 1..Len(s) : u[p[i]].id = s[i].id
  /\ \A i, j \in 1..Len(s) : p[i] = p[j] => i = j

LEMMA NotLonger ==
  ASSUME NEW s, NEW u, Len(s) \in Nat, Len(u) \in Nat, UniqueIds(s), Ids(s) \subseteq Ids(u)
  PROVE  /\ Len(s) <= Len(u)
         /\ \E p : Found(s, u, p)
<1>1. PICK n \in Nat, m \in Nat : n = Len(s) /\ m = Len(u)
  OBVIOUS
<1> DEFINE p == [i \in 1..n |-> CHOOSE k \in 1..m : u[k].id = s[i].id]
<1>2. ASSUME NEW i \in 1..n PROVE p[i] \in 1..m /\ u[p[i]].id = s[i].id
  <2>1. \E k \in 1..m : u[k].id = s[i].id
    BY <1>1 DEF Ids
  <2> QED
    BY <2>1
<1>3. p \in [1..n -> 1..m]
  BY <1>2
<1> HIDE DEF p
<1>4. \A i, j \in 1..n : p[i] = p[j] => i = j
  <2> SUFFICES ASSUME NEW i \in 1..n, NEW j \in 1..n, p[i] = p[j] PROVE i = j
    OBVIOUS
  <2>1. s[i].id = s[j].id
    BY <1>2
  <2> QED
    BY <1>1, <2>1 DEF UniqueIds
<1>5. n <= m
  <2>1. \A k \in Nat : IsFiniteSet(1..k) /\ Cardinality(1..k) = k
    <3> SUFFICES ASSUME NEW k \in Nat PROVE IsFiniteSet(1..k) /\ Cardinality(1..k) = k
      OBVIOUS
    <3>1. 1 \in Int /\ k \in Int
      OBVIOUS
    <3>2. /\ IsFiniteSet(1..k)
          /\ Cardinality(1..k) = IF 1 > k THEN 0 ELSE k - 1 + 1
      BY <3>1, FS_Interval, Zenon
    <3> QED
      BY <3>2
  <2>2. p \in Injection(1..n, 1..m)
    BY <1>3, <1>4 DEF Injection, IsInjective
  <2> QED
    BY <2>1, <2>2, FS_Injection
<1> QED
  BY <1>1, <1>2, <1>3, <1>4, <1>5 DEF Found

LEMMA HalfEvenNear ==
  ASSUME NEW n \in Int, NEW d \in Nat \ {0}
  PROVE  /\ HalfEven(n, d) \in Int
         /\ 2 * (n - HalfEven(n, d) * d) <= d /\ 2 * (HalfEven(n, d) * d - n) <= d
<1> DEFINE q == n \div d
           r == n % d
<1>1. q \in Int /\ r \in 0..(d - 1) /\ n = q * d + r
  OBVIOUS
<1>2. HalfEven(n, d) = IF 2 * r > d \/ (2 * r = d /\ q % 2 = 1) THEN q + 1 ELSE q
  BY Zenon DEF HalfEven
<1> HIDE DEF q, r
<1>3. (q + 1) * d = q * d + d /\ q * d \in Int
  BY <1>1
<1>4. CASE 2 * r > d \/ (2 * r = d /\ q % 2 = 1)
  BY <1>1, <1>2, <1>3, <1>4
<1>5. CASE ~ (2 * r > d \/ (2 * r = d /\ q % 2 = 1))
  BY <1>1, <1>2, <1>3, <1>5
<1> QED
  BY <1>4, <1>5

\* Outcomes that parsed have a result of each model for each of their episodes.
LEMMA ParsedOutcome ==
  ASSUME NEW o, OutcomesTyped(o, Whole), OutcomesParse(o, Whole),
         NEW id \in Ids(o.episodes), NEW m \in ModelId
  PROVE  Outcome(o, id, m) \in [score : Int, generations : Int, input : Int, output : Int]
<1> DEFINE e == o.episodes
           R == [score : Int, generations : Int, input : Int, output : Int]
<1>1. e \in Seq([id : STRING, models : [ModelId -> R]])
  BY Zenon DEF OutcomesTyped
<1>2. PICK k : k \in 1..Len(e) /\ Outcome(o, id, m) = e[k].models[m]
  <2>1. \E k \in 1..Len(e) : e[k].id = id
    BY DEF Ids
  <2> QED
    BY <2>1 DEF Outcome
<1> HIDE DEF e
<1>3. e[k] \in [id : STRING, models : [ModelId -> R]]
  BY <1>1, <1>2, Members
<1> QED
  BY <1>2, <1>3

LEMMA ResultCostInteger ==
  ASSUME NEW r \in [score : Int, generations : Int, input : Int, output : Int],
         NEW rates \in [fixed : Int, input : Int, output : Int], NEW p, p.tokenUnit \in Int
  PROVE  ResultCost(r, rates, p) \in Int
<1>1. /\ rates.fixed * p.tokenUnit \in Int /\ r.input * rates.input \in Int
      /\ r.output * rates.output \in Int
  OBVIOUS
<1> QED
  BY <1>1 DEF ResultCost

\* The cost of a choice of one model for every episode.
LEMMA CostInteger ==
  ASSUME NEW i, InputTyped(i), InputParses(i),
         NEW o, OutcomesTyped(o, Whole), OutcomesParse(o, Whole), MatrixComplete(i, o),
         NEW p, PolicyTyped(p, Whole), PolicyParses(p, Whole),
         NEW choice, \A id \in Ids(i.episodes) : choice[id] \in ModelId
  PROVE  TotalCost(i, o, p, choice) \in Int
<1>1. PICK n \in Nat : n = Len(i.episodes)
  BY ParsedInput
<1> DEFINE cost == [k \in 1..n |->
                      LET id == i.episodes[k].id
                      IN ResultCost(Outcome(o, id, choice[id]), p.rates[choice[id]], p)]
<1>2. ASSUME NEW k \in 1..n PROVE cost[k] \in Int
  <2> DEFINE id == i.episodes[k].id
  <2>1. id \in Ids(i.episodes) /\ id \in Ids(o.episodes)
    BY <1>1 DEF Ids, MatrixComplete
  <2>2. choice[id] \in ModelId
    BY <2>1
  <2>3. Outcome(o, id, choice[id]) \in [score : Int, generations : Int, input : Int, output : Int]
    BY <2>1, <2>2, ParsedOutcome
  <2>4. p.rates[choice[id]] \in [fixed : Int, input : Int, output : Int] /\ p.tokenUnit \in Int
    BY <2>2, ParsedPolicy
  <2>5. ResultCost(Outcome(o, id, choice[id]), p.rates[choice[id]], p) \in Int
    BY <2>3, <2>4, ResultCostInteger
  <2> QED
    BY <2>5
<1>3. cost \in [1..n -> Int]
  BY <1>2
<1>4. TotalCost(i, o, p, choice) = Sum(cost)
  BY <1>1, Zenon DEF TotalCost
<1> HIDE DEF cost
<1> QED
  BY <1>3, <1>4, SumInteger

\* The decision of an ID that has one.
LEMMA DecidedOnce ==
  ASSUME NEW sub, Len(sub.decisions) \in Nat, UniqueIds(sub.decisions),
         NEW k \in 1..Len(sub.decisions)
  PROVE  Decided(sub, sub.decisions[k].id) = sub.decisions[k].model
<1> DEFINE made == sub.decisions
           P(a) == /\ made[a].id = made[k].id
                   /\ \A l \in a + 1..Len(made) : made[l].id # made[k].id
<1>1. P(k)
  <2> SUFFICES ASSUME NEW l \in k + 1..Len(made), made[l].id = made[k].id PROVE FALSE
    OBVIOUS
  <2>1. l \in 1..Len(made) /\ l # k
    OBVIOUS
  <2> QED
    BY <2>1 DEF UniqueIds
<1>2. \A a \in 1..Len(made) : P(a) => a = k
  BY DEF UniqueIds
<1>3. (CHOOSE a \in 1..Len(made) : P(a)) = k
  BY <1>1, <1>2
<1> QED
  BY <1>3, Zenon DEF Decided

\* A file that decides every episode: the episodes and their decisions are as many,
\* and every sum over the episodes is one over the decisions.
Worth(i, o, sub, n) ==
  /\ n \in Nat /\ Len(sub.decisions) = n
  /\ \A e \in 1..n : \E k \in 1..n :
       {l \in 1..n : sub.decisions[l].id = i.episodes[e].id} = {k}
  /\ \A id \in Ids(i.episodes) : Decided(sub, id) \in ModelId
  /\ Quality(i, o, sub) \in Int
  /\ Quality(i, o, sub)
       = Sum([k \in 1..n |-> Outcome(o, sub.decisions[k].id, sub.decisions[k].model).score])

LEMMA FileEarned ==
  ASSUME NEW i, InputTyped(i), InputParses(i),
         NEW o, OutcomesTyped(o, Whole), OutcomesParse(o, Whole), MatrixComplete(i, o),
         NEW sub, SubmissionTyped(sub), SubmissionParses(sub), DecidesAll(i, sub),
         NEW n, n = Len(i.episodes)
  PROVE  Worth(i, o, sub, n)
<1> DEFINE made == sub.decisions
           eps == i.episodes
<1>1. /\ n \in Nat /\ UniqueIds(eps) /\ Len(made) \in Nat /\ UniqueIds(made)
      /\ \A k \in 1..Len(made) : made[k].model \in ModelId
  BY ParsedInput, ParsedSubmission
<1>2. Ids(made) = Ids(eps) /\ Ids(eps) = Ids(o.episodes)
  BY DEF DecidesAll, MatrixComplete
<1>3. Len(made) <= Len(eps)
  BY <1>1, <1>2, NotLonger
<1>4. Len(eps) <= Len(made) /\ \E q : Found(eps, made, q)
  BY <1>1, <1>2, NotLonger
<1>5. Len(made) = n
  BY <1>1, <1>3, <1>4
<1>6. PICK q \in [1..n -> 1..n] :
        /\ \A k \in 1..n : made[q[k]].id = eps[k].id
        /\ \A k, l \in 1..n : q[k] = q[l] => k = l
  BY <1>4, <1>5 DEF Found
<1>7. ASSUME NEW k \in 1..n
      PROVE  /\ Decided(sub, made[k].id) = made[k].model /\ made[k].model \in ModelId
             /\ made[k].id \in Ids(eps) /\ made[k].id \in Ids(o.episodes)
             /\ Outcome(o, made[k].id, made[k].model).score \in Int
  <2>1. Decided(sub, made[k].id) = made[k].model /\ made[k].model \in ModelId
    BY <1>1, <1>5, DecidedOnce
  <2>2. made[k].id \in Ids(made)
    BY <1>5 DEF Ids
  <2>3. Outcome(o, made[k].id, made[k].model)
          \in [score : Int, generations : Int, input : Int, output : Int]
    BY <1>2, <2>1, <2>2, ParsedOutcome
  <2> QED
    BY <1>2, <2>1, <2>2, <2>3
<1>8. ASSUME NEW k \in 1..n PROVE Decided(sub, eps[k].id) = made[q[k]].model /\ q[k] \in 1..n
  <2>1. q[k] \in 1..n /\ made[q[k]].id = eps[k].id
    BY <1>6
  <2> QED
    BY <1>7, <2>1
<1> DEFINE f == [k \in 1..n |-> Outcome(o, eps[k].id, Decided(sub, eps[k].id)).score]
           g == [k \in 1..n |-> Outcome(o, made[k].id, made[k].model).score]
<1>9. \A k \in 1..n : f[k] = g[q[k]] /\ g[k] \in Int
  <2> SUFFICES ASSUME NEW k \in 1..n PROVE f[k] = g[q[k]] /\ g[k] \in Int
    OBVIOUS
  <2>1. f[k] = Outcome(o, eps[k].id, made[q[k]].model).score
    BY <1>8
  <2>2. g[q[k]] = Outcome(o, made[q[k]].id, made[q[k]].model).score
    BY <1>8
  <2> QED
    BY <1>6, <1>7, <2>1, <2>2
<1>10. f \in [1..n -> Int] /\ g \in [1..n -> Int]
  <2>1. \A k \in 1..n : f[k] \in Int
    BY <1>6, <1>9
  <2> QED
    BY <1>9, <2>1
<1>11. Quality(i, o, sub) = Sum(f)
  BY Zenon DEF Quality
<1>12. \A e \in 1..n : \E k \in 1..n : {l \in 1..n : made[l].id = eps[e].id} = {k}
  <2> SUFFICES ASSUME NEW e \in 1..n PROVE {l \in 1..n : made[l].id = eps[e].id} = {q[e]}
    BY <1>6
  <2> QED
    BY <1>1, <1>5, <1>6 DEF UniqueIds
<1>13. \A id \in Ids(eps) : Decided(sub, id) \in ModelId
  <2> SUFFICES ASSUME NEW k \in 1..n PROVE Decided(sub, eps[k].id) \in ModelId
    BY DEF Ids
  <2> QED
    BY <1>7, <1>8
<1> HIDE DEF f, g
<1>14. Sum(f) = Sum(g) /\ Sum(f) \in Int
  <2>1. Matched(n, f, g, q)
    BY <1>6, <1>9 DEF Matched
  <2> QED
    BY <1>1, <1>10, <2>1, SumPermuted, SumInteger
<1> QED
  BY <1>1, <1>5, <1>11, <1>12, <1>13, <1>14 DEF f, g, Worth

\* The file of a tier is one of the three, and scores like any other.
LEMMA TierFile ==
  ASSUME FilesTyped, Accepted, NEW t \in Tier
  PROVE  LET sub == OfTier(file.submission, t)
         IN /\ \E n \in Tier : sub = SubmissionOf(n)
            /\ sub.tier = t /\ SubmissionTyped(sub) /\ SubmissionParses(sub)
            /\ DecidesAll(file.input, sub)
<1>1. \E n \in Tier : file.submission[n].tier = t
  BY DEF Accepted, Scorable
<1>2. PICK n \in Tier : n = CHOOSE x \in Tier : file.submission[x].tier = t
  BY <1>1
<1>3. OfTier(file.submission, t) = SubmissionOf(n) /\ SubmissionOf(n).tier = t
  BY <1>1, <1>2 DEF OfTier, SubmissionOf
<1> QED
  BY <1>2, <1>3 DEF FilesTyped, Accepted, Loaded, Scorable, SubmissionOf

\* The parsed documents of files that are accepted.
LEMMA AcceptedFiles ==
  ASSUME FilesTyped, Accepted
  PROVE  /\ InputTyped(file.input) /\ InputParses(file.input)
         /\ OutcomesTyped(file.outcomes, Whole) /\ OutcomesParse(file.outcomes, Whole)
         /\ PolicyTyped(file.policy, Whole) /\ PolicyParses(file.policy, Whole)
         /\ MatrixComplete(file.input, file.outcomes)
BY DEF FilesTyped, Accepted, Loaded, Scorable

\* What a tier's entry in the report says, in terms of the files.
LEMMA TierEarned ==
  ASSUME FilesTyped, Accepted, NEW t \in Tier,
         NEW report,
         report = TierReport(file.input, file.outcomes, OfTier(file.submission, t), file.policy, t)
  PROVE  LET n == Len(file.input.episodes)
             made == OfTier(file.submission, t).decisions
         IN /\ Len(made) = n
            /\ \A e \in 1..n : \E k \in 1..n : Decisions(t, file.input.episodes[e]) = {k}
            /\ report.points \in Int
            /\ report.points # 0 =>
                 /\ report.points =
                      Sum([k \in 1..n |-> Outcome(file.outcomes, made[k].id, made[k].model).score])
                 /\ report.cost * Ratio
                      <= LightTotal(file.input, file.outcomes, file.policy)
                           * file.policy.multiplier[t]
<1> DEFINE i == file.input
           o == file.outcomes
           p == file.policy
           sub == OfTier(file.submission, t)
           exact == Sum([k \in 1..Len(i.episodes) |->
                           Outcome(o, sub.decisions[k].id, sub.decisions[k].model).score])
<1>1. /\ SubmissionTyped(sub) /\ SubmissionParses(sub) /\ DecidesAll(i, sub)
      /\ InputTyped(i) /\ InputParses(i)
      /\ OutcomesTyped(o, Whole) /\ OutcomesParse(o, Whole) /\ MatrixComplete(i, o)
  BY TierFile, AcceptedFiles
<1>2. PICK n \in Nat : n = Len(i.episodes)
  BY <1>1, ParsedInput
<1>3. /\ Len(sub.decisions) = n
      /\ \A e \in 1..n : \E k \in 1..n :
           {l \in 1..n : sub.decisions[l].id = i.episodes[e].id} = {k}
      /\ Quality(i, o, sub) \in Int
      /\ Quality(i, o, sub)
           = Sum([k \in 1..n |-> Outcome(o, sub.decisions[k].id, sub.decisions[k].model).score])
  <2>1. Worth(i, o, sub, n)
    BY <1>1, <1>2, FileEarned
  <2> QED
    BY <2>1, Zenon DEF Worth
<1>4. \A e \in 1..n : \E k \in 1..n : Decisions(t, i.episodes[e]) = {k}
  BY <1>3 DEF Decisions
<1>5. Quality(i, o, sub) = exact
  BY <1>2, <1>3
<1>6. /\ report.points = IF InBudget(i, o, sub, p, t) THEN Quality(i, o, sub) ELSE 0
      /\ report.cost = Spent(i, o, sub, p)
  BY DEF TierReport
<1>7. InBudget(i, o, sub, p, t) =>
        report.cost * Ratio <= LightTotal(i, o, p) * p.multiplier[t]
  BY <1>6 DEF InBudget
<1> HIDE DEF exact
<1>8. /\ report.points \in Int
      /\ report.points # 0 => report.points = exact /\ InBudget(i, o, sub, p, t)
  <2> HIDE DEF i, o, p, sub
  <2> QED
    BY <1>3, <1>5, <1>6
<1> QED
  BY <1>2, <1>3, <1>4, <1>7, <1>8 DEF exact

LEMMA FinalNear ==
  ASSUME FilesTyped, Accepted, NEW reports,
         \A t \in Tier : reports[t].points \in Int
  PROVE  LET n == Len(file.input.episodes)
             exact == Sum([k \in 1..3 |-> reports[TIERS[k]].points
                                            * file.policy.weight[TIERS[k]]]) * Quantum
             shown == Final(file.input, reports, file.policy) * n * Whole * Whole
         IN 2 * (exact - shown) <= n * Whole * Whole /\ 2 * (shown - exact) <= n * Whole * Whole
<1>1. PICK n \in Nat \ {0} : n = Len(file.input.episodes)
  BY AcceptedFiles, ParsedInput
<1> DEFINE weighted == [k \in 1..3 |-> reports[TIERS[k]].points * file.policy.weight[TIERS[k]]]
           exact == Sum(weighted) * Quantum
           unit == n * Whole * Whole
           final == Final(file.input, reports, file.policy)
<1>2. \A k \in 1..3 : weighted[k] \in Int
  <2>1. file.policy.weight \in [Tier -> Int]
    BY AcceptedFiles, ParsedPolicy
  <2>2. \A k \in 1..3 : reports[TIERS[k]].points \in Int /\ file.policy.weight[TIERS[k]] \in Int
    BY <2>1, TierPlaces
  <2> QED
    BY <2>2
<1>3. weighted \in [1..3 -> Int]
  BY <1>2
<1>4. final = HalfEven(exact, unit)
  BY <1>1, Zenon DEF Final
<1> HIDE DEF weighted
<1>5. exact \in Int
  <2>1. Sum(weighted) \in Int
    <3>1. 3 \in Nat
      OBVIOUS
    <3> QED
      BY <1>3, <3>1, SumInteger, Zenon
  <2>2. Quantum \in Int
    BY UnitsAssumption
  <2> QED
    BY <2>1, <2>2
<1>6. unit \in Nat \ {0}
  <2>1. PICK w \in Nat \ {0} : w = Whole
    BY UnitsAssumption
  <2>2. n * w \in Nat \ {0}
    <3>1. n * w >= w
      OBVIOUS
    <3> QED
      BY <3>1
  <2>3. PICK x \in Nat \ {0} : x = n * w
    BY <2>2
  <2>4. x * w >= w /\ x * w \in Int
    BY <2>3
  <2> QED
    BY <2>1, <2>3, <2>4
<1> HIDE DEF exact, unit, final
<1>7. /\ final \in Int
      /\ 2 * (exact - final * unit) <= unit /\ 2 * (final * unit - exact) <= unit
  BY <1>4, <1>5, <1>6, HalfEvenNear
<1>8. final * n * Whole * Whole = final * unit
  <2>1. Whole \in Int /\ n \in Int
    BY UnitsAssumption
  <2>2. \A a, b, c \in Int : a * b * c * c = a * (b * c * c)
    OBVIOUS
  <2> QED
    BY <1>7, <2>1, <2>2 DEF unit
<1> QED
  BY <1>1, <1>7, <1>8 DEF exact, unit, final, weighted

\* What a report says is what the files are worth: every tier's file decides each
\* episode once, the points are those of its decisions within the budget, and the
\* final score is rounded from the exact points (score_submissions).
THEOREM ReportsEarned == CheckSpec => []ReportEarned
<1>1. CheckInv => ReportEarned
  <2> SUFFICES ASSUME CheckInv, Ends(<<<<"self-check", 0>>>>)
               PROVE  ReportEarned
    BY DEF ReportEarned
  <2>1. /\ FilesTyped /\ Accepted
        /\ file.report = Scored(file.input, file.outcomes, file.submission, file.policy)
    <3>1. /\ command = "none" /\ Len(past) >= 1
          /\ past[Len(past) - 1 + 1] = <<"self-check", 0>> /\ Len(past) \in Nat
      BY DEF Ends, CheckInv, CommandsTyped
    <3>2. Last(1, <<"self-check", 0>>)
      BY <3>1 DEF Last
    <3> QED
      BY <3>1, <3>2 DEF CheckInv, Left
  <2> DEFINE reports == [t \in Tier |-> TierReport(file.input, file.outcomes,
                                                   OfTier(file.submission, t), file.policy, t)]
  <2>2. file.report.tiers = reports /\ file.report.final = Final(file.input, reports, file.policy)
    BY <2>1 DEF Scored
  <2>3. ASSUME NEW t \in Tier
        PROVE  reports[t] = TierReport(file.input, file.outcomes,
                                       OfTier(file.submission, t), file.policy, t)
    OBVIOUS
  <2> HIDE DEF reports
  <2>4. \A t \in Tier : reports[t].points \in Int
    BY <2>1, <2>3, TierEarned
  <2>5. LET n == Len(file.input.episodes)
            exact == Sum([k \in 1..3 |-> file.report.tiers[TIERS[k]].points
                                           * file.policy.weight[TIERS[k]]]) * Quantum
            shown == file.report.final * n * Whole * Whole
        IN 2 * (exact - shown) <= n * Whole * Whole /\ 2 * (shown - exact) <= n * Whole * Whole
    BY <2>1, <2>2, <2>4, FinalNear, Zenon
  <2>6. ASSUME NEW t \in Tier
        PROVE  LET n == Len(file.input.episodes)
                   made == OfTier(file.submission, t).decisions
                   earned == file.report.tiers[t]
               IN /\ Len(made) = n
                  /\ \A e \in 1..n : \E k \in 1..n : Decisions(t, file.input.episodes[e]) = {k}
                  /\ earned.points # 0 =>
                       /\ earned.points =
                            Sum([k \in 1..n |->
                                   Outcome(file.outcomes, made[k].id, made[k].model).score])
                       /\ earned.cost * Ratio
                            <= LightTotal(file.input, file.outcomes, file.policy)
                                 * file.policy.multiplier[t]
    BY <2>1, <2>2, <2>3, TierEarned, Zenon
  <2> QED
    BY <2>5, <2>6, Zenon DEF ReportEarned
<1> QED
  BY <1>1, CheckInvariant, PTL

-----------------------------------------------------------------------------
(* What always-light is worth. *)

LEMMA LightFiles ==
  ASSUME Written(3), NEW t \in Tier PROVE SubmissionOf(t) = LightSubmission(t)
BY TierPlaces DEF Written

\* The submissions of always-light are accepted where the outcomes belong to the input.
LEMMA LightAccepted ==
  ASSUME FilesTyped, Readable, Written(3), Suitable PROVE Accepted
<1> DEFINE i == file.input
           o == file.outcomes
           p == file.policy
<1>1. ASSUME NEW t \in Tier
      PROVE  /\ SubmissionParses(file.submission[t]) /\ file.submission[t].tier = t
             /\ Matching(file.submission[t], i) /\ file.submission[t].policy = p.policy
             /\ DecidesAll(i, file.submission[t])
  <2> DEFINE sub == LightSubmission(t)
  <2>1. file.submission[t] = sub
    BY LightFiles DEF SubmissionOf
  <2>2. /\ SubmissionParses(sub) /\ sub.tier = t
        /\ Len(sub.decisions) = Len(i.episodes)
        /\ \A k \in 1..Len(i.episodes) : sub.decisions[k].id = i.episodes[k].id
    BY LightIsFile
  <2>3. Matching(sub, i) /\ sub.policy = p.policy
    BY DEF LightSubmission, Matching
  <2> HIDE DEF sub, i
  <2>4. DecidesAll(i, sub)
    BY <2>2 DEF DecidesAll, Ids
  <2> QED
    BY <2>1, <2>2, <2>3, <2>4
<1>2. Loaded
  BY <1>1 DEF Loaded, Readable, Suitable, SubmissionOf
<1>3. {file.submission[n].tier : n \in Tier} = Tier
  BY <1>1
<1>4. SharedMetadata(i, o, file.submission, p)
  BY <1>1 DEF SharedMetadata, Readable, Suitable
<1>5. Scorable(i, o, file.submission, p)
  BY <1>1, <1>3, <1>4 DEF Scorable, Suitable
<1> QED
  BY <1>2, <1>5 DEF Accepted

\* A tier that always-light wrote costs what the light model costs.
LEMMA LightSpent ==
  ASSUME FilesTyped, Readable, Written(3), NEW t \in Tier
  PROVE  /\ OfTier(file.submission, t) = LightSubmission(t)
         /\ Spent(file.input, file.outcomes, LightSubmission(t), file.policy)
              = LightTotal(file.input, file.outcomes, file.policy)
<1> DEFINE i == file.input
           sub == LightSubmission(t)
<1>1. \A n \in Tier : file.submission[n] = LightSubmission(n) /\ file.submission[n].tier = n
  BY LightFiles, LightIsFile DEF SubmissionOf
<1>2. OfTier(file.submission, t) = sub
  <2>1. (CHOOSE n \in Tier : file.submission[n].tier = t) = t
    BY <1>1
  <2> QED
    BY <1>1, <2>1 DEF OfTier
<1>3. /\ SubmissionTyped(sub) /\ SubmissionParses(sub)
      /\ Len(sub.decisions) = Len(i.episodes)
      /\ \A k \in 1..Len(i.episodes) :
           sub.decisions[k].id = i.episodes[k].id /\ sub.decisions[k].model = file.policy.light
  BY LightIsFile
<1>4. Len(sub.decisions) \in Nat /\ UniqueIds(sub.decisions)
  BY <1>3, ParsedSubmission
<1> HIDE DEF i, sub
<1>5. \A id \in Ids(i.episodes) : Decided(sub, id) = file.policy.light
  <2> SUFFICES ASSUME NEW k \in 1..Len(i.episodes)
               PROVE  Decided(sub, i.episodes[k].id) = file.policy.light
    BY DEF Ids
  <2>1. Decided(sub, sub.decisions[k].id) = sub.decisions[k].model
    BY <1>3, <1>4, DecidedOnce
  <2> QED
    BY <1>3, <2>1
<1>6. [id \in Ids(i.episodes) |-> Decided(sub, id)] = [id \in Ids(i.episodes) |-> file.policy.light]
  BY <1>5
<1>7. Spent(i, file.outcomes, sub, file.policy) = LightTotal(i, file.outcomes, file.policy)
  BY <1>6 DEF Spent, LightTotal
<1> QED
  BY <1>2, <1>7 DEF i, sub

\* always-light leaves files that self-check accepts, and each tier then passes
\* (run_always_light, score_submissions).
THEOREM LightPasses == CheckSpec => []LightScores
<1>1. CheckInv => LightScores
  <2> SUFFICES ASSUME CheckInv, Suitable PROVE LightScores
    BY DEF LightScores
  <2>1. FilesTyped /\ Len(past) \in Nat
    BY DEF CheckInv, CommandsTyped
  <2>2. ASSUME Ends(<<<<"always-light", 0>>>>)
        PROVE  Loaded /\ Scorable(file.input, file.outcomes, file.submission, file.policy)
    <3>1. /\ command = "none" /\ Len(past) >= 1
          /\ past[Len(past) - 1 + 1] = <<"always-light", 0>>
      BY <2>1, <2>2 DEF Ends
    <3>2. Last(1, <<"always-light", 0>>)
      BY <2>1, <3>1 DEF Last
    <3>3. Readable /\ Written(3)
      BY <3>1, <3>2 DEF CheckInv, Left
    <3> QED
      BY <2>1, <3>3, LightAccepted DEF Accepted
  <2>3. ASSUME Ends(<<<<"always-light", 0>>, <<"self-check", 0>>>>), NEW t \in Tier
        PROVE  file.report.tiers[t].passed
    <3> DEFINE cost == LightTotal(file.input, file.outcomes, file.policy)
    <3>1. /\ command = "none" /\ Len(past) >= 2
          /\ past[Len(past) - 2 + 1] = <<"always-light", 0>>
          /\ past[Len(past) - 2 + 2] = <<"self-check", 0>>
      BY <2>1, <2>3 DEF Ends
    <3>2. Last(1, <<"self-check", 0>>) /\ Last(2, <<"always-light", 0>>)
      BY <2>1, <3>1 DEF Last
    <3>3. /\ Readable /\ Written(3) /\ Accepted
          /\ file.report = Scored(file.input, file.outcomes, file.submission, file.policy)
      BY <3>1, <3>2 DEF CheckInv, Left
    <3>4. /\ OfTier(file.submission, t) = LightSubmission(t)
          /\ Spent(file.input, file.outcomes, LightSubmission(t), file.policy) = cost
      BY <2>1, <3>3, LightSpent
    <3>5. file.report.tiers[t].passed
            = InBudget(file.input, file.outcomes, LightSubmission(t), file.policy, t)
      BY <3>3, <3>4 DEF Scored, TierReport
    <3>6. /\ cost \in Int /\ cost > 0
          /\ file.policy.multiplier[t] \in Int /\ Ratio \in Int
          /\ file.policy.multiplier[t] >= Ratio
      <4>1. file.policy.light \in ModelId /\ file.policy.multiplier \in [Tier -> Int]
        BY <2>1, <3>3, AcceptedFiles, ParsedPolicy
      <4>2. \A id \in Ids(file.input.episodes) :
              [x \in Ids(file.input.episodes) |-> file.policy.light][id] \in ModelId
        BY <4>1
      <4>3. cost \in Int
        BY <2>1, <3>3, <4>2, AcceptedFiles, CostInteger DEF LightTotal
      <4>4. Ratio \in Int
        BY UnitsAssumption
      <4> QED
        BY <4>1, <4>3, <4>4 DEF Suitable
    <3> HIDE DEF cost
    <3>7. cost * Ratio <= cost * file.policy.multiplier[t]
      <4>1. PICK c \in Int, r \in Int, m \in Int :
              c = cost /\ r = Ratio /\ m = file.policy.multiplier[t]
        BY <3>6
      <4>2. c > 0 /\ m >= r
        BY <3>6, <4>1
      <4>3. c * r <= c * m
        BY <4>2
      <4> QED
        BY <4>1, <4>3
    <3> QED
      BY <3>4, <3>5, <3>7 DEF InBudget, cost
  <2> QED
    BY <2>2, <2>3, Zenon DEF LightScores
<1> QED
  BY <1>1, CheckInvariant, PTL

-----------------------------------------------------------------------------
(* The tie-break.  The order of a repetition is the list of submissions turned by *)
(* as many places.                                                             *)

\* What leaves the remainder m.
LEMMA Remainder ==
  ASSUME NEW n \in Nat \ {0}, NEW x \in Int, NEW q \in Int, NEW m \in 0..(n - 1), x = q * n + m
  PROVE  x % n = m
<1> DEFINE d == x \div n
           r == x % n
<1>1. d \in Int /\ r \in 0..(n - 1) /\ x = d * n + r
  OBVIOUS
<1> HIDE DEF d, r
<1>2. (d - q) * n = m - r /\ (q - d) * n = r - m
  BY <1>1
<1>3. ~ (d - q >= 1)
  <2> SUFFICES ASSUME d - q >= 1 PROVE FALSE
    OBVIOUS
  <2>1. (d - q) * n >= n
    BY <1>1
  <2> QED
    BY <1>1, <1>2, <2>1
<1>4. ~ (q - d >= 1)
  <2> SUFFICES ASSUME q - d >= 1 PROVE FALSE
    OBVIOUS
  <2>1. (q - d) * n >= n
    BY <1>1
  <2> QED
    BY <1>1, <1>2, <2>1
<1>5. d = q
  BY <1>1, <1>3, <1>4
<1> QED
  BY <1>1, <1>5 DEF r

LEMMA RemainderIs ==
  ASSUME NEW n \in Nat \ {0}, NEW x \in Int
  PROVE  \E m \in 0..(n - 1), q \in Int : x % n = m /\ x = q * n + m
<1> DEFINE d == x \div n
           r == x % n
<1>1. d \in Int /\ r \in 0..(n - 1) /\ x = d * n + r
  OBVIOUS
<1> HIDE DEF d, r
<1>2. \E m \in 0..(n - 1), q \in Int : r = m /\ x = q * n + m
  BY <1>1
<1> QED
  BY <1>2 DEF r

\* Numbers of one remainder are the same or n apart.
LEMMA SameRemainder ==
  ASSUME NEW n \in Nat \ {0}, NEW x \in Int, NEW y \in Int, x % n = y % n,
         x - y < n, y - x < n
  PROVE  x = y
<1>1. PICK m \in 0..(n - 1), a \in Int : x % n = m /\ x = a * n + m
  BY RemainderIs
<1>2. PICK k \in 0..(n - 1), b \in Int : y % n = k /\ y = b * n + k
  BY RemainderIs
<1>3. y = b * n + m
  BY <1>1, <1>2
<1>4. x - y = (a - b) * n /\ y - x = (b - a) * n
  BY <1>1, <1>3
<1>5. ~ (a - b >= 1)
  <2> SUFFICES ASSUME a - b >= 1 PROVE FALSE
    OBVIOUS
  <2>1. (a - b) * n >= n
    OBVIOUS
  <2> QED
    BY <1>4, <2>1
<1>6. ~ (b - a >= 1)
  <2> SUFFICES ASSUME b - a >= 1 PROVE FALSE
    OBVIOUS
  <2>1. (b - a) * n >= n
    OBVIOUS
  <2> QED
    BY <1>4, <2>1
<1>7. a = b
  BY <1>5, <1>6
<1> QED
  BY <1>1, <1>7, <1>3

LEMMA Turned ==
  ASSUME NEW n \in Nat \ {0}, NEW x \in Int PROVE (x - n) % n = x % n
<1>1. PICK m \in 0..(n - 1), q \in Int : x % n = m /\ x = q * n + m
  BY RemainderIs
<1>3. PICK y \in Int, p \in Int : y = x - n /\ p = q - 1
  OBVIOUS
<1>4. y = p * n + m
  BY <1>1, <1>3
<1>5. y % n = m
  BY <1>4, Remainder
<1> QED
  BY <1>1, <1>3, <1>5

\* Who is measured at place p of repetition r.
Stands(n, p, r) == ((p - 1 + (r - 1)) % n) + 1

LEMMA StandsOnce ==
  ASSUME NEW n \in Nat \ {0}, NEW r \in Int
  PROVE  /\ \A p \in 1..n : Stands(n, p, r) \in 1..n
         /\ \A p, q \in 1..n : Stands(n, p, r) = Stands(n, q, r) => p = q
         /\ \A c \in 1..n : \E p \in 1..n : Stands(n, p, r) = c
<1>1. ASSUME NEW p \in 1..n PROVE Stands(n, p, r) \in 1..n
  <2>1. (p - 1 + (r - 1)) % n \in 0..(n - 1)
    BY RemainderIs
  <2> QED
    BY <2>1 DEF Stands
<1>2. ASSUME NEW p \in 1..n, NEW q \in 1..n, Stands(n, p, r) = Stands(n, q, r) PROVE p = q
  <2>1. PICK x \in Int, y \in Int : x = p - 1 + (r - 1) /\ y = q - 1 + (r - 1)
    OBVIOUS
  <2>2. x % n = y % n
    <3>1. (x % n) + 1 = (y % n) + 1 /\ x % n \in Int /\ y % n \in Int
      BY <1>2, <2>1, RemainderIs DEF Stands
    <3> QED
      BY <3>1
  <2>3. x = y
    <3>1. x - y < n /\ y - x < n
      BY <2>1
    <3> QED
      BY <2>2, <3>1, SameRemainder
  <2> QED
    BY <2>1, <2>3
<1>3. ASSUME NEW c \in 1..n PROVE \E p \in 1..n : Stands(n, p, r) = c
  <2>0. PICK z \in Int : z = c - r
    OBVIOUS
  <2>1. PICK m \in 0..(n - 1), q \in Int : z = q * n + m
    BY RemainderIs
  <2>2. PICK x \in Int, b \in Int : x = (m + 1) - 1 + (r - 1) /\ b = - q
    OBVIOUS
  <2>3. x = b * n + (c - 1)
    <3>1. b * n = - (q * n)
      BY <2>2
    <3> QED
      BY <2>0, <2>1, <2>2, <3>1
  <2>4. x % n = c - 1
    BY <2>3, Remainder
  <2>5. Stands(n, m + 1, r) = c
    BY <2>2, <2>4 DEF Stands
  <2> QED
    BY <2>5
<1> QED
  BY <1>1, <1>2, <1>3

LEMMA Counting ==
  ASSUME NEW n \in Nat, NEW S, S \subseteq 1..n
  PROVE  IsFiniteSet(S) /\ Cardinality(S) \in Nat /\ IsFiniteSet(1..n) /\ Cardinality(1..n) = n
<1>1. 1 \in Int /\ n \in Int
  OBVIOUS
<1>2. /\ IsFiniteSet(1..n)
      /\ Cardinality(1..n) = IF 1 > n THEN 0 ELSE n - 1 + 1
  BY <1>1, FS_Interval, Zenon
<1>3. IsFiniteSet(S) /\ Cardinality(S) \in Nat
  BY <1>2, FS_Subset, FS_CardinalityType
<1> QED
  BY <1>2, <1>3

\* The repetitions in which c stands at place p.
AtPlace(n, m, c, p) == {r \in 1..m : Stands(n, p, r) = c}

\* Everybody stands at every place equally often, but for one time.
LEMMA TakesTurns ==
  ASSUME NEW n \in Nat \ {0}, NEW m \in Nat, NEW c, NEW p \in 1..n, NEW q \in 1..n
  PROVE  Cardinality(AtPlace(n, m, c, p)) <= Cardinality(AtPlace(n, m, c, q)) + 1
<1> DEFINE P == AtPlace(n, m, c, p)
           Q == AtPlace(n, m, c, q)
<1>1. PICK s \in 0..(n - 1) : IF p <= q THEN s = q - p ELSE s = q - p + n
  <2>1. CASE p <= q
    BY <2>1
  <2>2. CASE ~ (p <= q)
    BY <2>2
  <2> QED
    BY <2>1, <2>2
<1> DEFINE Early == {r \in P : r <= s}
           Later == {r \in P : r > s}
<1>2. P \subseteq 1..m /\ Q \subseteq 1..m
  BY DEF AtPlace
<1>3. ASSUME NEW r \in P PROVE Stands(n, q, r - s) = c
  <2>1. PICK x \in Int : x = p - 1 + (r - 1)
    BY <1>2
  <2>2. (x % n) + 1 = c
    BY <2>1 DEF AtPlace, Stands
  <2>3. q - 1 + ((r - s) - 1) = IF p <= q THEN x ELSE x - n
    BY <1>1, <1>2, <2>1
  <2> QED
    BY <2>2, <2>3, Turned DEF Stands
<1>4. ASSUME NEW r \in Later PROVE r - s \in Q
  <2>1. r \in 1..m /\ r > s /\ r - s \in 1..m
    BY <1>2
  <2> QED
    BY <1>3, <2>1 DEF AtPlace
<1>5. ASSUME NEW a \in Early, NEW b \in Early PROVE a = b
  <2>1. a \in 1..m /\ b \in 1..m /\ a <= s /\ b <= s
    BY <1>2
  <2>2. PICK x \in Int, y \in Int : x = p - 1 + (a - 1) /\ y = p - 1 + (b - 1)
    BY <2>1
  <2>3. (x % n) + 1 = c /\ (y % n) + 1 = c
    BY <2>2 DEF AtPlace, Stands
  <2>4. x % n = y % n
    BY <2>3, RemainderIs
  <2>5. x - y < n /\ y - x < n
    BY <2>1, <2>2
  <2>6. x = y
    BY <2>4, <2>5, SameRemainder
  <2> QED
    BY <2>1, <2>2, <2>6
<1> HIDE DEF P, Q
<1>6. /\ IsFiniteSet(Q) /\ Cardinality(Q) \in Nat
      /\ IsFiniteSet(Early) /\ Cardinality(Early) \in Nat
      /\ IsFiniteSet(Later) /\ Cardinality(Later) \in Nat
  <2>1. Early \subseteq 1..m /\ Later \subseteq 1..m
    BY <1>2
  <2> HIDE DEF Early, Later
  <2> QED
    BY <1>2, <2>1, Counting
<1>7. Cardinality(Later) <= Cardinality(Q)
  <2> DEFINE g == [r \in Later |-> r - s]
  <2>1. g \in [Later -> Q]
    BY <1>4
  <2>2. \A a, b \in Later : g[a] = g[b] => a = b
    BY <1>2
  <2> HIDE DEF g, Later
  <2>3. g \in Injection(Later, Q)
    BY <2>1, <2>2 DEF Injection, IsInjective
  <2> QED
    BY <1>6, <2>3, FS_Injection
<1>8. Cardinality(Early) <= 1
  <2>1. CASE Early = {}
    BY <2>1, FS_EmptySet
  <2>2. CASE Early # {}
    <3>1. PICK a : Early = {a}
      BY <1>5, <2>2
    <3> QED
      BY <3>1, FS_Singleton
  <2> QED
    BY <2>1, <2>2
<1>9. Cardinality(P) <= Cardinality(Early) + Cardinality(Later)
  <2>1. P = Early \cup Later /\ Early \cap Later = {}
    <3>1. \A r \in P : r <= s \/ r > s
      BY <1>2
    <3>2. \A r \in P : ~ (r <= s /\ r > s)
      BY <1>2
    <3> QED
      BY <3>1, <3>2
  <2> HIDE DEF Early, Later
  <2>2. Cardinality(P) = Cardinality(Early) + Cardinality(Later) - Cardinality(Early \cap Later)
    BY <1>6, <2>1, FS_Union
  <2>3. Cardinality(Early \cap Later) = 0
    BY <2>1, FS_EmptySet
  <2> QED
    BY <1>6, <2>2, <2>3
<1> HIDE DEF Early, Later
<1>10. Cardinality(P) \in Nat
  BY <1>2, Counting
<1> QED
  BY <1>6, <1>7, <1>8, <1>9, <1>10 DEF P, Q

\* The median of runs of which fewer than half differ from u.
LEMMA MedianUsual ==
  ASSUME NEW m \in Nat, NEW s \in [1..m -> Int], NEW u \in Int,
         NEW D, D \subseteq 1..m, 2 * Cardinality(D) < m,
         \A r \in (1..m) \ D : s[r] = u
  PROVE  Median(s) = u
<1> DEFINE Below(x) == {i \in 1..m : s[i] < x}
           UpTo(x) == {i \in 1..m : s[i] <= x}
           Middle(x) == /\ 2 * Cardinality(Below(x)) < m
                        /\ 2 * Cardinality(UpTo(x)) > m
<1>1. Len(s) = m
  OBVIOUS
<1>2. \A x : /\ IsFiniteSet(Below(x)) /\ Cardinality(Below(x)) \in Nat
             /\ IsFiniteSet(UpTo(x)) /\ Cardinality(UpTo(x)) \in Nat
  BY Counting
<1>3. IsFiniteSet(D) /\ Cardinality(D) \in Nat /\ IsFiniteSet(1..m) /\ Cardinality(1..m) = m
  BY Counting
<1>4. u \in {s[i] : i \in 1..m}
  <2>1. D # 1..m
    BY <1>3
  <2>2. PICK r \in 1..m : r \notin D
    BY <2>1
  <2> QED
    BY <2>2
<1>5. Middle(u)
  <2>1. Below(u) \subseteq D
    OBVIOUS
  <2>2. Cardinality(Below(u)) <= Cardinality(D)
    BY <1>3, <2>1, FS_Subset
  <2>3. 1..m = D \cup UpTo(u)
    <3>1. \A r \in 1..m : r \in D \/ r \in UpTo(u)
      OBVIOUS
    <3> QED
      BY <3>1
  <2> HIDE DEF Below, UpTo
  <2>4. Cardinality(D \cup UpTo(u))
          = Cardinality(D) + Cardinality(UpTo(u)) - Cardinality(D \cap UpTo(u))
    BY <1>2, <1>3, FS_Union
  <2>5. Cardinality(D \cap UpTo(u)) \in Nat
    BY <1>3, FS_Intersection, FS_CardinalityType
  <2>6. m <= Cardinality(D) + Cardinality(UpTo(u))
    <3>1. Cardinality(D \cup UpTo(u)) = m
      BY <1>3, <2>3, Zenon
    <3> QED
      BY <1>2, <1>3, <2>4, <2>5, <3>1
  <2> QED
    BY <1>2, <1>3, <2>2, <2>6
<1>6. ASSUME NEW x \in {s[i] : i \in 1..m}, Middle(x) PROVE x = u
  <2>1. x \in Int
    OBVIOUS
  <2>2. ASSUME x < u PROVE FALSE
    <3>1. UpTo(x) \subseteq Below(u)
      BY <2>1, <2>2
    <3>2. Cardinality(UpTo(x)) <= Cardinality(Below(u))
      BY <1>2, <3>1, FS_Subset
    <3> HIDE DEF Below, UpTo
    <3> QED
      BY <1>2, <1>5, <1>6, <3>2
  <2>3. ASSUME u < x PROVE FALSE
    <3>1. UpTo(u) \subseteq Below(x)
      BY <2>1, <2>3
    <3>2. Cardinality(UpTo(u)) <= Cardinality(Below(x))
      BY <1>2, <3>1, FS_Subset
    <3> HIDE DEF Below, UpTo
    <3> QED
      BY <1>2, <1>5, <1>6, <3>2
  <2> QED
    BY <2>1, <2>2, <2>3
<1>7. Median(s) = CHOOSE x \in {s[i] : i \in 1..m} : Middle(x)
  BY <1>1, Zenon DEF Median
<1> HIDE DEF Middle
<1> QED
  BY <1>4, <1>5, <1>6, <1>7

\* Ranks go by the times in ticks.
LEMMA RanksOrder ==
  ASSUME NEW n \in Nat, NEW totals, DOMAIN totals = 1..n,
         \A c \in 1..n : Ticks(totals[c]) \in Int,
         NEW c \in 1..n, NEW d \in 1..n
  PROVE  Ranks(totals)[c] <= Ranks(totals)[d] <=> Ticks(totals[c]) <= Ticks(totals[d])
<1> DEFINE Faster(x) == {e \in 1..n : Ticks(totals[e]) < Ticks(totals[x])}
<1>1. \A x \in 1..n : Ranks(totals)[x] = 1 + Cardinality(Faster(x))
  BY DEF Ranks
<1>2. \A x : IsFiniteSet(Faster(x)) /\ Cardinality(Faster(x)) \in Nat
  BY Counting
<1>3. CASE Ticks(totals[c]) <= Ticks(totals[d])
  <2>1. Faster(c) \subseteq Faster(d)
    BY <1>3
  <2>2. Cardinality(Faster(c)) <= Cardinality(Faster(d))
    BY <1>2, <2>1, FS_Subset
  <2> HIDE DEF Faster
  <2> QED
    BY <1>1, <1>2, <1>3, <2>2
<1>4. CASE ~ (Ticks(totals[c]) <= Ticks(totals[d]))
  <2>1. Faster(d) \cup {d} \subseteq Faster(c) /\ d \notin Faster(d)
    BY <1>4
  <2> HIDE DEF Faster
  <2>2. Cardinality(Faster(d) \cup {d}) = Cardinality(Faster(d)) + 1
    BY <1>2, <2>1, FS_AddElement
  <2>3. Cardinality(Faster(d) \cup {d}) <= Cardinality(Faster(c))
    BY <1>2, <2>1, FS_Subset
  <2> QED
    BY <1>1, <1>2, <1>4, <2>2, <2>3
<1> QED
  BY <1>3, <1>4

LEMMA TicksInteger ==
  ASSUME NEW x \in Int PROVE Ticks(x) \in Int
<1>1. PICK k \in Nat \ {0} : k = Tick
  BY MeasuringAssumption
<1>2. k \div 2 \in Int
  OBVIOUS
<1>3. PICK y \in Int : y = x + k \div 2
  BY <1>2
<1>4. PICK z \in Int : z = y \div k
  OBVIOUS
<1>5. z * k \in Int
  OBVIOUS
<1> QED
  BY <1>1, <1>3, <1>4, <1>5 DEF Ticks

\* The same under every tier.
LEMMA SumThree ==
  ASSUME NEW f \in [1..3 -> Int], NEW u \in Int, \A t \in 1..3 : f[t] = u
  PROVE  Sum(f) = 3 * u
<1>1. /\ f \in [1..(2 + 1) -> Int] /\ 2 \in Nat /\ 1 \in Nat /\ 0 \in Nat
      /\ f[1] = u /\ f[2] = u /\ f[3] = u
  OBVIOUS
<1>2. PICK e \in [1..2 -> Int] : (\A i \in 1..2 : e[i] = f[i]) /\ Sum(f) = Sum(e) + f[2 + 1]
  BY <1>1, Shorter
<1>3. e \in [1..(1 + 1) -> Int] /\ e[2] = u /\ e[1] = u
  BY <1>1, <1>2
<1>4. PICK d \in [1..1 -> Int] : (\A i \in 1..1 : d[i] = e[i]) /\ Sum(e) = Sum(d) + e[1 + 1]
  BY <1>1, <1>3, Shorter
<1>5. d \in [1..(0 + 1) -> Int] /\ d[1] = u
  BY <1>3, <1>4
<1>6. PICK b \in [1..0 -> Int] : Sum(d) = Sum(b) + d[0 + 1]
  BY <1>1, <1>5, Shorter
<1>7. Sum(b) = 0
  <2>1. Len(b) = 0
    BY <1>1, Lengths
  <2> QED
    BY <2>1, SumEmpty
<1> QED
  BY <1>1, <1>2, <1>3, <1>4, <1>5, <1>6, <1>7

-----------------------------------------------------------------------------
(* The runs of the tie-break. *)

Measurement == [elapsed : Int, at : Int, calm : BOOLEAN]

FieldTyped ==
  field \in Seq([id : STRING, sound : BOOLEAN, image : STRING, usual : Nat])

TakenTyped == taken \in [Entries -> [1..3 -> Seq(Measurement)]]

\* Every measurement was made at the place of its submission, and one that nothing
\* disturbed is what the submission usually takes.
Sound(x, c, r) ==
  /\ x.at \in Entries /\ Stands(Len(field), x.at, r) = c
  /\ x.calm => x.elapsed = field[c].usual

TakenTrue ==
  \A c \in Entries, t \in 1..3 : \A r \in 1..Len(taken[c][t]) : Sound(taken[c][t][r], c, r)

\* How many measurements there are where the command is.
Due(c, t) ==
  IF t < tierAt THEN MeasuredRuns
  ELSE IF t > tierAt \/ repetition = 0 THEN 0
  ELSE IF \E p \in 1..(position - 1) : Stands(Len(field), p, repetition) = c THEN repetition
  ELSE repetition - 1

InTurn ==
  /\ tierAt \in 1..3 /\ repetition \in 0..MeasuredRuns /\ position \in 1..Len(field)
  /\ \A c \in Entries, t \in 1..3 : Len(taken[c][t]) = Due(c, t)

Complete == \A c \in Entries, t \in 1..3 : Len(taken[c][t]) = MeasuredRuns

LatencyInv ==
  /\ FieldTyped /\ TakenTyped /\ TakenTrue
  /\ phase \in {"start", "run", "rank", "over"}
  /\ phase = "start" =>
       tierAt = 1 /\ repetition = 0 /\ position = 1 /\ taken = NothingTaken
  /\ phase = "run" => InTurn
  /\ phase = "rank" => Complete
  /\ record # <<>> => phase = "over" /\ Complete /\ record = Standing

LEMMA RunsMeasured == MeasuredRuns \in Nat \ {0} /\ Len(TIERS) = 3
<1>1. MeasuredRuns \in Nat /\ MeasuredRuns % 2 = 1
  BY MeasuringAssumption
<1>2. MeasuredRuns # 0
  BY <1>1
<1>3. Len(TIERS) = 3
  BY DEF TIERS
<1> QED
  BY <1>1, <1>2, <1>3

\* How many there are once the submission under way has been measured.
Done(c, t) ==
  IF t < tierAt THEN MeasuredRuns
  ELSE IF t > tierAt \/ repetition = 0 THEN 0
  ELSE IF \E p \in 1..position : Stands(Len(field), p, repetition) = c THEN repetition
  ELSE repetition - 1

LEMMA AdvanceKeeps ==
  ASSUME FieldTyped, InTurn, phase = "run", Advance, UNCHANGED field,
         \A c \in Entries, t \in 1..3 : Len(taken'[c][t]) = Done(c, t)
  PROVE  (phase' = "run" /\ InTurn') \/ (phase' = "rank" /\ Complete')
<1>1. PICK n \in Nat \ {0} : n = Len(field)
  BY DEF FieldTyped, InTurn
<1>2. PICK m \in Nat \ {0} : m = MeasuredRuns
  BY RunsMeasured
<1>3. /\ tierAt \in 1..3 /\ repetition \in 0..m /\ position \in 1..n /\ Len(TIERS) = 3
      /\ Entries = 1..n /\ Entries' = 1..n
  BY <1>1, <1>2, RunsMeasured DEF InTurn, Entries
<1>4. CASE position < n
  <2>1. position' = position + 1 /\ UNCHANGED <<tierAt, repetition, phase>>
    BY <1>1, <1>4 DEF Advance
  <2>2. \A c, t : Done(c, t) = Due(c, t)'
    BY <1>3, <2>1 DEF Done, Due
  <2>3. \A c \in 1..n, t \in 1..3 : Len(taken'[c][t]) = Due(c, t)'
    BY <1>3, <2>2
  <2>4. InTurn'
    BY <1>1, <1>2, <1>3, <1>4, <2>1, <2>3 DEF InTurn
  <2> QED
    BY <2>1, <2>4
<1>5. CASE ~ (position < n)
  <2>1. position = n /\ position' = 1
    BY <1>1, <1>3, <1>5 DEF Advance
  <2>2. \A c \in 1..n, t \in 1..3 :
          Len(taken'[c][t]) = IF t < tierAt THEN m ELSE IF t > tierAt THEN 0 ELSE repetition
    <3> SUFFICES ASSUME NEW c \in 1..n, NEW t \in 1..3
                 PROVE  Len(taken'[c][t])
                          = IF t < tierAt THEN m ELSE IF t > tierAt THEN 0 ELSE repetition
      OBVIOUS
    <3>1. \E p \in 1..n : Stands(n, p, repetition) = c
      BY <1>3, StandsOnce
    <3>2. Len(taken'[c][t]) = Done(c, t)
      BY <1>3
    <3> QED
      BY <1>1, <1>2, <1>3, <2>1, <3>1, <3>2 DEF Done
  <2>3. CASE repetition < m
    <3>1. repetition' = repetition + 1 /\ UNCHANGED <<tierAt, phase>>
      BY <1>1, <1>2, <1>5, <2>3 DEF Advance
    <3>2. \A c, t : Due(c, t)' = IF t < tierAt THEN m ELSE IF t > tierAt THEN 0 ELSE repetition
      BY <1>2, <1>3, <2>1, <3>1 DEF Due
    <3>3. \A c \in 1..n, t \in 1..3 : Len(taken'[c][t]) = Due(c, t)'
      BY <2>2, <3>2
    <3>4. InTurn'
      BY <1>1, <1>2, <1>3, <2>1, <2>3, <3>1, <3>3 DEF InTurn
    <3> QED
      BY <3>1, <3>4
  <2>4. CASE repetition = m /\ tierAt < 3
    <3>1. repetition' = 0 /\ tierAt' = tierAt + 1 /\ UNCHANGED phase
      BY <1>1, <1>2, <1>3, <1>5, <2>4 DEF Advance
    <3>2. \A c : \A t \in 1..3 : Due(c, t)' = IF t <= tierAt THEN m ELSE 0
      BY <1>2, <1>3, <3>1 DEF Due
    <3>3. \A c \in 1..n, t \in 1..3 : Len(taken'[c][t]) = Due(c, t)'
      BY <1>3, <2>2, <2>4, <3>2
    <3>4. InTurn'
      BY <1>1, <1>2, <1>3, <2>1, <2>4, <3>1, <3>3 DEF InTurn
    <3> QED
      BY <3>1, <3>4
  <2>5. CASE repetition = m /\ ~ (tierAt < 3)
    <3>1. phase' = "rank" /\ tierAt = 3
      BY <1>1, <1>2, <1>3, <1>5, <2>5 DEF Advance
    <3>2. Complete'
      BY <1>2, <1>3, <2>2, <2>5, <3>1 DEF Complete
    <3> QED
      BY <3>1, <3>2
  <2> QED
    BY <1>3, <2>3, <2>4, <2>5
<1> QED
  BY <1>4, <1>5

\* The submission under way is one that was not yet measured in this repetition.
LEMMA CurrentStands ==
  ASSUME FieldTyped, InTurn, repetition # 0
  PROVE  /\ Current = Stands(Len(field), position, repetition) /\ Current \in Entries
         /\ Len(taken[Current][tierAt]) = repetition - 1
         /\ \A c \in Entries, t \in 1..3 :
              Done(c, t) = IF c = Current /\ t = tierAt THEN repetition ELSE Due(c, t)
<1>1. PICK n \in Nat \ {0} : n = Len(field) /\ Entries = 1..n
  BY DEF FieldTyped, InTurn, Entries
<1>2. MeasuredRuns \in Nat
  BY RunsMeasured
<1>3. /\ tierAt \in 1..3 /\ repetition \in 0..MeasuredRuns /\ position \in 1..n
      /\ repetition \in Nat
  BY <1>1, <1>2 DEF InTurn
<1>4. Current = Stands(n, position, repetition)
  BY <1>1 DEF Current, Rotated, Stands
<1>5. PICK c0 \in 1..n : c0 = Current
  <2>1. repetition \in Int
    BY <1>3
  <2>2. \A p \in 1..n : Stands(n, p, repetition) \in 1..n
    BY <2>1, StandsOnce
  <2> QED
    BY <1>3, <1>4, <2>2
<1>6. \A p \in 1..(position - 1) : Stands(n, p, repetition) # c0
  <2> SUFFICES ASSUME NEW p \in 1..(position - 1), Stands(n, p, repetition) = c0 PROVE FALSE
    OBVIOUS
  <2>1. p \in 1..n /\ p # position
    BY <1>3
  <2> QED
    BY <1>3, <1>4, <1>5, <2>1, StandsOnce
<1>7. Due(c0, tierAt) = repetition - 1
  BY <1>1, <1>3, <1>6 DEF Due
<1>8. \A c \in 1..n, t \in 1..3 :
        Done(c, t) = IF c = c0 /\ t = tierAt THEN repetition ELSE Due(c, t)
  <2> SUFFICES ASSUME NEW c \in 1..n, NEW t \in 1..3
               PROVE  Done(c, t) = IF c = c0 /\ t = tierAt THEN repetition ELSE Due(c, t)
    OBVIOUS
  <2>1. (\E p \in 1..position : Stands(n, p, repetition) = c)
          <=> (c = c0 \/ \E p \in 1..(position - 1) : Stands(n, p, repetition) = c)
    <3>1. \A p \in 1..position : p = position \/ p \in 1..(position - 1)
      BY <1>3
    <3>2. position \in 1..position /\ \A p \in 1..(position - 1) : p \in 1..position
      BY <1>3
    <3> QED
      BY <1>4, <1>5, <3>1, <3>2
  <2> QED
    BY <1>1, <1>3, <2>1 DEF Done, Due
<1>9. Len(taken[c0][tierAt]) = repetition - 1
  BY <1>1, <1>3, <1>7 DEF InTurn
<1> QED
  BY <1>1, <1>4, <1>5, <1>8, <1>9

LEMMA TakeKeeps ==
  ASSUME FieldTyped, TakenTyped, TakenTrue, InTurn, phase = "run",
         NEW elapsed \in Int, NEW calm \in BOOLEAN,
         calm => elapsed = field[Current].usual,
         Take(elapsed, calm)
  PROVE  /\ UNCHANGED <<field, record>> /\ TakenTyped' /\ TakenTrue'
         /\ \/ phase' = "run" /\ InTurn'
            \/ phase' = "rank" /\ Complete'
<1>1. UNCHANGED <<field, record>> /\ Advance
  BY DEF Take
<1>2. PICK n \in Nat \ {0} : n = Len(field) /\ Entries = 1..n /\ Entries' = 1..n
  BY <1>1 DEF FieldTyped, InTurn, Entries
<1>3. tierAt \in 1..3 /\ position \in 1..n /\ repetition \in Nat
  <2>1. MeasuredRuns \in Nat
    BY RunsMeasured
  <2> QED
    BY <1>2, <2>1 DEF InTurn
<1>4. CASE repetition = 0
  <2>1. taken' = taken
    BY <1>4 DEF Take
  <2>2. TakenTyped' /\ TakenTrue'
    <3>1. \A y, c, r : Sound(y, c, r)' = Sound(y, c, r)
      BY <1>1 DEF Sound, Entries
    <3> QED
      BY <1>2, <2>1, <3>1 DEF TakenTyped, TakenTrue
  <2>3. \A c, t : Done(c, t) = Due(c, t)
    BY <1>4 DEF Done, Due
  <2>4. \A c \in Entries, t \in 1..3 : Len(taken'[c][t]) = Done(c, t)
    BY <2>1, <2>3 DEF InTurn
  <2> QED
    BY <1>1, <2>2, <2>4, AdvanceKeeps
<1>5. CASE repetition # 0
  <2> DEFINE x == [elapsed |-> elapsed, at |-> position, calm |-> calm]
  <2>1. PICK c0 \in 1..n :
          /\ c0 = Current /\ c0 = Stands(n, position, repetition)
          /\ Len(taken[c0][tierAt]) = repetition - 1
          /\ \A c \in 1..n, t \in 1..3 :
               Done(c, t) = IF c = c0 /\ t = tierAt THEN repetition ELSE Due(c, t)
    BY <1>2, <1>5, CurrentStands
  <2>2. PICK s \in Seq(Measurement) : s = taken[c0][tierAt] /\ Len(s) = repetition - 1
    BY <1>2, <1>3, <2>1 DEF TakenTyped
  <2>3. taken' = [taken EXCEPT ![c0][tierAt] = Append(s, x)]
    BY <1>5, <2>1, <2>2 DEF Take
  <2>4. /\ x \in Measurement /\ x.at = position /\ x.elapsed = elapsed /\ x.calm = calm
    BY <1>3 DEF Measurement
  <2>5. calm => elapsed = field[c0].usual
    BY <2>1
  <2> HIDE DEF x
  <2>6. /\ Append(s, x) \in Seq(Measurement) /\ Len(Append(s, x)) = repetition
        /\ Append(s, x)[repetition] = x
        /\ \A r \in 1..(repetition - 1) : Append(s, x)[r] = s[r]
    BY <1>3, <1>5, <2>2, <2>4
  <2>7. PICK a \in Seq(Measurement) : a = Append(s, x)
    BY <2>6
  <2>8. taken \in [1..n -> [1..3 -> Seq(Measurement)]]
    BY <1>2 DEF TakenTyped
  <2>9. /\ taken' \in [1..n -> [1..3 -> Seq(Measurement)]]
        /\ \A c \in 1..n, t \in 1..3 :
             taken'[c][t] = IF c = c0 /\ t = tierAt THEN a ELSE taken[c][t]
    <3> HIDE DEF Measurement
    <3> QED
      BY <1>3, <2>3, <2>7, <2>8
  <2>10. TakenTyped'
    BY <1>2, <2>9 DEF TakenTyped
  <2>11. a \in Seq(Measurement) /\ Len(a) = repetition /\ a[repetition] = x
         /\ \A r \in 1..(repetition - 1) : a[r] = s[r]
    BY <2>6, <2>7
  <2>12. Sound(x, c0, repetition)
    BY <1>2, <1>3, <2>1, <2>4, <2>5 DEF Sound
  <2>13. ASSUME NEW c \in 1..n, NEW t \in 1..3, NEW r \in 1..Len(taken'[c][t])
         PROVE  Sound(taken'[c][t][r], c, r)
    <3>1. CASE c = c0 /\ t = tierAt
      <4>1. taken'[c][t] = a /\ r \in 1..repetition
        BY <2>9, <2>11, <3>1
      <4>2. CASE r = repetition
        BY <2>11, <2>12, <3>1, <4>1, <4>2
      <4>3. CASE r # repetition
        <5>1. r \in 1..(repetition - 1)
          BY <1>3, <4>1, <4>3
        <5>2. taken'[c][t][r] = taken[c][t][r] /\ r \in 1..Len(taken[c][t])
          BY <2>2, <2>11, <3>1, <4>1, <5>1
        <5> QED
          BY <1>2, <5>2 DEF TakenTrue
      <4> QED
        BY <4>2, <4>3
    <3>2. CASE ~ (c = c0 /\ t = tierAt)
      <4>1. taken'[c][t] = taken[c][t]
        BY <2>9, <3>2
      <4> QED
        BY <1>2, <4>1 DEF TakenTrue
    <3> QED
      BY <3>1, <3>2
  <2>14. TakenTrue'
    <3>1. \A y, c, r : Sound(y, c, r)' = Sound(y, c, r)
      BY <1>1 DEF Sound, Entries
    <3> QED
      BY <1>2, <2>13, <3>1 DEF TakenTrue
  <2>15. \A c \in Entries, t \in 1..3 : Len(taken'[c][t]) = Done(c, t)
    <3>1. \A c \in 1..n, t \in 1..3 : Len(taken[c][t]) = Due(c, t)
      BY <1>2 DEF InTurn
    <3>2. ASSUME NEW c \in 1..n, NEW t \in 1..3 PROVE Len(taken'[c][t]) = Done(c, t)
      <4>1. CASE c = c0 /\ t = tierAt
        BY <2>1, <2>9, <2>11, <4>1
      <4>2. CASE ~ (c = c0 /\ t = tierAt)
        <5>1. taken'[c][t] = taken[c][t] /\ Done(c, t) = Due(c, t)
          BY <2>1, <2>9, <4>2
        <5> QED
          BY <3>1, <5>1
      <4> QED
        BY <4>1, <4>2
    <3> QED
      BY <1>2, <3>2
  <2> QED
    BY <1>1, <2>10, <2>14, <2>15, AdvanceKeeps
<1> QED
  BY <1>4, <1>5

LEMMA CurrentEntry ==
  ASSUME FieldTyped, InTurn PROVE Current \in Entries
<1>1. PICK n \in Nat \ {0} : n = Len(field) /\ Entries = 1..n
  BY DEF FieldTyped, InTurn, Entries
<1>2. PICK r \in Int : r = IF repetition = 0 THEN tierAt ELSE repetition
  BY RunsMeasured DEF InTurn
<1>3. Current = Stands(n, position, r) /\ position \in 1..n
  BY <1>1, <1>2 DEF Current, Rotated, Stands, InTurn
<1>4. \A p \in 1..n : Stands(n, p, r) \in 1..n
  BY StandsOnce
<1> QED
  BY <1>1, <1>3, <1>4

\* What is said of the measurements stays when nothing is measured.
LEMMA NothingMeasured ==
  ASSUME UNCHANGED <<field, taken>>
  PROVE  /\ FieldTyped => FieldTyped'
         /\ TakenTyped => TakenTyped'
         /\ TakenTrue => TakenTrue'
         /\ Complete => Complete'
         /\ UNCHANGED Standing
         /\ InTurn /\ UNCHANGED <<tierAt, repetition, position>> => InTurn'
<1>1. Entries' = Entries
  BY DEF Entries
<1>2. \A y, c, r : Sound(y, c, r)' = Sound(y, c, r)
  BY <1>1 DEF Sound
<1>3. TakenTrue => TakenTrue'
  BY <1>1, <1>2 DEF TakenTrue
<1>4. (FieldTyped => FieldTyped') /\ (TakenTyped => TakenTyped') /\ (Complete => Complete')
  BY <1>1 DEF FieldTyped, TakenTyped, Complete
<1>5. UNCHANGED Standing
  <2>1. \A c : Total(c)' = Total(c)
    BY DEF Total
  <2> QED
    BY <1>1, <2>1 DEF Standing
<1>6. InTurn /\ UNCHANGED <<tierAt, repetition, position>> => InTurn'
  <2> SUFFICES ASSUME InTurn, UNCHANGED <<tierAt, repetition, position>> PROVE InTurn'
    OBVIOUS
  <2>1. \A c, t : Due(c, t)' = Due(c, t)
    BY DEF Due
  <2> QED
    BY <1>1, <2>1 DEF InTurn
<1> QED
  BY <1>3, <1>4, <1>5, <1>6

LEMMA MeasuringKeeps ==
  ASSUME LatencyInv, Runs \/ RunsSlowly \/ RunFails PROVE LatencyInv'
<1>1. /\ phase = "run" /\ FieldTyped /\ TakenTyped /\ TakenTrue /\ InTurn /\ record = <<>>
  BY DEF LatencyInv, Runs, RunsSlowly, RunFails
<1>2. field[Current].usual \in Int
  <2>1. field \in Seq([id : STRING, sound : BOOLEAN, image : STRING, usual : Nat])
        /\ Current \in 1..Len(field)
    BY <1>1, CurrentEntry DEF FieldTyped, Entries
  <2>2. field[Current] \in [id : STRING, sound : BOOLEAN, image : STRING, usual : Nat]
    BY <2>1, Members
  <2> QED
    BY <2>2
<1>3. PICK elapsed \in Int, calm \in BOOLEAN :
        Take(elapsed, calm) /\ (calm => elapsed = field[Current].usual)
  <2>1. CASE Runs
    BY <1>2, <2>1 DEF Runs
  <2>2. CASE RunsSlowly
    <3>1. PICK s \in SlowTimes : Take(s, FALSE)
      BY <2>2 DEF RunsSlowly
    <3>2. s \in Int
      BY MeasuringAssumption
    <3> QED
      BY <3>1, <3>2
  <2>3. CASE RunFails
    <3>1. LimitTime \in Int
      BY MeasuringAssumption
    <3> QED
      BY <2>3, <3>1 DEF RunFails
  <2> QED
    BY <2>1, <2>2, <2>3
<1>4. /\ UNCHANGED <<field, record>> /\ TakenTyped' /\ TakenTrue'
      /\ \/ phase' = "run" /\ InTurn'
         \/ phase' = "rank" /\ Complete'
  BY <1>1, <1>3, TakeKeeps
<1>5. FieldTyped'
  BY <1>1, <1>4 DEF FieldTyped
<1> QED
  BY <1>1, <1>4, <1>5 DEF LatencyInv

LEMMA LatencyInvariant == LatencySpec => []LatencyInv
<1>1. LatencyInit => LatencyInv
  <2> SUFFICES ASSUME LatencyInit PROVE LatencyInv
    OBVIOUS
  <2>1. FieldTyped /\ phase = "start" /\ record = <<>>
        /\ tierAt = 1 /\ repetition = 0 /\ position = 1 /\ taken = NothingTaken
    BY FieldsAssumption DEF LatencyInit, FieldTyped
  <2>2. \A c \in Entries, t \in 1..3 : taken[c][t] = <<>>
    BY <2>1, RunsMeasured DEF NothingTaken
  <2>3. TakenTyped
    <3>1. <<>> \in Seq(Measurement)
      OBVIOUS
    <3> QED
      BY <2>1, <3>1, RunsMeasured DEF NothingTaken, TakenTyped
  <2>4. TakenTrue
    BY <2>2 DEF TakenTrue
  <2> QED
    BY <2>1, <2>3, <2>4 DEF LatencyInv
<1>2. LatencyInv /\ [LatencyNext]_latencyVars => LatencyInv'
  <2> SUFFICES ASSUME LatencyInv, [LatencyNext]_latencyVars PROVE LatencyInv'
    OBVIOUS
  <2>1. CASE Admit
    <3>1. UNCHANGED <<field, taken, record, tierAt, repetition, position>> /\ phase = "start"
      BY <2>1 DEF Admit
    <3>2. /\ FieldTyped' /\ TakenTyped' /\ TakenTrue' /\ record' = <<>>
      BY <3>1, NothingMeasured DEF LatencyInv
    <3>3. phase' = "over" \/ (phase' = "run" /\ FieldValid)
      BY <2>1 DEF Admit, Finish
    <3>4. ASSUME phase' = "run" PROVE InTurn'
      <4>1. PICK n \in Nat \ {0} : n = Len(field)
        BY <3>3, <3>4 DEF FieldValid, LatencyInv, FieldTyped
      <4>2. /\ tierAt = 1 /\ repetition = 0 /\ position = 1
            /\ \A c \in Entries, t \in 1..3 : taken[c][t] = <<>>
        BY <3>1, RunsMeasured DEF LatencyInv, NothingTaken
      <4>3. \A c, t : t \in 1..3 => Due(c, t) = 0
        BY <4>2 DEF Due
      <4>4. \A c \in Entries, t \in 1..3 : Len(taken[c][t]) = Due(c, t)
        BY <4>2, <4>3
      <4>5. tierAt \in 1..3 /\ repetition \in 0..MeasuredRuns /\ position \in 1..Len(field)
        BY <4>1, <4>2, RunsMeasured
      <4>6. InTurn
        BY <4>4, <4>5 DEF InTurn
      <4> QED
        BY <3>1, <4>6, NothingMeasured
    <3> QED
      BY <3>2, <3>3, <3>4 DEF LatencyInv
  <2>2. CASE Runs \/ RunsSlowly \/ RunFails
    BY <2>2, MeasuringKeeps
  <2>3. CASE NeedsReview \/ OperatorFails \/ MeasurerKilled
    <3>1. /\ UNCHANGED <<field, taken, record, tierAt, repetition, position>>
          /\ phase' \in {"over", phase} /\ phase \in {"run", "rank"}
      BY <2>3 DEF NeedsReview, OperatorFails, MeasurerKilled, Finish
    <3>2. /\ FieldTyped' /\ TakenTyped' /\ TakenTrue' /\ record' = <<>>
          /\ (InTurn => InTurn') /\ (Complete => Complete')
      BY <3>1, NothingMeasured DEF LatencyInv
    <3> QED
      BY <3>1, <3>2 DEF LatencyInv
  <2>4. CASE WriteLatencyRecord
    <3>1. /\ UNCHANGED <<field, taken>> /\ phase = "rank" /\ phase' = "over"
          /\ record' \in {record, Standing}
      BY <2>4 DEF WriteLatencyRecord, Finish
    <3>2. /\ FieldTyped' /\ TakenTyped' /\ TakenTrue' /\ Complete' /\ Standing' = Standing
      BY <3>1, NothingMeasured DEF LatencyInv
    <3>3. record = <<>>
      BY <3>1 DEF LatencyInv
    <3> QED
      BY <3>1, <3>2, <3>3 DEF LatencyInv
  <2>5. CASE UNCHANGED latencyVars
    <3>1. UNCHANGED <<field, taken, record, tierAt, repetition, position, phase>>
      BY <2>5 DEF latencyVars
    <3>2. /\ FieldTyped' /\ TakenTyped' /\ TakenTrue' /\ Standing' = Standing
          /\ (InTurn => InTurn') /\ (Complete => Complete')
      BY <3>1, NothingMeasured DEF LatencyInv
    <3>3. NothingTaken' = NothingTaken
      BY <3>1 DEF NothingTaken, Entries
    <3> QED
      BY <3>1, <3>2, <3>3 DEF LatencyInv
  <2> QED
    BY <2>1, <2>2, <2>3, <2>4, <2>5 DEF LatencyNext
<1> QED
  BY <1>1, <1>2, PTL DEF LatencySpec

-----------------------------------------------------------------------------
(* What a ranking is worth. *)

\* In a complete field, who stands where is as in the order.
LEMMA TimesTurn ==
  ASSUME FieldTyped, TakenTrue, Complete, NEW c \in Entries, NEW t \in 1..3,
         NEW p \in Entries, NEW q \in Entries
  PROVE  Times(c, t, p) <= Times(c, t, q) + 1
<1>1. PICK n \in Nat \ {0}, m \in Nat \ {0} :
        n = Len(field) /\ Entries = 1..n /\ m = MeasuredRuns
  BY RunsMeasured DEF FieldTyped, Entries
<1>2. ASSUME NEW w \in 1..n PROVE Times(c, t, w) = Cardinality(AtPlace(n, m, c, w))
  <2>1. ASSUME NEW r \in 1..m PROVE taken[c][t][r].at = w <=> Stands(n, w, r) = c
    <3>1. Sound(taken[c][t][r], c, r)
      BY <1>1 DEF TakenTrue, Complete
    <3>2. PICK a \in 1..n : a = taken[c][t][r].at /\ Stands(n, a, r) = c
      BY <1>1, <3>1 DEF Sound
    <3>3. \A x, y \in 1..n : Stands(n, x, r) = Stands(n, y, r) => x = y
      BY StandsOnce
    <3> QED
      BY <3>2, <3>3
  <2>2. {r \in 1..m : taken[c][t][r].at = w} = AtPlace(n, m, c, w)
    BY <2>1 DEF AtPlace
  <2> QED
    BY <1>1, <2>2 DEF Times
<1>3. p \in 1..n /\ q \in 1..n /\ m \in Nat
  BY <1>1
<1>4. Cardinality(AtPlace(n, m, c, p)) <= Cardinality(AtPlace(n, m, c, q)) + 1
  BY <1>3, TakesTurns
<1> QED
  BY <1>2, <1>3, <1>4

\* Where fewer than half of the runs were disturbed the sum is of the usual times.
LEMMA TotalUsual ==
  ASSUME FieldTyped, TakenTyped, TakenTrue, Complete, Steady, NEW c \in Entries
  PROVE  field[c].usual \in Int /\ Total(c) = 3 * field[c].usual
<1>1. PICK m \in Nat : m = MeasuredRuns
  BY RunsMeasured
<1>2. PICK u \in Int : u = field[c].usual
  <2>1. field \in Seq([id : STRING, sound : BOOLEAN, image : STRING, usual : Nat])
        /\ c \in 1..Len(field)
    BY DEF FieldTyped, Entries
  <2>2. field[c] \in [id : STRING, sound : BOOLEAN, image : STRING, usual : Nat]
    BY <2>1, Members
  <2> QED
    BY <2>2
<1> DEFINE median == [t \in 1..3 |-> Median([r \in 1..m |-> taken[c][t][r].elapsed])]
<1>3. ASSUME NEW t \in 1..3 PROVE Median([r \in 1..m |-> taken[c][t][r].elapsed]) = u
  <2> DEFINE s == [r \in 1..m |-> taken[c][t][r].elapsed]
             D == {r \in 1..m : ~ taken[c][t][r].calm}
  <2>1. taken[c][t] \in Seq(Measurement) /\ Len(taken[c][t]) = m
    BY <1>1 DEF TakenTyped, Complete
  <2>2. ASSUME NEW r \in 1..m
        PROVE  /\ taken[c][t][r].elapsed \in Int
               /\ taken[c][t][r].calm => taken[c][t][r].elapsed = u
    <3>1. taken[c][t][r] \in Measurement
      BY <2>1, Members
    <3>2. Sound(taken[c][t][r], c, r)
      BY <2>1 DEF TakenTrue
    <3> QED
      BY <1>2, <3>1, <3>2 DEF Measurement, Sound
  <2>3. s \in [1..m -> Int] /\ \A r \in (1..m) \ D : s[r] = u
    BY <2>2
  <2>4. 2 * Cardinality(D) < m /\ D \subseteq 1..m
    BY <1>1, RunsMeasured DEF Steady, Disturbed
  <2> HIDE DEF s, D
  <2>5. Median(s) = u
    BY <2>3, <2>4, MedianUsual
  <2> QED
    BY <2>5 DEF s
<1>4. Total(c) = Sum(median)
  BY <1>1, RunsMeasured DEF Total
<1>5. median \in [1..3 -> Int] /\ \A t \in 1..3 : median[t] = u
  BY <1>3
<1> HIDE DEF median
<1>6. Sum(median) = 3 * u
  BY <1>5, SumThree
<1> QED
  BY <1>2, <1>4, <1>6

\* A published ranking was earned: equally many runs for everybody in every tier, at
\* every place in turn, and what mishaps disturbed fewer than half of the runs did not
\* change the order of (_median_of_five, _rank_candidates).
THEOREM RanksEarned == LatencySpec => []RankEarned
<1>1. LatencyInv => RankEarned
  <2> SUFFICES ASSUME LatencyInv, record # <<>> PROVE RankEarned
    BY DEF RankEarned
  <2>1. FieldTyped /\ TakenTyped /\ TakenTrue /\ Complete /\ record = Standing
    BY DEF LatencyInv
  <2>2. Len(TIERS) = 3 /\ MeasuredRuns \in Nat
    BY RunsMeasured
  <2>3. PICK n \in Nat : Entries = 1..n
    BY <2>1 DEF FieldTyped, Entries
  <2>4. \A c \in Entries, t \in 1..3 : Len(taken[c][t]) = MeasuredRuns
    BY <2>1 DEF Complete
  <2>5. \A c \in Entries, t \in 1..3 : \A p, q \in Entries : Times(c, t, p) <= Times(c, t, q) + 1
    BY <2>1, TimesTurn
  <2>6. ASSUME Steady, NEW c \in Entries, NEW d \in Entries
        PROVE  record[c] <= record[d]
                 <=> Ticks(3 * field[c].usual) <= Ticks(3 * field[d].usual)
    <3> DEFINE totals == [x \in Entries |-> Total(x)]
    <3>1. \A x \in Entries : totals[x] = 3 * field[x].usual /\ totals[x] \in Int
      <4> SUFFICES ASSUME NEW x \in Entries
                   PROVE  Total(x) = 3 * field[x].usual /\ Total(x) \in Int
        OBVIOUS
      <4>1. PICK u \in Int : u = field[x].usual /\ Total(x) = 3 * u
        BY <2>1, <2>6, TotalUsual
      <4> QED
        BY <4>1
    <3>2. DOMAIN totals = 1..n /\ record = Ranks(totals)
      BY <2>1, <2>3 DEF Standing
    <3> HIDE DEF totals
    <3>3. \A x \in 1..n : Ticks(totals[x]) \in Int
      BY <2>3, <3>1, TicksInteger
    <3>4. Ranks(totals)[c] <= Ranks(totals)[d] <=> Ticks(totals[c]) <= Ticks(totals[d])
      BY <2>3, <3>2, <3>3, RanksOrder
    <3> QED
      BY <3>1, <3>2, <3>4
  <2> QED
    BY <2>2, <2>4, <2>5, <2>6 DEF RankEarned
<1> QED
  BY <1>1, LatencyInvariant, PTL
=============================================================================
