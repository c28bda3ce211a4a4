------------------------- MODULE BatchRouterProofs -------------------------
(***************************************************************************)
(* What the search of a router guarantees whatever the predictions, the    *)
(* limits, the penalties and the number of steps are, that an accepted     *)
(* artifact fits the features, and what the answers of two related calls   *)
(* have to do with each other.                                             *)
(*                                                                         *)
(* The first two need no arithmetic on the costs: the bounds of a search   *)
(* are chosen by the test of the limits itself.  The last two compare two  *)
(* calls that run one after the other: every answer has a history, a       *)
(* finite sequence of steps from the start of its call, and the histories  *)
(* of two related calls are gone through side by side.  The lemmas on sums *)
(* are those of ScoringProofs.                                             *)
(***************************************************************************)
EXTENDS BatchRouter, ScoringProofs

\* Every rule goes its own way.
OwnWay ==
  /\ routing \in {"route", "double", "halve", "settle"} =>
       Now.rule \notin {"prompt", "feature"}
  /\ routing = "feature" => Now.rule = "feature"
  /\ routing = "prompt" => Now.rule = "prompt"

\* The groups lifted so far are paid for.
PaidFor ==
  routing = "feature" => Affordable(Now, chosen) \/ chosen = AllLight(Now)

\* The two conjuncts of Searched on what is answered.
Bracketed ==
  routing \in {"double", "halve"} =>
    /\ chosen = Choose(Now, locked, high)
    /\ Violates(Now, locked, Choose(Now, locked, low))

Settled ==
  /\ routing = "write" /\ Now.rule \notin {"prompt", "feature"} =>
       \/ ~Violates(Now, locked, chosen)
       \/ chosen = Fallback(Now, locked)
  /\ routing = "write" /\ Now.rule = "feature" =>
       Affordable(Now, chosen) \/ chosen = AllLight(Now)

SearchInv == OwnWay /\ PaidFor /\ Bracketed /\ Settled

LEMMA SearchStep ==
  ASSUME SearchInv, [RouteNext]_routeVars
  PROVE  SearchInv'
<1> USE DEF SearchInv
<1>1. CASE Load
  <2>1. routing' \in {"predict", "ended"} BY <1>1 DEF Load, Ended
  <2> QED BY <2>1 DEF OwnWay, PaidFor, Bracketed, Settled
<1>2. CASE Predict
  <2>1. Now' = Now /\ chosen' = AllLight(Now) BY <1>2 DEF Predict, Now
  <2>2. \/ routing' = "ended"
        \/ Now.rule = "prompt" /\ routing' = "prompt"
        \/ Now.rule = "feature" /\ routing' = "feature"
        \/ Now.rule \notin {"prompt", "feature"} /\ routing' = "route"
    BY <1>2 DEF Predict, Ended
  <2>3. AllLight(Now)' = AllLight(Now) BY <2>1 DEF AllLight, Places
  <2>4. PaidFor' BY <2>1, <2>3 DEF PaidFor
  <2> QED BY <2>1, <2>2, <2>4 DEF OwnWay, Bracketed, Settled
<1>3. CASE SelectByPrompt
  <2>1. Now' = Now /\ routing' = "write" /\ Now.rule = "prompt"
    BY <1>3 DEF SelectByPrompt, Now, OwnWay
  <2> QED BY <2>1 DEF OwnWay, PaidFor, Bracketed, Settled
<1>4. CASE UpgradeGroup
  <2>1. Now' = Now /\ routing' = "feature" /\ routing = "feature"
    BY <1>4 DEF UpgradeGroup, Now
  <2>2. chosen' = chosen \/ Affordable(Now, chosen')
    BY <1>4 DEF UpgradeGroup
  <2>3. Affordable(Now, chosen') \/ chosen' = AllLight(Now)
    BY <2>1, <2>2 DEF PaidFor
  <2>4. PaidFor'
    BY <2>1, <2>3 DEF PaidFor, Affordable, AllLight, Places, Surrogate, Weight
  <2> QED BY <2>1, <2>4 DEF OwnWay, Bracketed, Settled
<1>5. CASE UpgradesDone
  <2>1. Now' = Now /\ routing' = "write" /\ Now.rule = "feature" /\ chosen' = chosen
    BY <1>5 DEF UpgradesDone, Now, OwnWay
  <2>2. Affordable(Now, chosen) \/ chosen = AllLight(Now)
    BY <1>5 DEF UpgradesDone, PaidFor
  <2>3. (Affordable(Now, chosen) \/ chosen = AllLight(Now))'
    BY <2>1, <2>2 DEF Affordable, AllLight, Places, Surrogate, Weight
  <2> QED BY <2>1, <2>3 DEF OwnWay, PaidFor, Bracketed, Settled
<1>6. CASE Route
  <2>1. Now' = Now /\ locked' = locked /\ routing = "route"
    BY <1>6 DEF Route, Now
  <2>2. Now.rule \notin {"prompt", "feature"} BY <2>1 DEF OwnWay
  <2>3. CASE Violates(Now, locked, Choose(Now, locked, 0))
    <3>1. /\ low' = 0 /\ high' = Grain /\ routing' = "double"
          /\ chosen' = Choose(Now, locked, Grain)
      BY <1>6, <2>3 DEF Route
    <3>2. (Violates(Now, locked, Choose(Now, locked, low)))'
      BY <2>1, <2>3, <3>1
    <3>3. (chosen = Choose(Now, locked, high))'
      BY <2>1, <3>1
    <3> QED BY <2>1, <2>2, <3>1, <3>2, <3>3 DEF OwnWay, PaidFor, Bracketed, Settled
  <2>4. CASE ~Violates(Now, locked, Choose(Now, locked, 0))
    <3>1. routing' = "settle" BY <1>6, <2>4 DEF Route
    <3> QED BY <2>1, <2>2, <3>1 DEF OwnWay, PaidFor, Bracketed, Settled
  <2> QED BY <2>3, <2>4
<1>7. CASE Double
  <2>1. /\ Now' = Now /\ locked' = locked /\ routing = "double" /\ routing' = "double"
        /\ low' = high /\ high' = 2 * high /\ Violates(Now, locked, chosen)
        /\ chosen' = Choose(Now, locked, 2 * high)
    BY <1>7 DEF Double, Now
  <2>2. Violates(Now, locked, Choose(Now, locked, high)) BY <2>1 DEF Bracketed
  <2>3. (Violates(Now, locked, Choose(Now, locked, low)))' BY <2>1, <2>2
  <2>4. (chosen = Choose(Now, locked, high))' BY <2>1
  <2> QED BY <2>1, <2>3, <2>4 DEF OwnWay, PaidFor, Bracketed, Settled
<1>8. CASE Bisect \/ Halved
  <2>1. /\ Now' = Now /\ UNCHANGED <<locked, chosen, low, high>>
        /\ routing \in {"double", "halve"} /\ routing' \in {"halve", "settle"}
    BY <1>8 DEF Bisect, Halved, Now
  <2>2. chosen = Choose(Now, locked, high)
        /\ Violates(Now, locked, Choose(Now, locked, low))
    BY <2>1 DEF Bracketed
  <2>3. (chosen = Choose(Now, locked, high)
         /\ Violates(Now, locked, Choose(Now, locked, low)))'
    BY <2>1, <2>2
  <2> QED BY <2>1, <2>3 DEF OwnWay, PaidFor, Bracketed, Settled
<1>9. CASE Halve
  <2>1. Now' = Now /\ locked' = locked /\ routing = "halve" /\ routing' = "halve"
    BY <1>9 DEF Halve, Now
  <2>2. chosen = Choose(Now, locked, high)
        /\ Violates(Now, locked, Choose(Now, locked, low))
    BY <2>1 DEF Bracketed
  <2>3. CASE Violates(Now, locked, Choose(Now, locked, Middle))
    <3>1. low' = Middle /\ high' = high /\ chosen' = chosen BY <1>9, <2>3 DEF Halve
    <3>2. (chosen = Choose(Now, locked, high)
           /\ Violates(Now, locked, Choose(Now, locked, low)))'
      BY <2>1, <2>2, <2>3, <3>1
    <3> QED BY <2>1, <3>2 DEF OwnWay, PaidFor, Bracketed, Settled
  <2>4. CASE ~Violates(Now, locked, Choose(Now, locked, Middle))
    <3>1. low' = low /\ high' = Middle /\ chosen' = Choose(Now, locked, Middle)
      BY <1>9, <2>4 DEF Halve
    <3>2. (chosen = Choose(Now, locked, high)
           /\ Violates(Now, locked, Choose(Now, locked, low)))'
      BY <2>1, <2>2, <3>1
    <3> QED BY <2>1, <3>2 DEF OwnWay, PaidFor, Bracketed, Settled
  <2> QED BY <2>3, <2>4
<1>10. CASE Settle
  <2>1. Now' = Now /\ chosen' = Met /\ routing = "settle" BY <1>10 DEF Settle, Now
  <2>2. Now.rule \notin {"prompt", "feature"} BY <2>1 DEF OwnWay
  <2>3. CASE routing' = "route"
    BY <2>1, <2>2, <2>3 DEF OwnWay, PaidFor, Bracketed, Settled
  <2>4. CASE routing' = "write" /\ locked' = locked
    <3>1. ~Violates(Now, locked, Met) \/ Met = Fallback(Now, locked) BY DEF Met
    <3>2. (~Violates(Now, locked, chosen) \/ chosen = Fallback(Now, locked))'
      BY <2>1, <2>4, <3>1
    <3> QED BY <2>1, <2>2, <2>4, <3>2 DEF OwnWay, PaidFor, Bracketed, Settled
  <2> QED BY <1>10, <2>3, <2>4 DEF Settle
<1>11. CASE \/ Return \/ OpenTemporary \/ FillTemporary \/ Replace \/ WritingFails
            \/ Killed \/ NextCall
  <2>1. routing' \in {"ended", "filling", "replace", "load", "done"}
    BY <1>11 DEF Return, OpenTemporary, FillTemporary, Replace, WritingFails, Killed,
                 NextCall, Ended
  <2> QED BY <2>1 DEF OwnWay, PaidFor, Bracketed, Settled
<1>12. CASE UNCHANGED routeVars
  <2>1. /\ Now' = Now
        /\ UNCHANGED <<routing, low, high, locked, chosen>>
    BY <1>12 DEF routeVars, Now
  <2> QED BY <2>1 DEF OwnWay, PaidFor, Bracketed, Settled
<1> QED
  BY <1>1, <1>2, <1>3, <1>4, <1>5, <1>6, <1>7, <1>8, <1>9, <1>10, <1>11, <1>12
  DEF RouteNext

\* Every search ends on the right side of its limits: whatever a router of this
\* family writes meets every limit, or is the fallback that needs no prediction.
THEOREM LimitsMet == RouteSpec => []Searched
<1>1. RouteInit => SearchInv
  <2> SUFFICES ASSUME RouteInit PROVE SearchInv
    OBVIOUS
  <2>1. routing = "load" BY DEF RouteInit, Fresh
  <2> QED BY <2>1 DEF SearchInv, OwnWay, PaidFor, Bracketed, Settled
<1>2. SearchInv /\ [RouteNext]_routeVars => SearchInv' BY SearchStep
<1>3. SearchInv => Searched BY DEF SearchInv, Searched, Bracketed, Settled
<1> QED BY <1>1, <1>2, <1>3, PTL DEF RouteSpec

-----------------------------------------------------------------------------
(* Artifacts. *)

\* The number of bins is a number, and rules, bins and widths never change.
BinsKnown == turn \in 1..2 /\ \A k \in 1..2 : calls[k].artifact.bins \in Nat

LEMMA WidthsAgree ==
  ASSUME NEW c, c.artifact.bins \in Nat
  PROVE  ExpectedWidth(c) = FeatureWidth(c)
<1> DEFINE b == c.artifact.bins
<1>1. CASE c.rule = "team"
  <2>1. ExpectedWidth(c) = Dense * (1 + 2 * Frequencies) + b + 1
    BY <1>1 DEF ExpectedWidth
  <2>2. FeatureWidth(c) = (Dense + b + 1) + 2 * Frequencies * Dense
    BY <1>1 DEF FeatureWidth, RawWidth
  <2>3. Dense * (1 + 2 * Frequencies) = Dense + 2 * Frequencies * Dense
    BY ShapeAssumption
  <2>4. 2 * Frequencies * Dense \in Nat BY ShapeAssumption
  <2> HIDE DEF b
  <2> QED BY <2>1, <2>2, <2>3, <2>4, ShapeAssumption DEF b
<1>2. CASE c.rule # "team"
  BY <1>2 DEF ExpectedWidth, FeatureWidth, RawWidth
<1> QED BY <1>1, <1>2

LEMMA PlainBins ==
  ASSUME NEW rule, NEW tier, NEW rows, NEW w
  PROVE  Plain(rule, tier, rows, w).artifact.bins \in Nat
<1>1. (CHOOSE b \in Bins : TRUE) \in Nat BY ShapeAssumption
<1> QED BY <1>1 DEF Plain

LEMMA PairBins ==
  ASSUME NEW x, NEW y, calls = <<x, y>>, turn = 1,
         x.artifact.bins \in Nat, y.artifact.bins \in Nat
  PROVE  BinsKnown
<1>1. calls[1] = x /\ calls[2] = y OBVIOUS
<1>2. ASSUME NEW k \in 1..2 PROVE k = 1 \/ k = 2 BY <1>2
<1> QED BY <1>1, <1>2 DEF BinsKnown

LEMMA InitBins == RouteInit => BinsKnown
<1> SUFFICES ASSUME RouteInit PROVE BinsKnown
  OBVIOUS
<1>1. turn = 1 BY DEF RouteInit, Fresh
<1>2. CASE LessToSpend
  <2>1. PICK r, t, b, w, s :
          calls = <<Plain(r, t, b, w), [Plain(r, t, b, w) EXCEPT !.safety = s]>>
    BY <1>2 DEF LessToSpend
  <2>2. [Plain(r, t, b, w) EXCEPT !.safety = s].artifact = Plain(r, t, b, w).artifact
    BY DEF Plain
  <2> QED BY <1>1, <2>1, <2>2, PlainBins, PairBins
<1>3. CASE CopyFirst \/ Reordered
  <2>1. PICK r, t, b, w, q, c :
          calls = <<Plain(r, t, b, w), Plain(q, t, c, w)>>
    BY <1>3 DEF CopyFirst, Reordered
  <2> QED BY <1>1, <2>1, PlainBins, PairBins
<1>4. CASE Shaped
  <2>1. PICK r \in {"team", "hash"}, n \in Bins, same \in BOOLEAN,
            width \in [Vectors -> Widths] :
          calls = <<UnderArtifact(r, n, same, width), UnderArtifact(r, n, same, width)>>
    BY <1>4 DEF Shaped
  <2>2. UnderArtifact(r, n, same, width).artifact.bins = n BY DEF UnderArtifact, Plain
  <2>3. n \in Nat BY ShapeAssumption
  <2> QED BY <1>1, <2>1, <2>2, <2>3, PairBins
<1> QED BY <1>2, <1>3, <1>4 DEF RouteInit

\* An artifact that passes the checks at load time has exactly the width of the
\* features that are computed, for every number of dense features, frequencies and
\* hash bins: no coefficient is dropped and no prediction fails.
THEOREM AcceptedArtifactsFit == RouteSpec => []AcceptedFits
<1> DEFINE Inv == BinsKnown /\ AcceptedFits
<1>1. RouteInit => Inv
  <2> SUFFICES ASSUME RouteInit PROVE Inv
    OBVIOUS
  <2>1. routing = "load" BY DEF RouteInit, Fresh
  <2> QED BY <2>1, InitBins DEF AcceptedFits
<1>2. Inv /\ [RouteNext]_routeVars => Inv'
  <2> SUFFICES ASSUME Inv, [RouteNext]_routeVars PROVE Inv'
    OBVIOUS
  <2>1. CASE Load
    <3>1. UNCHANGED <<calls, turn>> /\ routing = "load" BY <2>1 DEF Load
    <3>2. Now' = Now BY <3>1 DEF Now
    <3>3. CASE Accepts(Now)
      <4>1. Now.artifact.bins \in Nat BY DEF BinsKnown, Now
      <4>2. Now.rule \in {"team", "hash"} => Fits(Now)
        BY <3>3, <4>1, WidthsAgree DEF Accepts, Fits
      <4>3. AcceptedFits'
        BY <3>2, <4>2 DEF AcceptedFits, Fits, FeatureWidth, RawWidth
      <4> QED BY <3>1, <4>3 DEF BinsKnown
    <3>4. CASE ~Accepts(Now)
      BY <2>1, <3>1, <3>4 DEF Load, Ended, AcceptedFits, BinsKnown
    <3> QED BY <3>3, <3>4
  <2>2. CASE \/ Predict \/ SelectByPrompt \/ UpgradeGroup \/ UpgradesDone \/ Route
             \/ Double \/ Bisect \/ Halve \/ Halved \/ Settle \/ Return
             \/ OpenTemporary \/ FillTemporary \/ Replace \/ WritingFails \/ Killed
    <3>1. UNCHANGED <<calls, turn>> /\ routing \notin {"load", "ended", "done"}
      BY <2>2 DEF Predict, SelectByPrompt, UpgradeGroup, UpgradesDone, Route, Double,
                  Bisect, Halve, Halved, Settle, Return, OpenTemporary, FillTemporary,
                  Replace, WritingFails, Killed
    <3>2. Now' = Now BY <3>1 DEF Now
    <3> QED BY <3>1, <3>2 DEF AcceptedFits, BinsKnown, Fits, FeatureWidth, RawWidth
  <2>3. CASE NextCall
    <3>1. calls' = calls /\ turn' \in {turn, 2} /\ routing' \in {"load", "done"}
      BY <2>3 DEF NextCall
    <3> QED BY <3>1 DEF BinsKnown, AcceptedFits
  <2>4. CASE UNCHANGED routeVars
    BY <2>4 DEF routeVars, BinsKnown, AcceptedFits, Now, Fits, FeatureWidth, RawWidth
  <2> QED BY <2>1, <2>2, <2>3, <2>4 DEF RouteNext
<1> QED BY <1>1, <1>2, PTL DEF RouteSpec

-----------------------------------------------------------------------------
(* What the predictions of a batch are. *)

Typed(c) ==
  /\ c.rows \in Seq(Predicted) /\ c.rows # <<>>
  /\ c.rule \in {"team", "hash", "prompt", "feature", "copy", "calibrate"}
  /\ c.tier \in Tier
  /\ c.safety \in Nat /\ c.highCap \in Nat /\ c.share \in Int
  /\ c.risk \in [ModelId -> Nat]

Selection(c) == [Places(c) -> ModelId]

\* Costs of the three models: a larger model costs more.
Prices(v) ==
  /\ \A m \in ModelId : v[m] \in Nat
  /\ \A m, k \in ModelId : m <= k => v[m] <= v[k]

LEMMA RaisedPrices ==
  ASSUME NEW raw \in [ModelId -> Nat] PROVE Prices(Raised(raw))
<1> DEFINE mid == Greater(raw[Mid], raw[Light] + 1)
<1> DEFINE top == Greater(raw[High], mid + 1)
<1>1. raw[Light] \in Nat /\ raw[Mid] \in Nat /\ raw[High] \in Nat
  BY DEF ModelId, Light, Mid, High
<1>2. mid \in Nat /\ raw[Light] <= mid
  BY <1>1 DEF Greater
<1> HIDE DEF mid
<1>3. top \in Nat /\ mid <= top
  BY <1>1, <1>2 DEF Greater
<1>4. Raised(raw) = <<raw[Light], mid, top>>
  BY DEF Raised, mid, top
<1> HIDE DEF top
<1>5. \A m \in ModelId : m = 1 \/ m = 2 \/ m = 3
  BY DEF ModelId
<1>6. PICK a \in Nat, b \in Nat, e \in Nat : Raised(raw) = <<a, b, e>> /\ a <= b /\ b <= e
  BY <1>1, <1>2, <1>3, <1>4
<1> QED
  BY <1>5, <1>6 DEF Prices

LEMMA RowsTyped ==
  ASSUME NEW c, Typed(c)
  PROVE  /\ Len(c.rows) \in Nat \ {0} /\ Places(c) = 1..Len(c.rows)
         /\ \A i \in Places(c) : /\ c.rows[i] \in Predicted
                                 /\ Prices(CostOf(c, i)) /\ Prices(RankOf(c, i))
<1>1. Len(c.rows) \in Nat \ {0} /\ Places(c) = 1..Len(c.rows)
  BY DEF Typed, Places
<1>2. ASSUME NEW i \in Places(c)
      PROVE  c.rows[i] \in Predicted /\ Prices(CostOf(c, i)) /\ Prices(RankOf(c, i))
  <2>1. c.rows[i] \in Predicted
    BY <1>1, <1>2, Members DEF Typed
  <2>2. c.rows[i].cost \in [ModelId -> Nat] /\ c.rows[i].rank \in [ModelId -> Nat]
    BY <2>1 DEF Predicted
  <2> QED
    BY <2>1, <2>2, RaisedPrices DEF CostOf, RankOf
<1> QED
  BY <1>1, <1>2

\* A sum over the episodes of a batch.
LEMMA BatchSum ==
  ASSUME NEW c, Typed(c), NEW g \in [Places(c) -> Int]
  PROVE  Sum(g) \in Int
BY RowsTyped, SumInteger

LEMMA BatchSumUp ==
  ASSUME NEW c, Typed(c), NEW g \in [Places(c) -> Int], NEW h \in [Places(c) -> Int],
         \A i \in Places(c) : g[i] <= h[i]
  PROVE  Sum(g) <= Sum(h)
<1>1. Len(c.rows) \in Nat /\ Places(c) = 1..Len(c.rows)
  BY RowsTyped
<1> QED
  BY <1>1, SumMonotone

\* The three models' values have a first among the best.
LEMMA BestIs ==
  ASSUME NEW v, \A m \in ModelId : v[m] \in Int
  PROVE  /\ Best(v) \in ModelId
         /\ \A k \in ModelId : v[Best(v)] > v[k] \/ (v[Best(v)] = v[k] /\ Best(v) <= k)
<1> DEFINE First(m) == \A k \in ModelId : v[m] > v[k] \/ (v[m] = v[k] /\ m <= k)
<1>1. \E m \in ModelId : First(m)
  <2>1. v[1] \in Int /\ v[2] \in Int /\ v[3] \in Int
    BY DEF ModelId
  <2>2. \A k \in ModelId : k = 1 \/ k = 2 \/ k = 3
    BY DEF ModelId
  <2>3. 1 \in ModelId /\ 2 \in ModelId /\ 3 \in ModelId
    BY DEF ModelId
  <2>4. CASE v[1] >= v[2] /\ v[1] >= v[3]
    <3>1. First(1)
      BY <2>1, <2>2, <2>4
    <3> QED
      BY <2>3, <3>1
  <2>5. CASE v[2] > v[1] /\ v[2] >= v[3]
    <3>1. First(2)
      BY <2>1, <2>2, <2>5
    <3> QED
      BY <2>3, <3>1
  <2>6. CASE v[3] > v[1] /\ v[3] > v[2]
    <3>1. First(3)
      BY <2>1, <2>2, <2>6
    <3> QED
      BY <2>3, <3>1
  <2> QED
    BY <2>1, <2>4, <2>5, <2>6
<1>2. Best(v) = CHOOSE m \in ModelId : First(m)
  BY DEF Best
<1>3. Best(v) \in ModelId /\ First(Best(v))
  BY <1>1, <1>2, Zenon
<1> QED
  BY <1>3

-----------------------------------------------------------------------------
(* The same episodes in another order. *)

Twin(c, d, f) ==
  /\ Typed(c) /\ Typed(d)
  /\ f \in Orders(c.rows) /\ d.rows = Permuted(c.rows, f)
  /\ d.rule = c.rule /\ d.tier = c.tier /\ d.artifact = c.artifact
  /\ d.safety = c.safety /\ d.risk = c.risk /\ d.highCap = c.highCap /\ d.share = c.share

LEMMA TwinRows ==
  ASSUME NEW c, NEW d, NEW f, Twin(c, d, f)
  PROVE  /\ Places(d) = Places(c) /\ f \in [Places(c) -> Places(c)]
         /\ \A i, j \in Places(c) : f[i] = f[j] => i = j
         /\ \A i \in Places(c) : /\ d.rows[i] = c.rows[f[i]]
                                 /\ CostOf(d, i) = CostOf(c, f[i])
                                 /\ RankOf(d, i) = RankOf(c, f[i])
<1>1. Len(c.rows) \in Nat /\ Places(c) = 1..Len(c.rows)
  BY RowsTyped DEF Twin
<1>2. f \in [Places(c) -> Places(c)] /\ \A i, j \in Places(c) : f[i] = f[j] => i = j
  BY <1>1 DEF Twin, Orders
<1>3. d.rows = [i \in Places(c) |-> c.rows[f[i]]]
  BY <1>1 DEF Twin, Permuted
<1>4. Len(d.rows) = Len(c.rows)
  <2>1. Len(d.rows) \in Nat /\ DOMAIN d.rows = 1..Len(d.rows)
    BY DEF Twin, Typed
  <2>2. DOMAIN d.rows = 1..Len(c.rows)
    BY <1>1, <1>3
  <2> QED
    BY <1>1, <2>1, <2>2
<1>5. Places(d) = Places(c)
  BY <1>4 DEF Places
<1>6. \A i \in Places(c) : d.rows[i] = c.rows[f[i]]
  BY <1>3
<1>7. ASSUME NEW i \in Places(c)
      PROVE  CostOf(d, i) = CostOf(c, f[i]) /\ RankOf(d, i) = RankOf(c, f[i])
  BY <1>6 DEF CostOf, RankOf, Twin
<1> QED
  BY <1>2, <1>5, <1>6, <1>7

LEMMA TwinSum ==
  ASSUME NEW c, NEW d, NEW f, Twin(c, d, f),
         NEW g \in [Places(c) -> Int], NEW h \in [Places(c) -> Int],
         \A i \in Places(c) : h[i] = g[f[i]]
  PROVE  Sum(h) = Sum(g)
<1>1. Len(c.rows) \in Nat /\ Places(c) = 1..Len(c.rows)
  BY RowsTyped DEF Twin
<1>2. /\ f \in [Places(c) -> Places(c)]
      /\ \A i, j \in Places(c) : f[i] = f[j] => i = j
  BY TwinRows
<1>3. Matched(Len(c.rows), h, g, f)
  BY <1>1, <1>2 DEF Matched
<1> QED
  BY <1>1, <1>2, <1>3, SumPermuted

\* The same choices in the other order.
Rearranged(c, f, x, y) ==
  x \in Selection(c) /\ y \in Selection(c) /\ \A i \in Places(c) : y[i] = x[f[i]]

LEMMA TwinLight ==
  ASSUME NEW c, NEW d, NEW f, Twin(c, d, f)
  PROVE  /\ LightCost(d) = LightCost(c) /\ RankLight(d) = RankLight(c)
         /\ LightCost(c) \in Int /\ RankLight(c) \in Int
         /\ Rearranged(c, f, AllLight(c), AllLight(d))
<1>1. Typed(c) /\ Places(d) = Places(c) /\ f \in [Places(c) -> Places(c)]
  BY TwinRows DEF Twin
<1>2. Light \in ModelId
  BY DEF Light, ModelId
<1>3. \A i \in Places(c) : CostOf(c, i)[Light] \in Int /\ RankOf(c, i)[Light] \in Int
  BY <1>1, <1>2, RowsTyped DEF Prices
<1>4. \A i \in Places(c) : CostOf(d, i) = CostOf(c, f[i]) /\ RankOf(d, i) = RankOf(c, f[i])
  BY TwinRows
<1> DEFINE g == [i \in Places(c) |-> CostOf(c, i)[Light]]
           h == [i \in Places(c) |-> CostOf(d, i)[Light]]
           u == [i \in Places(c) |-> RankOf(c, i)[Light]]
           v == [i \in Places(c) |-> RankOf(d, i)[Light]]
<1>5. /\ g \in [Places(c) -> Int] /\ h \in [Places(c) -> Int]
      /\ u \in [Places(c) -> Int] /\ v \in [Places(c) -> Int]
      /\ \A i \in Places(c) : h[i] = g[f[i]] /\ v[i] = u[f[i]]
  BY <1>1, <1>3, <1>4
<1>6. /\ LightCost(c) = Sum(g) /\ LightCost(d) = Sum(h)
      /\ RankLight(c) = Sum(u) /\ RankLight(d) = Sum(v)
  BY <1>1 DEF LightCost, RankLight
<1> HIDE DEF g, h, u, v
<1>7. Sum(h) = Sum(g) /\ Sum(v) = Sum(u) /\ Sum(g) \in Int /\ Sum(u) \in Int
  BY <1>1, <1>5, TwinSum, BatchSum
<1>8. Rearranged(c, f, AllLight(c), AllLight(d))
  BY <1>1, <1>2 DEF Rearranged, AllLight, Selection
<1> QED
  BY <1>6, <1>7, <1>8

LEMMA TwinCost ==
  ASSUME NEW c, NEW d, NEW f, Twin(c, d, f), NEW x, NEW y, Rearranged(c, f, x, y)
  PROVE  Cost(d, y) = Cost(c, x) /\ Cost(c, x) \in Int
<1>1. Typed(c) /\ Places(d) = Places(c) /\ f \in [Places(c) -> Places(c)]
  BY TwinRows DEF Twin
<1>2. \A i \in Places(c) : \A m \in ModelId : CostOf(c, i)[m] \in Int
  BY <1>1, RowsTyped DEF Prices
<1>3. \A i \in Places(c) : CostOf(d, i) = CostOf(c, f[i])
  BY TwinRows
<1> DEFINE g == [i \in Places(c) |-> CostOf(c, i)[x[i]]]
           h == [i \in Places(c) |-> CostOf(d, i)[y[i]]]
<1>4. x \in [Places(c) -> ModelId] /\ \A i \in Places(c) : y[i] = x[f[i]]
  BY DEF Rearranged, Selection
<1>5. /\ g \in [Places(c) -> Int] /\ h \in [Places(c) -> Int]
      /\ \A i \in Places(c) : h[i] = g[f[i]]
  BY <1>1, <1>2, <1>3, <1>4
<1>6. Cost(c, x) = Sum(g) /\ Cost(d, y) = Sum(h)
  BY <1>1 DEF Cost
<1> HIDE DEF g, h
<1> QED
  BY <1>1, <1>5, <1>6, TwinSum, BatchSum

\* The summands of the two other limits.
HighPart(c, x, i) == IF x[i] = High THEN CostOf(c, i)[High] ELSE 0

SharePart(c, x, i) ==
  IF x[i] = Light THEN 0 ELSE (MultipleBound[x[i]] - 1) * CostOf(c, i)[Light]

HighTotal(c, x) == Sum([i \in Places(c) |-> HighPart(c, x, i)])
ShareTotal(c, x) == Sum([i \in Places(c) |-> SharePart(c, x, i)])

LEMMA LimitsOfTotals ==
  ASSUME NEW c, NEW x
  PROVE  /\ OverHighCap(c, x) = (HighTotal(c, x) * Unit * Unit * Unit > Cap(c) * c.highCap)
         /\ OverShare(c, x) =
              (ShareTotal(c, x) * Unit * Unit > (Budget[c.tier] - Unit) * c.share * LightCost(c))
BY DEF OverHighCap, OverShare, HighTotal, ShareTotal, HighPart, SharePart

LEMMA PartsTyped ==
  ASSUME NEW c, Typed(c), NEW x \in Selection(c), NEW i \in Places(c)
  PROVE  HighPart(c, x, i) \in Int /\ SharePart(c, x, i) \in Int
<1>1. x[i] \in ModelId /\ Light \in ModelId /\ High \in ModelId
  BY DEF Selection, Light, High, ModelId
<1>2. \A m \in ModelId : CostOf(c, i)[m] \in Int
  BY RowsTyped DEF Prices
<1>3. \A m \in ModelId : MultipleBound[m] \in Int
  BY NumbersAssumption DEF NumbersAssumption
<1>4. PICK a \in Int, b \in Int, e \in Int :
        a = CostOf(c, i)[High] /\ b = CostOf(c, i)[Light] /\ e = MultipleBound[x[i]]
  BY <1>1, <1>2, <1>3
<1>5. (e - 1) * b \in Int
  OBVIOUS
<1> QED
  BY <1>4, <1>5 DEF HighPart, SharePart

LEMMA TwinParts ==
  ASSUME NEW c, NEW d, NEW f, Twin(c, d, f), NEW x, NEW y, Rearranged(c, f, x, y)
  PROVE  HighTotal(d, y) = HighTotal(c, x) /\ ShareTotal(d, y) = ShareTotal(c, x)
<1>1. /\ Typed(c) /\ Typed(d) /\ Places(d) = Places(c) /\ f \in [Places(c) -> Places(c)]
      /\ x \in Selection(c) /\ y \in Selection(d)
  BY TwinRows DEF Twin, Rearranged, Selection
<1>2. \A i \in Places(c) : CostOf(d, i) = CostOf(c, f[i]) /\ y[i] = x[f[i]]
  BY TwinRows DEF Rearranged
<1>3. \A i \in Places(c) : /\ HighPart(d, y, i) = HighPart(c, x, f[i])
                           /\ SharePart(d, y, i) = SharePart(c, x, f[i])
  BY <1>2 DEF HighPart, SharePart
<1> DEFINE g == [i \in Places(c) |-> HighPart(c, x, i)]
           h == [i \in Places(d) |-> HighPart(d, y, i)]
           u == [i \in Places(c) |-> SharePart(c, x, i)]
           v == [i \in Places(d) |-> SharePart(d, y, i)]
<1>4. /\ g \in [Places(c) -> Int] /\ h \in [Places(c) -> Int]
      /\ u \in [Places(c) -> Int] /\ v \in [Places(c) -> Int]
  BY <1>1, PartsTyped
<1>5. \A i \in Places(c) : h[i] = g[f[i]] /\ v[i] = u[f[i]]
  BY <1>1, <1>3
<1> HIDE DEF g, h, u, v
<1>6. Sum(h) = Sum(g) /\ Sum(v) = Sum(u)
  BY <1>4, <1>5, TwinSum
<1> QED
  BY <1>6 DEF g, h, u, v, HighTotal, ShareTotal


LEMMA ValuesInteger ==
  ASSUME NEW c, Typed(c), NEW i \in Places(c), NEW p \in Int, NEW light \in Int,
         NEW m \in ModelId
  PROVE  Values(c, i, p, light)[m] \in Int
<1>1. c.rows[i] \in Predicted /\ Prices(RankOf(c, i)) /\ c.risk \in [ModelId -> Nat]
  BY RowsTyped DEF Typed
<1>2. c.rows[i].score[m] \in Int
  BY <1>1 DEF Predicted
<1>3. Grain \in Int /\ Unit \in Int /\ ScoreUnit \in Int
  BY NumbersAssumption DEF NumbersAssumption
<1>4. RankOf(c, i)[m] \in Int /\ (IF c.rule = "hash" THEN Unit ELSE c.risk[m]) \in Int
  BY <1>1, <1>3 DEF Prices
<1>5. PICK s \in Int, r \in Int, w \in Int :
        /\ s = c.rows[i].score[m] /\ r = RankOf(c, i)[m]
        /\ w = IF c.rule = "hash" THEN Unit ELSE c.risk[m]
  BY <1>2, <1>4
<1>6. s * Grain * Unit * light - p * w * r * ScoreUnit \in Int
  BY <1>3
<1>7. Values(c, i, p, light)[m] = s * Grain * Unit * light - p * w * r * ScoreUnit
  BY <1>5 DEF Values
<1> QED
  BY <1>6, <1>7

LEMMA RankLightInteger ==
  ASSUME NEW c, Typed(c)
  PROVE  RankLight(c) \in Nat /\ LightCost(c) \in Nat
<1>1. Light \in ModelId
  BY DEF Light, ModelId
<1>2. \A i \in Places(c) : CostOf(c, i)[Light] \in Nat /\ RankOf(c, i)[Light] \in Nat
  BY <1>1, RowsTyped DEF Prices
<1> DEFINE g == [i \in Places(c) |-> CostOf(c, i)[Light]]
           h == [i \in Places(c) |-> RankOf(c, i)[Light]]
           z == [i \in Places(c) |-> 0]
<1>3. g \in [Places(c) -> Int] /\ h \in [Places(c) -> Int] /\ z \in [Places(c) -> Int]
  BY <1>2
<1>4. \A i \in Places(c) : z[i] <= g[i] /\ z[i] <= h[i]
  BY <1>2
<1>5. LightCost(c) = Sum(g) /\ RankLight(c) = Sum(h)
  BY DEF LightCost, RankLight
<1>6. Sum(z) = 0
  <2>1. Len(c.rows) \in Nat /\ Places(c) = 1..Len(c.rows)
    BY RowsTyped
  <2> DEFINE n == Len(c.rows)
  <2> DEFINE T == {m \in Nat : Sum([i \in 1..m |-> 0]) # 0}
  <2> HIDE DEF n
  <2>2. ASSUME T # {} PROVE FALSE
    <3>1. PICK m \in T : \A y \in T : m <= y
      BY <2>2, LeastMember
    <3> DEFINE e == [i \in 1..m |-> 0]
    <3>2. e \in [1..m -> Int]
      OBVIOUS
    <3>3. CASE m = 0
      BY <3>1, <3>2, <3>3, SumEmpty, Lengths
    <3>4. CASE m # 0
      <4>1. PICK k \in Nat : m = k + 1 /\ k \notin T
        <5>1. m - 1 \in Nat /\ m = (m - 1) + 1 /\ m - 1 \notin T
          BY <3>1, <3>4
        <5> QED
          BY <5>1
      <4>2. [i \in 1..k |-> e[i]] = [i \in 1..k |-> 0]
        BY <4>1
      <4>3. Sum(e) = Sum([i \in 1..k |-> 0]) + e[k + 1]
        BY <3>2, <4>1, <4>2, Shorter
      <4>4. e[k + 1] = 0 /\ Sum([i \in 1..k |-> 0]) = 0
        BY <4>1
      <4> QED
        BY <3>1, <4>3, <4>4
    <3> QED
      BY <3>3, <3>4
  <2>3. Sum([i \in 1..n |-> 0]) = 0
    BY <2>1, <2>2 DEF n
  <2> QED
    BY <2>1, <2>3 DEF n
<1> HIDE DEF g, h, z
<1>7. Sum(g) \in Int /\ Sum(h) \in Int /\ Sum(z) <= Sum(g) /\ Sum(z) <= Sum(h)
  BY <1>3, <1>4, BatchSum, BatchSumUp
<1> QED
  BY <1>5, <1>6, <1>7

LEMMA NotEmpty ==
  ASSUME NEW c, Typed(c), NEW x \in Selection(c) PROVE x # <<>>
<1>1. 1 \in Places(c)
  BY RowsTyped
<1> QED
  BY <1>1 DEF Selection

\* What is locked in the two calls.
LockRearranged(c, f, k, l) ==
  \/ k = <<>> /\ l = <<>>
  \/ Rearranged(c, f, k, l) /\ k # <<>> /\ l # <<>>

LEMMA FilledModel ==
  ASSUME NEW c, NEW i, NEW m \in ModelId, NEW p
  PROVE  Filled(c, i, m, p) \in ModelId
BY DEF Filled, ModelId, Mid

LEMMA ChooseTyped ==
  ASSUME NEW c, Typed(c), NEW p \in Int, NEW k, k = <<>> \/ k \in Selection(c)
  PROVE  Choose(c, k, p) \in Selection(c)
<1> DEFINE light == RankLight(c)
<1>1. light \in Int
  BY RankLightInteger
<1> HIDE DEF light
<1>2. ASSUME NEW i \in Places(c) PROVE Best(Values(c, i, p, light)) \in ModelId
  <2>1. \A m \in ModelId : Values(c, i, p, light)[m] \in Int
    BY <1>1, ValuesInteger
  <2> QED
    BY <2>1, BestIs
<1>3. ASSUME NEW i \in Places(c), k # <<>> PROVE Filled(c, i, k[i], p) \in ModelId
  BY <1>3, FilledModel DEF Selection
<1> USE DEF light
<1> QED
  BY <1>2, <1>3 DEF Choose, Selection

LEMMA TwinChoose ==
  ASSUME NEW c, NEW d, NEW f, Twin(c, d, f), NEW p \in Int, NEW k, NEW l,
         LockRearranged(c, f, k, l)
  PROVE  Rearranged(c, f, Choose(c, k, p), Choose(d, l, p))
<1>1. /\ Typed(c) /\ Typed(d) /\ Places(d) = Places(c) /\ f \in [Places(c) -> Places(c)]
      /\ d.rule = c.rule /\ d.risk = c.risk
  BY TwinRows DEF Twin
<1>2. RankLight(d) = RankLight(c) /\ LightCost(d) = LightCost(c)
  BY TwinLight
<1>3. \A i \in Places(c) : /\ d.rows[i] = c.rows[f[i]]
                           /\ CostOf(d, i) = CostOf(c, f[i])
                           /\ RankOf(d, i) = RankOf(c, f[i])
  BY TwinRows
<1>4. Choose(c, k, p) \in Selection(c) /\ Choose(d, l, p) \in Selection(c)
  <2>1. k = <<>> \/ k \in Selection(c)
    BY DEF LockRearranged, Rearranged
  <2>2. l = <<>> \/ l \in Selection(d)
    BY <1>1 DEF LockRearranged, Rearranged, Selection
  <2> QED
    BY <1>1, <2>1, <2>2, ChooseTyped DEF Selection
<1>5. ASSUME NEW i \in Places(c) PROVE Choose(d, l, p)[i] = Choose(c, k, p)[f[i]]
  <2>1. f[i] \in Places(c) /\ i \in Places(d)
    BY <1>1
  <2>2. CASE k = <<>> /\ l = <<>>
    <3>1. Values(d, i, p, RankLight(d)) = Values(c, f[i], p, RankLight(c))
      BY <1>1, <1>2, <1>3 DEF Values
    <3>2. Choose(d, l, p)[i] = Best(Values(d, i, p, RankLight(d)))
      BY <2>1, <2>2 DEF Choose
    <3>3. Choose(c, k, p)[f[i]] = Best(Values(c, f[i], p, RankLight(c)))
      BY <2>1, <2>2 DEF Choose
    <3> QED
      BY <3>1, <3>2, <3>3
  <2>3. CASE Rearranged(c, f, k, l) /\ k # <<>> /\ l # <<>>
    <3>1. l[i] = k[f[i]]
      BY <2>3 DEF Rearranged
    <3>2. Filled(d, i, l[i], p) = Filled(c, f[i], k[f[i]], p)
      BY <1>2, <1>3, <3>1 DEF Filled
    <3>3. Choose(d, l, p)[i] = Filled(d, i, l[i], p)
      BY <2>1, <2>3 DEF Choose
    <3>4. Choose(c, k, p)[f[i]] = Filled(c, f[i], k[f[i]], p)
      BY <2>1, <2>3 DEF Choose
    <3> QED
      BY <3>2, <3>3, <3>4
  <2> QED
    BY <2>2, <2>3 DEF LockRearranged
<1> QED
  BY <1>4, <1>5 DEF Rearranged

LEMMA TwinViolates ==
  ASSUME NEW c, NEW d, NEW f, Twin(c, d, f), NEW k, NEW l, LockRearranged(c, f, k, l),
         NEW x, NEW y, Rearranged(c, f, x, y), c.rule \in {"team", "hash", "copy", "calibrate"}
  PROVE  Violates(d, l, y) = Violates(c, k, x)
<1>1. LightCost(d) = LightCost(c) /\ Cost(d, y) = Cost(c, x)
  BY TwinLight, TwinCost
<1>2. /\ d.rule = c.rule /\ d.tier = c.tier /\ d.safety = c.safety /\ d.highCap = c.highCap
      /\ d.share = c.share
  BY DEF Twin
<1>3. Cap(d) = Cap(c)
  BY <1>1, <1>2 DEF Cap
<1>4. OverCap(d, y) = OverCap(c, x)
  BY <1>1, <1>3 DEF OverCap
<1>5. OverHighCap(d, y) = OverHighCap(c, x)
  BY <1>2, <1>3, TwinParts, LimitsOfTotals
<1>6. OverShare(d, y) = OverShare(c, x)
  BY <1>1, <1>2, TwinParts, LimitsOfTotals
<1>7. \A s, a : OverScaled(d, s, y, a) = OverScaled(c, s, x, a)
  BY <1>1, <1>2 DEF OverScaled
<1>8. CASE k = <<>> /\ l = <<>>
  BY <1>2, <1>4, <1>5, <1>6, <1>7, <1>8 DEF Violates
<1>9. CASE Rearranged(c, f, k, l) /\ k # <<>> /\ l # <<>>
  <2>1. Cost(d, l) = Cost(c, k)
    BY <1>9, TwinCost
  <2> QED
    BY <1>2, <1>4, <1>5, <1>6, <1>7, <1>9, <2>1 DEF Violates
<1> QED
  BY <1>8, <1>9 DEF LockRearranged


LEMMA TwinSelected ==
  ASSUME NEW c, NEW d, NEW f, Twin(c, d, f)
  PROVE  Rearranged(c, f, [i \in Places(c) |-> Selected(c.rows[i].features, c.tier)],
                      [i \in Places(d) |-> Selected(d.rows[i].features, d.tier)])
<1>1. Places(d) = Places(c) /\ f \in [Places(c) -> Places(c)] /\ d.tier = c.tier /\ c.tier \in Tier
  BY TwinRows DEF Twin, Typed
<1>2. ASSUME NEW t \in Tier, NEW x PROVE Selected(x, t) \in ModelId
  BY DEF Selected, Tier, ModelId, Light, Mid
<1>3. \A i \in Places(c) : d.rows[i] = c.rows[f[i]]
  BY TwinRows
<1> QED
  BY <1>1, <1>2, <1>3 DEF Rearranged, Selection

LEMMA TwinLifted ==
  ASSUME NEW c, NEW d, NEW f, Twin(c, d, f), NEW x, NEW y, Rearranged(c, f, x, y), NEW p
  PROVE  Rearranged(c, f, Lifted(c, x, p), Lifted(d, y, p))
<1>1. Places(d) = Places(c) /\ f \in [Places(c) -> Places(c)]
  BY TwinRows
<1>2. \A i \in Places(c) : d.rows[i] = c.rows[f[i]] /\ y[i] = x[f[i]]
  BY TwinRows DEF Rearranged
<1>3. \A i \in Places(c) : i \in Group(d, y, p) <=> f[i] \in Group(c, x, p)
  BY <1>1, <1>2 DEF Group
<1>4. Mid \in ModelId /\ x \in [Places(c) -> ModelId] /\ y \in [Places(c) -> ModelId]
  BY DEF Rearranged, Selection, Mid, ModelId
<1>5. Lifted(c, x, p) = [i \in Places(c) |-> IF i \in Group(c, x, p) THEN Mid ELSE x[i]]
  BY DEF Lifted
<1>6. Lifted(d, y, p) = [i \in Places(c) |-> IF i \in Group(d, y, p) THEN Mid ELSE y[i]]
  BY <1>1 DEF Lifted
<1> QED
  BY <1>1, <1>2, <1>3, <1>4, <1>5, <1>6 DEF Rearranged, Selection

\* What an episode counts in feature_budget.
Counted(c, x, i) == Weight(c, i) * (IF x[i] = Light THEN Unit ELSE MidMultiplier)

LEMMA CountedInteger ==
  ASSUME NEW c, Typed(c), NEW x, NEW i \in Places(c) PROVE Counted(c, x, i) \in Int
<1>1. c.rows[i].features.characters \in Nat
  BY RowsTyped DEF Predicted
<1>2. Weight(c, i) \in Int
  BY <1>1 DEF Weight, Greater
<1>3. (IF x[i] = Light THEN Unit ELSE MidMultiplier) \in Int
  BY NumbersAssumption DEF NumbersAssumption
<1>4. PICK a \in Int, b \in Int :
        a = Weight(c, i) /\ b = IF x[i] = Light THEN Unit ELSE MidMultiplier
  BY <1>2, <1>3
<1> QED
  BY <1>4 DEF Counted

LEMMA TwinSurrogate ==
  ASSUME NEW c, NEW d, NEW f, Twin(c, d, f), NEW x, NEW y, Rearranged(c, f, x, y)
  PROVE  Surrogate(d, y) = Surrogate(c, x)
<1>1. /\ Typed(c) /\ Typed(d) /\ Places(d) = Places(c) /\ f \in [Places(c) -> Places(c)]
  BY TwinRows DEF Twin
<1>2. \A i \in Places(c) : d.rows[i] = c.rows[f[i]] /\ y[i] = x[f[i]]
  BY TwinRows DEF Rearranged
<1>3. \A i \in Places(c) : Counted(d, y, i) = Counted(c, x, f[i])
  BY <1>2 DEF Counted, Weight
<1> DEFINE g == [i \in Places(c) |-> Counted(c, x, i)]
           h == [i \in Places(d) |-> Counted(d, y, i)]
<1>4. g \in [Places(c) -> Int] /\ h \in [Places(c) -> Int]
  BY <1>1, CountedInteger
<1>5. \A i \in Places(c) : h[i] = g[f[i]]
  BY <1>1, <1>3
<1>6. Surrogate(c, x) = Sum(g) /\ Surrogate(d, y) = Sum(h)
  BY DEF Surrogate, Counted
<1> HIDE DEF g, h
<1> QED
  BY <1>4, <1>5, <1>6, TwinSum

LEMMA TwinAffordable ==
  ASSUME NEW c, NEW d, NEW f, Twin(c, d, f), NEW x, NEW y, Rearranged(c, f, x, y)
  PROVE  Affordable(d, y) = Affordable(c, x)
<1>1. Surrogate(d, y) = Surrogate(c, x) /\ Surrogate(d, AllLight(d)) = Surrogate(c, AllLight(c))
  BY TwinSurrogate, TwinLight
<1>2. d.tier = c.tier
  BY DEF Twin
<1> QED
  BY <1>1, <1>2 DEF Affordable

-----------------------------------------------------------------------------
(* How a call comes to its answer.  Two calls run one after the other, so what  *)
(* relates them is a fact about two histories.                                  *)

\* What a call changes until it has decided.
Here == [routing |-> routing, low |-> low, high |-> high, left |-> left,
         locked |-> locked, chosen |-> chosen]

Start == [routing |-> "load", low |-> 0, high |-> 0, left |-> 0,
          locked |-> <<>>, chosen |-> <<>>]

SameBounds(s, t) == t.low = s.low /\ t.high = s.high

LoadStep(c, s, t) ==
  /\ s.routing = "load"
  /\ t.routing = IF Accepts(c) THEN "predict" ELSE "ended"
  /\ SameBounds(s, t) /\ t.left = s.left /\ t.locked = s.locked /\ t.chosen = s.chosen

PredictStep(c, s, t) ==
  /\ s.routing = "predict"
  /\ \/ c.rule = "team" /\ ~Fits(c) /\ t.routing = "ended"
     \/ c.rule = "team" /\ Fits(c) /\ t.routing = "route"
     \/ c.rule = "prompt" /\ t.routing = "prompt"
     \/ c.rule = "feature" /\ t.routing = "feature"
     \/ c.rule \notin {"team", "prompt", "feature"} /\ t.routing = "route"
  /\ t.chosen = AllLight(c) /\ t.left = MaxPriority
  /\ SameBounds(s, t) /\ t.locked = s.locked

PromptStep(c, s, t) ==
  /\ s.routing = "prompt" /\ t.routing = "write"
  /\ t.chosen = [i \in Places(c) |-> Selected(c.rows[i].features, c.tier)]
  /\ SameBounds(s, t) /\ t.left = s.left /\ t.locked = s.locked

UpgradeStep(c, s, t) ==
  /\ s.routing = "feature" /\ t.routing = "feature"
  /\ s.left >= MinimumPriority(c.tier) /\ t.left = s.left - 1
  /\ t.chosen = IF Affordable(c, Lifted(c, s.chosen, s.left))
                THEN Lifted(c, s.chosen, s.left) ELSE s.chosen
  /\ SameBounds(s, t) /\ t.locked = s.locked

UpgradedStep(c, s, t) ==
  /\ s.routing = "feature" /\ t.routing = "write"
  /\ s.left < MinimumPriority(c.tier) /\ t.left = s.left
  /\ SameBounds(s, t) /\ t.locked = s.locked /\ t.chosen = s.chosen

Breaks(c, s, p) == Violates(c, s.locked, Choose(c, s.locked, p))

RouteStep(c, s, t) ==
  /\ s.routing = "route"
  /\ IF Breaks(c, s, 0)
     THEN /\ t.low = 0 /\ t.high = Grain /\ t.routing = "double"
          /\ t.chosen = Choose(c, s.locked, Grain)
     ELSE t.routing = "settle" /\ SameBounds(s, t) /\ t.chosen = Choose(c, s.locked, 0)
  /\ t.left = s.left /\ t.locked = s.locked

DoubleStep(c, s, t) ==
  /\ s.routing = "double" /\ t.routing = "double"
  /\ Violates(c, s.locked, s.chosen) /\ s.high < Ceiling
  /\ t.low = s.high /\ t.high = 2 * s.high /\ t.chosen = Choose(c, s.locked, 2 * s.high)
  /\ t.left = s.left /\ t.locked = s.locked

BisectStep(c, s, t) ==
  /\ s.routing = "double" /\ t.routing = "halve"
  /\ ~Violates(c, s.locked, s.chosen) \/ s.high >= Ceiling
  /\ t.left = Steps(c)
  /\ SameBounds(s, t) /\ t.locked = s.locked /\ t.chosen = s.chosen

Between(s) == (s.low + s.high) \div 2

HalveStep(c, s, t) ==
  /\ s.routing = "halve" /\ t.routing = "halve" /\ s.left > 0 /\ t.left = s.left - 1
  /\ IF Breaks(c, s, Between(s))
     THEN t.low = Between(s) /\ t.high = s.high /\ t.chosen = s.chosen
     ELSE t.low = s.low /\ t.high = Between(s) /\ t.chosen = Choose(c, s.locked, Between(s))
  /\ t.locked = s.locked

HalvedStep(c, s, t) ==
  /\ s.routing = "halve" /\ t.routing = "settle" /\ s.left = 0 /\ t.left = s.left
  /\ SameBounds(s, t) /\ t.locked = s.locked /\ t.chosen = s.chosen

SettleStep(c, s, t) ==
  /\ s.routing = "settle"
  /\ t.chosen = IF Violates(c, s.locked, s.chosen) THEN Fallback(c, s.locked) ELSE s.chosen
  /\ IF c.rule = "hash" /\ c.tier = "premium" /\ s.locked = <<>>
     THEN t.locked = t.chosen /\ t.routing = "route"
     ELSE t.locked = s.locked /\ t.routing = "write"
  /\ SameBounds(s, t) /\ t.left = s.left

Follows(c, s, t) ==
  \/ LoadStep(c, s, t) \/ PredictStep(c, s, t)
  \/ PromptStep(c, s, t) \/ UpgradeStep(c, s, t) \/ UpgradedStep(c, s, t)
  \/ RouteStep(c, s, t) \/ DoubleStep(c, s, t) \/ BisectStep(c, s, t)
  \/ HalveStep(c, s, t) \/ HalvedStep(c, s, t) \/ SettleStep(c, s, t)

Deciding == {"load", "predict", "prompt", "feature", "route", "double", "halve", "settle"}
Concluded  == {"write", "ended"}

\* The first n states of a call.
History(c, h, n) ==
  n \in Nat \ {0} /\ h[1] = Start /\ \A k \in 1..(n - 1) : Follows(c, h[k], h[k + 1])

Reaches(c, s) == \E n, h : History(c, h, n) /\ h[n] = s

Answer(c, a) == \E s : Reaches(c, s) /\ s.routing \in Concluded /\ s.chosen = a

LEMMA ReachesStart == ASSUME NEW c PROVE Reaches(c, Start)
<1>1. History(c, [k \in 1..1 |-> Start], 1)
  BY DEF History
<1> QED
  BY <1>1 DEF Reaches

LEMMA ReachesNext ==
  ASSUME NEW c, NEW s, NEW t, Reaches(c, s), Follows(c, s, t)
  PROVE  Reaches(c, t)
<1>1. PICK n, h : History(c, h, n) /\ h[n] = s
  BY DEF Reaches
<1> DEFINE g == [k \in 1..(n + 1) |-> IF k = n + 1 THEN t ELSE h[k]]
<1>2. /\ n \in Nat \ {0} /\ h[1] = Start
      /\ \A k \in 1..(n - 1) : Follows(c, h[k], h[k + 1])
  BY <1>1 DEF History
<1>3. g[1] = Start /\ g[n + 1] = t /\ \A k \in 1..n : g[k] = h[k]
  BY <1>2
<1>4. ASSUME NEW k \in 1..n PROVE Follows(c, g[k], g[k + 1])
  <2>1. CASE k = n
    BY <1>1, <1>2, <1>3, <2>1
  <2>2. CASE k # n
    <3>1. k \in 1..(n - 1) /\ k + 1 \in 1..n
      BY <1>2, <2>2
    <3> HIDE DEF g
    <3> QED
      BY <1>2, <1>3, <3>1
  <2> QED
    BY <2>1, <2>2
<1> HIDE DEF g
<1>5. History(c, g, n + 1)
  BY <1>2, <1>3, <1>4 DEF History
<1> QED
  BY <1>3, <1>5 DEF Reaches

\* A decided call does not go on.
LEMMA DecidedStays ==
  ASSUME NEW c, NEW s, NEW t, Follows(c, s, t) PROVE s.routing \in Deciding
BY DEF Follows, LoadStep, PredictStep, PromptStep, UpgradeStep, UpgradedStep, RouteStep,
       DoubleStep, BisectStep, HalveStep, HalvedStep, SettleStep, Deciding


\* The actions of the module are steps of the call under way.
LEMMA DecidingFollows ==
  ASSUME RouteNext, routing \in Deciding
  PROVE  Follows(Now, Here, Here') /\ UNCHANGED <<calls, moved, turn, answers>>
<1>1. CASE Load
  BY <1>1 DEF Load, Here, Follows, LoadStep, SameBounds, Ended
<1>2. CASE Predict
  <2>1. PredictStep(Now, Here, Here')
    BY <1>2 DEF Predict, Here, PredictStep, SameBounds, Ended
  <2> QED
    BY <1>2, <2>1 DEF Predict, Follows
<1>3. CASE SelectByPrompt
  BY <1>3 DEF SelectByPrompt, Here, Follows, PromptStep, SameBounds
<1>4. CASE UpgradeGroup
  BY <1>4 DEF UpgradeGroup, Here, Follows, UpgradeStep, SameBounds
<1>5. CASE UpgradesDone
  BY <1>5 DEF UpgradesDone, Here, Follows, UpgradedStep, SameBounds
<1>6. CASE Route
  BY <1>6 DEF Route, Here, Follows, RouteStep, SameBounds, Breaks
<1>7. CASE Double
  BY <1>7 DEF Double, Here, Follows, DoubleStep
<1>8. CASE Bisect
  BY <1>8 DEF Bisect, Here, Follows, BisectStep, SameBounds
<1>9. CASE Halve
  BY <1>9 DEF Halve, Here, Follows, HalveStep, Breaks, Middle, Between
<1>10. CASE Halved
  BY <1>10 DEF Halved, Here, Follows, HalvedStep, SameBounds
<1>11. CASE Settle
  BY <1>11 DEF Settle, Here, Follows, SettleStep, SameBounds, Met
<1>12. CASE \/ Return \/ OpenTemporary \/ FillTemporary \/ Replace \/ WritingFails
            \/ Killed \/ NextCall
  BY <1>12 DEF Return, OpenTemporary, FillTemporary, Replace, WritingFails, Killed, NextCall,
               Deciding
<1> QED
  BY <1>1, <1>2, <1>3, <1>4, <1>5, <1>6, <1>7, <1>8, <1>9, <1>10, <1>11, <1>12 DEF RouteNext

Writing == {"write", "filling", "replace", "ended"}

\* What happens to a decided call keeps its answer.
LEMMA WritingKeeps ==
  ASSUME RouteNext, routing \in Writing, ~NextCall
  PROVE  routing' \in Writing /\ UNCHANGED <<calls, moved, turn, answers, chosen>>
<1>1. \/ Return \/ OpenTemporary \/ FillTemporary \/ Replace \/ WritingFails \/ Killed
  BY DEF RouteNext, Load, Predict, SelectByPrompt, UpgradeGroup, UpgradesDone, Route, Double,
         Bisect, Halve, Halved, Settle, Writing
<1> QED
  BY <1>1 DEF Return, OpenTemporary, FillTemporary, Replace, WritingFails, Killed, Ended, Writing

Paired == LessToSpend \/ CopyFirst \/ Reordered \/ Shaped

\* What is chosen, and what the finished calls chose, has a history.
HistoryInv ==
  /\ turn \in {1, 2}
  /\ routing \in Deciding \cup Writing \cup {"done"}
  /\ routing \in Deciding => Reaches(Now, Here)
  /\ routing \in Writing => Answer(Now, chosen)
  /\ routing # "done" /\ turn = 1 => answers = <<>>
  /\ routing # "done" /\ turn = 2 => \E a : answers = <<a>> /\ Answer(calls[1], a)
  /\ routing = "done" => Answer(calls[1], answers[1]) /\ Answer(calls[2], answers[2])

AnswersInv == Paired /\ HistoryInv

\* A second answer after the first.
LEMMA Appended ==
  ASSUME NEW S, NEW s \in Seq(S), NEW b \in S
  PROVE  /\ Append(s, b)[Len(s) + 1] = b
         /\ \A k \in 1..Len(s) : Append(s, b)[k] = s[k]
<1>1. Len(s) \in Nat /\ Append(s, b) \in Seq(S) /\ Len(Append(s, b)) = Len(s) + 1
  OBVIOUS
<1>2. Append(s, b)[Len(s) + 1] = b
  BY <1>1
<1>3. \A k \in 1..Len(s) : Append(s, b)[k] = s[k]
  BY <1>1
<1> QED
  BY <1>2, <1>3

LEMMA AppendSecond ==
  ASSUME NEW a, NEW b PROVE Append(<<a>>, b)[1] = a /\ Append(<<a>>, b)[2] = b
<1> DEFINE s == <<a>>
           S == {a, b}
<1>1. s \in Seq(S) /\ Len(s) = 1 /\ s[1] = a /\ b \in S
  OBVIOUS
<1> HIDE DEF s, S
<1>2. /\ Append(s, b)[Len(s) + 1] = b
      /\ \A k \in 1..Len(s) : Append(s, b)[k] = s[k]
  BY <1>1, Appended
<1>3. Append(s, b)[1] = s[1] /\ Append(s, b)[2] = b
  BY <1>1, <1>2
<1> QED
  BY <1>1, <1>3 DEF s

LEMMA PairedStays ==
  ASSUME Paired, UNCHANGED <<calls, moved>> PROVE Paired'
<1>1. calls' = calls /\ moved' = moved
  OBVIOUS
<1>2. CASE LessToSpend
  <2>1. LessToSpend'
    BY <1>1, <1>2 DEF LessToSpend
  <2> QED
    BY <2>1 DEF Paired
<1>3. CASE CopyFirst
  <2>1. CopyFirst'
    BY <1>1, <1>3 DEF CopyFirst
  <2> QED
    BY <2>1 DEF Paired
<1>4. CASE Reordered
  <2>1. Reordered'
    BY <1>1, <1>4 DEF Reordered
  <2> QED
    BY <2>1 DEF Paired
<1>5. CASE Shaped
  <2>1. Shaped'
    BY <1>1, <1>5 DEF Shaped
  <2> QED
    BY <2>1 DEF Paired
<1> QED
  BY <1>2, <1>3, <1>4, <1>5 DEF Paired

LEMMA AnswersInitially == ASSUME RouteInit PROVE AnswersInv
<1>1. Paired
  BY DEF RouteInit, Paired
<1>2. Here = Start
  BY DEF RouteInit, Fresh, Here, Start
<1>3. Reaches(Now, Here)
  BY <1>2, ReachesStart
<1> QED
  BY <1>1, <1>3 DEF RouteInit, Fresh, AnswersInv, HistoryInv, Deciding, Writing

LEMMA AnswersNext == ASSUME AnswersInv, [RouteNext]_routeVars PROVE AnswersInv'
<1>1. CASE UNCHANGED routeVars
  <2>1. Now' = Now /\ Here' = Here
    BY <1>1 DEF routeVars, Now, Here
  <2>2. UNCHANGED <<calls, moved, turn, routing, answers, chosen>>
    BY <1>1 DEF routeVars
  <2>3. Paired'
    BY <2>2, PairedStays DEF AnswersInv
  <2>4. HistoryInv'
    BY <2>1, <2>2 DEF AnswersInv, HistoryInv
  <2> QED
    BY <2>3, <2>4 DEF AnswersInv
<1>2. CASE RouteNext /\ routing \in Deciding
  <2>1. Follows(Now, Here, Here') /\ UNCHANGED <<calls, moved, turn, answers>>
    BY <1>2, DecidingFollows
  <2>2. Now' = Now
    BY <2>1 DEF Now
  <2>3. Reaches(Now, Here')
    BY <1>2, <2>1, ReachesNext DEF AnswersInv, HistoryInv
  <2>4. Here'.routing = routing' /\ Here'.chosen = chosen'
    BY DEF Here
  <2>5. routing' \in Deciding \cup {"write", "ended"}
    <3>1. routing \in Deciding => Here.routing = routing
      BY DEF Here
    <3> QED
      BY <2>1, <2>4 DEF Follows, LoadStep, PredictStep, PromptStep, UpgradeStep, UpgradedStep,
         RouteStep, DoubleStep, BisectStep, HalveStep, HalvedStep, SettleStep, Deciding
  <2>6. routing' \in Writing => Answer(Now, chosen')
    <3> SUFFICES ASSUME routing' \in Writing PROVE Answer(Now, chosen')
      OBVIOUS
    <3>1. Here'.routing \in Concluded
      BY <2>4, <2>5 DEF Writing, Concluded, Deciding
    <3> QED
      BY <2>3, <2>4, <3>1 DEF Answer
  <2>7. routing # "done" /\ routing' # "done"
    BY <1>2, <2>5 DEF Deciding
  <2>8. Paired'
    BY <2>1, PairedStays DEF AnswersInv
  <2>9. HistoryInv'
    BY <2>1, <2>2, <2>3, <2>5, <2>6, <2>7 DEF AnswersInv, HistoryInv, Writing
  <2> QED
    BY <2>8, <2>9 DEF AnswersInv
<1>3. CASE RouteNext /\ routing \in Writing /\ ~NextCall
  <2>1. routing' \in Writing /\ UNCHANGED <<calls, moved, turn, answers, chosen>>
    BY <1>3, WritingKeeps
  <2>2. Now' = Now
    BY <2>1 DEF Now
  <2>3. Paired'
    BY <2>1, PairedStays DEF AnswersInv
  <2>4. routing # "done" /\ routing' # "done" /\ routing' \notin Deciding
    BY <1>3, <2>1 DEF Writing, Deciding
  <2>5. HistoryInv'
    BY <1>3, <2>1, <2>2, <2>4 DEF AnswersInv, HistoryInv
  <2> QED
    BY <2>3, <2>5 DEF AnswersInv
<1>4. CASE NextCall
  <2>1. /\ routing = "ended" /\ answers' = Append(answers, chosen)
        /\ UNCHANGED <<calls, moved>>
        /\ chosen' = <<>> /\ locked' = <<>> /\ low' = 0 /\ high' = 0 /\ left' = 0
        /\ \/ turn = 1 /\ turn' = 2 /\ routing' = "load"
           \/ turn # 1 /\ turn' = turn /\ routing' = "done"
    BY <1>4 DEF NextCall
  <2>2. Answer(Now, chosen)
    BY <2>1 DEF AnswersInv, HistoryInv, Writing
  <2>3. Paired'
    BY <2>1, PairedStays DEF AnswersInv
  <2>4. CASE turn = 1
    <3>1. answers' = <<chosen>> /\ Now = calls[1]
      BY <2>1, <2>4 DEF AnswersInv, HistoryInv, Now
    <3>2. Here' = Start
      BY <2>1, <2>4 DEF Here, Start
    <3>3. Reaches(Now', Here')
      BY <3>2, ReachesStart
    <3>4. \E a : answers' = <<a>> /\ Answer(calls'[1], a)
      BY <2>1, <2>2, <3>1
    <3>5. HistoryInv'
      BY <2>1, <2>4, <3>3, <3>4 DEF HistoryInv, Deciding, Writing
    <3> QED
      BY <2>3, <3>5 DEF AnswersInv
  <2>5. CASE turn # 1
    <3>1. turn = 2 /\ Now = calls[2]
      BY <2>5 DEF AnswersInv, HistoryInv, Now
    <3>2. PICK a : answers = <<a>> /\ Answer(calls[1], a)
      BY <2>1, <3>1 DEF AnswersInv, HistoryInv
    <3>3. answers'[1] = a /\ answers'[2] = chosen
      BY <2>1, <3>2, AppendSecond
    <3>4. Answer(calls'[1], answers'[1]) /\ Answer(calls'[2], answers'[2])
      BY <2>1, <2>2, <3>1, <3>2, <3>3
    <3>5. HistoryInv'
      BY <2>1, <2>5, <3>1, <3>4 DEF HistoryInv, Deciding, Writing
    <3> QED
      BY <2>3, <3>5 DEF AnswersInv
  <2> QED
    BY <2>4, <2>5
<1>5. CASE RouteNext /\ routing = "done"
  BY <1>5 DEF RouteNext, Load, Predict, SelectByPrompt, UpgradeGroup, UpgradesDone, Route,
     Double, Bisect, Halve, Halved, Settle, Return, OpenTemporary, FillTemporary, Replace,
     WritingFails, Killed, NextCall
<1> QED
  BY <1>1, <1>2, <1>3, <1>4, <1>5 DEF AnswersInv, HistoryInv

LEMMA AnswersInvariant == RouteSpec => []AnswersInv
<1>1. RouteInit => AnswersInv
  BY AnswersInitially
<1>2. AnswersInv /\ [RouteNext]_routeVars => AnswersInv'
  BY AnswersNext
<1> QED
  BY <1>1, <1>2, PTL DEF RouteSpec

-----------------------------------------------------------------------------
(* Two calls on the same episodes in another order go on alike. *)

Searches == {"team", "hash", "copy", "calibrate"}

Alike(c, f, s, t) ==
  /\ t.routing = s.routing /\ t.low = s.low /\ t.high = s.high /\ t.left = s.left
  /\ s.low \in Int /\ s.high \in Int /\ s.left \in Int
  /\ LockRearranged(c, f, s.locked, t.locked) /\ LockRearranged(c, f, s.chosen, t.chosen)
  /\ s.routing \in Deciding \ {"load", "predict"} => Rearranged(c, f, s.chosen, t.chosen)
  /\ s.routing \in {"route", "double", "halve", "settle"} => c.rule \in Searches

LEMMA RearrangedLock ==
  ASSUME NEW c, NEW d, NEW f, Twin(c, d, f), NEW x, NEW y, Rearranged(c, f, x, y)
  PROVE  LockRearranged(c, f, x, y)
<1>1. Typed(c) /\ x \in Selection(c) /\ y \in Selection(c)
  BY DEF Twin, Rearranged
<1>2. x # <<>> /\ y # <<>>
  BY <1>1, NotEmpty
<1> QED
  BY <1>2 DEF LockRearranged

LEMMA TwinAccepts ==
  ASSUME NEW c, NEW d, NEW f, Twin(c, d, f)
  PROVE  Accepts(d) = Accepts(c) /\ Fits(d) = Fits(c) /\ Steps(d) = Steps(c)
<1>1. d.rule = c.rule /\ d.artifact = c.artifact
  BY DEF Twin
<1>2. ExpectedWidth(d) = ExpectedWidth(c) /\ FeatureWidth(d) = FeatureWidth(c)
  BY <1>1 DEF ExpectedWidth, FeatureWidth, RawWidth
<1>3. Steps(d) = Steps(c)
  BY <1>1 DEF Steps
<1> QED
  BY <1>1, <1>2, <1>3 DEF Accepts, Fits

LEMMA TwinBreaks ==
  ASSUME NEW c, NEW d, NEW f, Twin(c, d, f), NEW s, NEW t, Alike(c, f, s, t),
         c.rule \in Searches, NEW p \in Int
  PROVE  /\ Breaks(d, t, p) = Breaks(c, s, p)
         /\ Rearranged(c, f, Choose(c, s.locked, p), Choose(d, t.locked, p))
<1>1. LockRearranged(c, f, s.locked, t.locked)
  BY DEF Alike
<1>2. Rearranged(c, f, Choose(c, s.locked, p), Choose(d, t.locked, p))
  BY <1>1, TwinChoose
<1>3. Violates(d, t.locked, Choose(d, t.locked, p)) = Violates(c, s.locked, Choose(c, s.locked, p))
  BY <1>1, <1>2, TwinViolates DEF Searches
<1> QED
  BY <1>2, <1>3 DEF Breaks

LEMMA AlikeBegins ==
  ASSUME NEW c, NEW d, NEW f, Twin(c, d, f), NEW s, NEW t, Alike(c, f, s, t),
         NEW u, NEW v, Follows(c, s, u), Follows(d, t, v),
         s.routing \in {"load", "predict", "prompt", "feature"}
  PROVE  Alike(c, f, u, v)
<1>1. t.routing = s.routing /\ d.rule = c.rule /\ d.tier = c.tier
  BY DEF Alike, Twin
<1>2. Accepts(d) = Accepts(c) /\ Fits(d) = Fits(c)
  BY TwinAccepts
<1>3. CASE s.routing = "load"
  <2>1. LoadStep(c, s, u) /\ LoadStep(d, t, v)
    BY <1>1, <1>3 DEF Follows, LoadStep, PredictStep, PromptStep, UpgradeStep, UpgradedStep,
       RouteStep, DoubleStep, BisectStep, HalveStep, HalvedStep, SettleStep
  <2> QED
    BY <1>2, <2>1 DEF LoadStep, SameBounds, Alike, Deciding
<1>4. CASE s.routing = "predict"
  <2>1. PredictStep(c, s, u) /\ PredictStep(d, t, v)
    BY <1>1, <1>4 DEF Follows, LoadStep, PredictStep, PromptStep, UpgradeStep, UpgradedStep,
       RouteStep, DoubleStep, BisectStep, HalveStep, HalvedStep, SettleStep
  <2>2. Rearranged(c, f, u.chosen, v.chosen)
    BY <2>1, TwinLight DEF PredictStep
  <2>3. LockRearranged(c, f, u.chosen, v.chosen)
    BY <2>2, RearrangedLock
  <2>4. v.routing = u.routing /\ (u.routing = "route" => c.rule \in Searches)
    <3>1. c.rule \in {"team", "hash", "prompt", "feature", "copy", "calibrate"}
      BY DEF Twin, Typed
    <3> QED
      BY <1>1, <1>2, <2>1, <3>1 DEF PredictStep, Searches
  <2>5. u.routing \notin {"double", "halve", "settle"}
    BY <2>1 DEF PredictStep
  <2>6. MaxPriority \in Int
    BY NumbersAssumption DEF NumbersAssumption
  <2> QED
    BY <2>1, <2>2, <2>3, <2>4, <2>5, <2>6 DEF PredictStep, SameBounds, Alike
<1>5. CASE s.routing = "prompt"
  <2>1. PromptStep(c, s, u) /\ PromptStep(d, t, v)
    BY <1>1, <1>5 DEF Follows, LoadStep, PredictStep, PromptStep, UpgradeStep, UpgradedStep,
       RouteStep, DoubleStep, BisectStep, HalveStep, HalvedStep, SettleStep
  <2>2. Rearranged(c, f, u.chosen, v.chosen)
    BY <2>1, TwinSelected DEF PromptStep
  <2>3. LockRearranged(c, f, u.chosen, v.chosen)
    BY <2>2, RearrangedLock
  <2> QED
    BY <2>1, <2>2, <2>3 DEF PromptStep, SameBounds, Alike
<1>6. CASE s.routing = "feature"
  <2>1. /\ UpgradeStep(c, s, u) \/ UpgradedStep(c, s, u)
        /\ UpgradeStep(d, t, v) \/ UpgradedStep(d, t, v)
    BY <1>1, <1>6 DEF Follows, LoadStep, PredictStep, PromptStep, UpgradeStep, UpgradedStep,
       RouteStep, DoubleStep, BisectStep, HalveStep, HalvedStep, SettleStep
  <2>2. t.left = s.left /\ s.left \in Int /\ Rearranged(c, f, s.chosen, t.chosen)
    BY <1>6 DEF Alike, Deciding
  <2>5. MinimumPriority(c.tier) \in Int
    BY DEF Twin, Typed, Tier, MinimumPriority
  <2>3. CASE s.left >= MinimumPriority(c.tier)
    <3>1. UpgradeStep(c, s, u)
      BY <2>1, <2>2, <2>3, <2>5 DEF UpgradedStep
    <3>2. UpgradeStep(d, t, v)
      BY <1>1, <2>1, <2>2, <2>3, <2>5 DEF UpgradedStep
    <3>3. Rearranged(c, f, Lifted(c, s.chosen, s.left), Lifted(d, t.chosen, t.left))
      BY <2>2, TwinLifted
    <3>4. Affordable(d, Lifted(d, t.chosen, t.left)) = Affordable(c, Lifted(c, s.chosen, s.left))
      BY <3>3, TwinAffordable
    <3>5. Rearranged(c, f, u.chosen, v.chosen)
      BY <2>2, <3>1, <3>2, <3>3, <3>4 DEF UpgradeStep
    <3>6. LockRearranged(c, f, u.chosen, v.chosen)
      BY <3>5, RearrangedLock
    <3> QED
      BY <2>2, <3>1, <3>2, <3>5, <3>6 DEF UpgradeStep, SameBounds, Alike
  <2>4. CASE ~(s.left >= MinimumPriority(c.tier))
    <3>1. UpgradedStep(c, s, u)
      BY <2>1, <2>4 DEF UpgradeStep
    <3>2. UpgradedStep(d, t, v)
      BY <1>1, <2>1, <2>2, <2>4 DEF UpgradeStep
    <3> QED
      BY <2>2, <3>1, <3>2 DEF UpgradedStep, SameBounds, Alike
  <2> QED
    BY <2>3, <2>4
<1> QED
  BY <1>3, <1>4, <1>5, <1>6


LEMMA AlikeSearches ==
  ASSUME NEW c, NEW d, NEW f, Twin(c, d, f), NEW s, NEW t, Alike(c, f, s, t),
         NEW u, NEW v, Follows(c, s, u), Follows(d, t, v),
         s.routing \in {"route", "double", "halve", "settle"}
  PROVE  Alike(c, f, u, v)
<1>1. /\ t.routing = s.routing /\ d.rule = c.rule /\ d.tier = c.tier /\ c.rule \in Searches
      /\ t.low = s.low /\ t.high = s.high /\ t.left = s.left
      /\ s.low \in Int /\ s.high \in Int /\ s.left \in Int
      /\ LockRearranged(c, f, s.locked, t.locked) /\ Rearranged(c, f, s.chosen, t.chosen)
  BY DEF Alike, Twin, Deciding
<1>2. \A p \in Int :
        /\ Breaks(d, t, p) = Breaks(c, s, p)
        /\ Rearranged(c, f, Choose(c, s.locked, p), Choose(d, t.locked, p))
  BY <1>1, TwinBreaks
<1>3. \A x, y : Rearranged(c, f, x, y) => LockRearranged(c, f, x, y)
  BY RearrangedLock
<1>4. Violates(d, t.locked, t.chosen) = Violates(c, s.locked, s.chosen)
  BY <1>1, TwinViolates DEF Searches
<1>5. Grain \in Int /\ Steps(c) \in Int
  <2>1. /\ Grain \in Int /\ Halvings \in Int /\ HashHalvings \in Int /\ CopyHalvings \in Int
    BY NumbersAssumption DEF NumbersAssumption
  <2> QED
    BY <1>1, <2>1 DEF Steps, Searches
<1>6. CASE s.routing = "route"
  <2>1. RouteStep(c, s, u) /\ RouteStep(d, t, v)
    BY <1>1, <1>6 DEF Follows, LoadStep, PredictStep, PromptStep, UpgradeStep, UpgradedStep,
       RouteStep, DoubleStep, BisectStep, HalveStep, HalvedStep, SettleStep
  <2>2. /\ Breaks(d, t, 0) = Breaks(c, s, 0)
        /\ Rearranged(c, f, Choose(c, s.locked, 0), Choose(d, t.locked, 0))
        /\ Rearranged(c, f, Choose(c, s.locked, Grain), Choose(d, t.locked, Grain))
    BY <1>2, <1>5
  <2>3. Rearranged(c, f, u.chosen, v.chosen)
    BY <2>1, <2>2 DEF RouteStep
  <2> QED
    BY <1>1, <1>3, <1>5, <2>1, <2>2, <2>3 DEF RouteStep, SameBounds, Alike
<1>7. CASE s.routing = "double"
  <2>1. /\ DoubleStep(c, s, u) \/ BisectStep(c, s, u)
        /\ DoubleStep(d, t, v) \/ BisectStep(d, t, v)
    BY <1>1, <1>7 DEF Follows, LoadStep, PredictStep, PromptStep, UpgradeStep, UpgradedStep,
       RouteStep, DoubleStep, BisectStep, HalveStep, HalvedStep, SettleStep
  <2>0. Ceiling \in Int
    BY NumbersAssumption DEF NumbersAssumption
  <2>2. CASE Violates(c, s.locked, s.chosen) /\ s.high < Ceiling
    <3>1. DoubleStep(c, s, u) /\ DoubleStep(d, t, v)
      BY <1>1, <1>4, <2>0, <2>1, <2>2 DEF BisectStep
    <3>2. 2 * s.high \in Int
      BY <1>1
    <3>3. Rearranged(c, f, Choose(c, s.locked, 2 * s.high), Choose(d, t.locked, 2 * s.high))
      BY <1>2, <3>2
    <3>4. Rearranged(c, f, u.chosen, v.chosen)
      BY <1>1, <3>1, <3>3 DEF DoubleStep
    <3> QED
      BY <1>1, <1>3, <3>1, <3>2, <3>4 DEF DoubleStep, Alike
  <2>3. CASE ~(Violates(c, s.locked, s.chosen) /\ s.high < Ceiling)
    <3>1. BisectStep(c, s, u) /\ BisectStep(d, t, v)
      BY <1>1, <1>4, <2>1, <2>3 DEF DoubleStep
    <3>2. Steps(d) = Steps(c)
      BY TwinAccepts
    <3> QED
      BY <1>1, <1>3, <1>5, <3>1, <3>2 DEF BisectStep, SameBounds, Alike
  <2> QED
    BY <2>2, <2>3
<1>8. CASE s.routing = "halve"
  <2>1. /\ HalveStep(c, s, u) \/ HalvedStep(c, s, u)
        /\ HalveStep(d, t, v) \/ HalvedStep(d, t, v)
    BY <1>1, <1>8 DEF Follows, LoadStep, PredictStep, PromptStep, UpgradeStep, UpgradedStep,
       RouteStep, DoubleStep, BisectStep, HalveStep, HalvedStep, SettleStep
  <2>2. CASE s.left > 0
    <3>1. HalveStep(c, s, u) /\ HalveStep(d, t, v)
      BY <1>1, <2>1, <2>2 DEF HalvedStep
    <3>2. Between(s) \in Int /\ Between(t) = Between(s)
      BY <1>1 DEF Between
    <3>3. /\ Breaks(d, t, Between(s)) = Breaks(c, s, Between(s))
          /\ Rearranged(c, f, Choose(c, s.locked, Between(s)), Choose(d, t.locked, Between(s)))
      BY <1>2, <3>2
    <3>4. Rearranged(c, f, u.chosen, v.chosen)
      BY <1>1, <3>1, <3>2, <3>3 DEF HalveStep
    <3>5. /\ v.routing = u.routing /\ u.routing = "halve" /\ u.low = v.low /\ u.high = v.high
          /\ u.low \in Int /\ u.high \in Int
          /\ u.left = v.left /\ u.left \in Int
          /\ u.locked = s.locked /\ v.locked = t.locked
      BY <1>1, <3>1, <3>2, <3>3 DEF HalveStep
    <3> QED
      BY <1>1, <1>3, <3>4, <3>5 DEF Alike
  <2>3. CASE ~(s.left > 0)
    <3>1. HalvedStep(c, s, u) /\ HalvedStep(d, t, v)
      BY <1>1, <2>1, <2>3 DEF HalveStep
    <3> QED
      BY <1>1, <1>3, <3>1 DEF HalvedStep, SameBounds, Alike
  <2> QED
    BY <2>2, <2>3
<1>9. CASE s.routing = "settle"
  <2>1. SettleStep(c, s, u) /\ SettleStep(d, t, v)
    BY <1>1, <1>9 DEF Follows, LoadStep, PredictStep, PromptStep, UpgradeStep, UpgradedStep,
       RouteStep, DoubleStep, BisectStep, HalveStep, HalvedStep, SettleStep
  <2>2. s.locked = <<>> <=> t.locked = <<>>
    BY <1>1 DEF LockRearranged
  <2>3. Rearranged(c, f, Fallback(c, s.locked), Fallback(d, t.locked))
    BY <1>1, TwinLight DEF LockRearranged, Fallback
  <2>4. Rearranged(c, f, u.chosen, v.chosen)
    BY <1>1, <1>4, <2>1, <2>3 DEF SettleStep
  <2>5. LockRearranged(c, f, u.chosen, v.chosen)
    BY <1>3, <2>4
  <2>6. /\ u.routing = v.routing /\ u.routing \in {"route", "write"}
        /\ LockRearranged(c, f, u.locked, v.locked)
    BY <1>1, <2>1, <2>2, <2>5 DEF SettleStep
  <2> QED
    BY <1>1, <2>1, <2>4, <2>5, <2>6 DEF SettleStep, SameBounds, Alike
<1> QED
  BY <1>6, <1>7, <1>8, <1>9

LEMMA AlikeStep ==
  ASSUME NEW c, NEW d, NEW f, Twin(c, d, f), NEW s, NEW t, Alike(c, f, s, t),
         NEW u, NEW v, Follows(c, s, u), Follows(d, t, v)
  PROVE  Alike(c, f, u, v)
<1>1. s.routing \in Deciding
  BY DecidedStays
<1> QED
  BY <1>1, AlikeBegins, AlikeSearches DEF Deciding

\* Two twins have twin answers.
LEMMA TwinAnswers ==
  ASSUME NEW c, NEW d, NEW f, Twin(c, d, f), NEW a, NEW b, Answer(c, a), Answer(d, b)
  PROVE  LockRearranged(c, f, a, b)
<1>1. PICK s, t : /\ Reaches(c, s) /\ s.routing \in Concluded /\ s.chosen = a
                  /\ Reaches(d, t) /\ t.routing \in Concluded /\ t.chosen = b
  BY DEF Answer
<1>2. PICK n, h : History(c, h, n) /\ h[n] = s
  BY <1>1 DEF Reaches
<1>3. PICK m, g : History(d, g, m) /\ g[m] = t
  BY <1>1 DEF Reaches
<1>4. /\ n \in Nat \ {0} /\ h[1] = Start
      /\ \A k \in 1..(n - 1) : Follows(c, h[k], h[k + 1])
  BY <1>2 DEF History
<1>5. /\ m \in Nat \ {0} /\ g[1] = Start
      /\ \A k \in 1..(m - 1) : Follows(d, g[k], g[k + 1])
  BY <1>3 DEF History
<1> DEFINE T == {k \in Nat : k \in 1..n /\ k \in 1..m /\ ~ Alike(c, f, h[k], g[k])}
<1>6. ASSUME T # {} PROVE FALSE
  <2>1. PICK k \in T : \A y \in T : k <= y
    BY <1>6, LeastMember
  <2>2. Alike(c, f, Start, Start)
    BY DEF Alike, Start, LockRearranged, Deciding
  <2>3. k # 1
    BY <1>4, <1>5, <2>1, <2>2
  <2>4. k - 1 \in 1..(n - 1) /\ k - 1 \in 1..(m - 1) /\ (k - 1) + 1 = k
    BY <1>4, <1>5, <2>1, <2>3
  <2>5. Alike(c, f, h[k - 1], g[k - 1])
    <3>1. k - 1 \in Nat /\ k - 1 \in 1..n /\ k - 1 \in 1..m /\ ~ (k <= k - 1)
      BY <1>4, <1>5, <2>1, <2>4
    <3>2. k - 1 \notin T
      BY <2>1, <3>1
    <3> QED
      BY <3>1, <3>2
  <2>6. Follows(c, h[k - 1], h[k]) /\ Follows(d, g[k - 1], g[k])
    BY <1>4, <1>5, <2>4
  <2>7. Alike(c, f, h[k], g[k])
    BY <2>5, <2>6, AlikeStep
  <2> QED
    BY <2>1, <2>7
<1>7. \A k \in 1..n : k \in 1..m => Alike(c, f, h[k], g[k])
  BY <1>4, <1>6
<1>8. CASE n < m
  <2>1. n \in 1..n /\ n \in 1..m /\ n \in 1..(m - 1)
    BY <1>4, <1>5, <1>8
  <2>2. g[n].routing \in Deciding
    BY <1>5, <2>1, DecidedStays
  <2>3. g[n].routing = s.routing
    BY <1>2, <1>7, <2>1 DEF Alike
  <2> QED
    BY <1>1, <2>2, <2>3 DEF Deciding, Concluded
<1>9. CASE m < n
  <2>1. m \in 1..n /\ m \in 1..m /\ m \in 1..(n - 1)
    BY <1>4, <1>5, <1>9
  <2>2. h[m].routing \in Deciding
    BY <1>4, <2>1, DecidedStays
  <2>3. h[m].routing = t.routing
    BY <1>3, <1>7, <2>1 DEF Alike
  <2> QED
    BY <1>1, <2>2, <2>3 DEF Deciding, Concluded
<1>10. CASE n = m
  <2>1. n \in 1..n /\ n \in 1..m
    BY <1>4, <1>10
  <2>2. Alike(c, f, s, t)
    BY <1>2, <1>3, <1>7, <1>10, <2>1
  <2> QED
    BY <1>1, <2>2 DEF Alike
<1> QED
  BY <1>4, <1>5, <1>8, <1>9, <1>10

-----------------------------------------------------------------------------
(* The pairs of calls are typed, and the reordered ones are twins. *)

AnyBins == CHOOSE b \in Bins : TRUE

\* The artifact a rule is shipped with.
Unmade == [bins |-> AnyBins, same |-> TRUE, width |-> [v \in Vectors |-> 0]]

Made(r) ==
  [Unmade EXCEPT !.width =
     [v \in Vectors |-> FeatureWidth([rule |-> r, artifact |-> [bins |-> AnyBins]])]]

LEMMA PlainIs ==
  ASSUME NEW r, NEW t, NEW b, NEW w
  PROVE  LET p == Plain(r, t, b, w)
         IN  /\ p.rule = r /\ p.tier = t /\ p.rows = b /\ p.safety = w.safety
             /\ p.risk = w.risk /\ p.highCap = w.highCap /\ p.share = w.share
             /\ p.artifact = Made(r)
<1> DEFINE blank == [rule |-> r, tier |-> t, rows |-> b,
                     safety |-> w.safety, risk |-> w.risk, highCap |-> w.highCap,
                     share |-> w.share, artifact |-> Unmade]
           wide  == [v \in Vectors |-> FeatureWidth(blank)]
           short == [rule |-> r, artifact |-> [bins |-> AnyBins]]
<1>1. Plain(r, t, b, w) = [blank EXCEPT !.artifact.width = wide]
  BY DEF Plain, AnyBins, Unmade
<1>2. FeatureWidth(blank) = FeatureWidth(short)
  BY DEF FeatureWidth, RawWidth, Unmade
<1>3. wide = [v \in Vectors |-> FeatureWidth(short)]
  BY <1>2
<1>4. [Unmade EXCEPT !.width = wide] = Made(r)
  BY <1>3 DEF Made
<1> HIDE DEF wide
<1>5. [blank EXCEPT !.artifact.width = wide].artifact = [Unmade EXCEPT !.width = wide]
  OBVIOUS
<1> QED
  BY <1>1, <1>4, <1>5

\* The same call with less to spend.
LEMMA PlainLess ==
  ASSUME NEW r, NEW t, NEW b, NEW w, NEW s
  PROVE  LET p == Plain(r, t, b, w)
             q == [p EXCEPT !.safety = s]
         IN  /\ q.safety = s
             /\ q.rule = p.rule /\ q.tier = p.tier /\ q.rows = p.rows /\ q.risk = p.risk
             /\ q.highCap = p.highCap /\ q.share = p.share /\ q.artifact = p.artifact
<1> DEFINE blank == [rule |-> r, tier |-> t, rows |-> b,
                     safety |-> w.safety, risk |-> w.risk, highCap |-> w.highCap,
                     share |-> w.share, artifact |-> Unmade]
           wide  == [v \in Vectors |-> FeatureWidth(blank)]
           p     == Plain(r, t, b, w)
<1>1. p = [blank EXCEPT !.artifact.width = wide]
  BY DEF Plain, AnyBins, Unmade
<1> HIDE DEF wide, p
<1>2. "safety" \in DOMAIN p
  BY <1>1
<1>3. [p EXCEPT !.safety = s].safety = s
  BY <1>2
<1>4. \A k \in {"rule", "tier", "rows", "risk", "highCap", "share", "artifact"} :
        k \in DOMAIN p
  BY <1>1
<1>5. \A k \in DOMAIN p : k # "safety" => [p EXCEPT !.safety = s][k] = p[k]
  OBVIOUS
<1> QED
  BY <1>3, <1>4, <1>5 DEF p

Rules == {"team", "hash", "prompt", "feature", "copy", "calibrate"}

LEMMA PlainTyped ==
  ASSUME NEW r \in Rules, NEW t \in Tier, NEW b \in Seq(Predicted), b # <<>>, NEW w \in Weighing
  PROVE  Typed(Plain(r, t, b, w))
<1>1. /\ w.safety \in Nat /\ w.highCap \in Nat /\ w.share \in Int
      /\ w.risk \in [ModelId -> Nat]
  BY BatchesAssumption DEF BatchesAssumption
<1> QED
  BY <1>1, PlainIs DEF Typed, Rules

LEMMA InOrderKeeps ==
  ASSUME NEW S, NEW b \in Seq(S)
  PROVE  InOrder(b) \in Orders(b) /\ Permuted(b, InOrder(b)) = b
<1>1. Len(b) \in Nat /\ b = [i \in 1..Len(b) |-> b[i]]
  OBVIOUS
<1>2. InOrder(b) \in Orders(b)
  BY DEF InOrder, Orders
<1>3. \A i \in 1..Len(b) : InOrder(b)[i] = i
  BY DEF InOrder
<1>4. Permuted(b, InOrder(b)) = [i \in 1..Len(b) |-> b[i]]
  BY <1>3 DEF Permuted
<1> QED
  BY <1>1, <1>2, <1>4

LEMMA PermutedTyped ==
  ASSUME NEW S, NEW b \in Seq(S), b # <<>>, NEW f \in Orders(b)
  PROVE  Permuted(b, f) \in Seq(S) /\ Permuted(b, f) # <<>>
<1>1. Len(b) \in Nat /\ Len(b) # 0
  OBVIOUS
<1> DEFINE n == Len(b)
           q == [i \in 1..n |-> b[f[i]]]
<1>2. \A i \in 1..n : f[i] \in 1..n
  BY DEF Orders
<1>3. \A i \in 1..n : b[f[i]] \in S
  BY <1>2
<1>4. Permuted(b, f) = q
  BY DEF Permuted
<1> HIDE DEF n
<1>5. n \in Nat /\ n # 0
  BY <1>1 DEF n
<1>6. q \in Seq(S) /\ Len(q) = n
  BY <1>3, <1>5
<1>7. q # <<>>
  BY <1>5, <1>6
<1> QED
  BY <1>4, <1>6, <1>7

\* Two calls whose episodes agree but for their order are twins.
LEMMA PairsAreTwins ==
  ASSUME Paired, calls[2].rows = Permuted(calls[1].rows, moved),
         calls[2].safety = calls[1].safety, calls[2].rule = calls[1].rule
  PROVE  Twin(calls[1], calls[2], moved)
<1>1. CASE LessToSpend
  <2>1. PICK r \in {"team", "copy"}, t \in Tier, b \in Batch, w \in Weighing, s \in Less :
          /\ s < w.safety
          /\ calls = <<Plain(r, t, b, w), [Plain(r, t, b, w) EXCEPT !.safety = s]>>
    BY <1>1 DEF LessToSpend
  <2>2. Plain(r, t, b, w).safety = w.safety
    BY PlainIs
  <2>3. calls[1].safety = w.safety
    BY <2>1, <2>2
  <2>4. calls[2].safety = s
    <3>1. calls[2] = [Plain(r, t, b, w) EXCEPT !.safety = s]
      BY <2>1
    <3>2. [Plain(r, t, b, w) EXCEPT !.safety = s].safety = s
      BY PlainLess
    <3> QED
      BY <3>1, <3>2
  <2>5. s \in Nat /\ w.safety \in Nat
    BY BatchesAssumption DEF BatchesAssumption
  <2> QED
    BY <2>1, <2>3, <2>4, <2>5
<1>2. CASE CopyFirst
  <2>1. PICK r \in {"copy", "calibrate"}, t \in Tier, b \in Batch, w \in Weighing :
          calls = <<Plain(r, t, b, w), Plain("team", t, b, w)>>
    BY <1>2 DEF CopyFirst
  <2>2. calls[1].rule = r /\ calls[2].rule = "team"
    BY <2>1, PlainIs
  <2> QED
    BY <2>2
<1>3. CASE Reordered
  <2>1. PICK r \in {"team", "hash", "prompt", "feature"}, t \in Tier, b \in Batch,
             w \in Weighing :
          \E f \in Orders(b) :
            /\ calls = <<Plain(r, t, b, w), Plain(r, t, Permuted(b, f), w)>>
            /\ moved = f
    BY <1>3 DEF Reordered
  <2>0. PICK f \in Orders(b) : /\ calls = <<Plain(r, t, b, w), Plain(r, t, Permuted(b, f), w)>>
                              /\ moved = f
    BY <2>1
  <2>2. b \in Seq(Predicted) /\ b # <<>>
    BY BatchesAssumption DEF BatchesAssumption
  <2>3. Permuted(b, f) \in Seq(Predicted) /\ Permuted(b, f) # <<>>
    BY <2>2, PermutedTyped
  <2>4. Typed(Plain(r, t, b, w)) /\ Typed(Plain(r, t, Permuted(b, f), w))
    BY <2>2, <2>3, PlainTyped DEF Rules
  <2>5. calls[1] = Plain(r, t, b, w) /\ calls[2] = Plain(r, t, Permuted(b, f), w)
    BY <2>0
  <2> QED
    BY <2>0, <2>4, <2>5, PlainIs DEF Twin
<1>4. CASE Shaped
  <2>1. PICK r \in {"team", "hash"}, n \in Bins, same \in BOOLEAN, width \in [Vectors -> Widths] :
          /\ calls = <<UnderArtifact(r, n, same, width), UnderArtifact(r, n, same, width)>>
          /\ moved = InOrder(calls[1].rows)
    BY <1>4 DEF Shaped
  <2>2. PICK b \in Batch, w \in Weighing :
          b = (CHOOSE x \in Batch : TRUE) /\ w = (CHOOSE x \in Weighing : TRUE)
    BY BatchesAssumption DEF BatchesAssumption
  <2> DEFINE p == Plain(r, "fast", b, w)
             c == UnderArtifact(r, n, same, width)
  <2>3. c = [p EXCEPT !.artifact = [bins |-> n, same |-> same, width |-> width]]
    BY <2>2 DEF UnderArtifact
  <2> HIDE DEF c
  <2>4. b \in Seq(Predicted) /\ b # <<>>
    BY <2>2, BatchesAssumption DEF BatchesAssumption
  <2>5. Typed(p)
    BY <2>2, <2>4, PlainTyped DEF Rules, Tier
  <2>7. /\ c.rule = p.rule /\ c.tier = p.tier /\ c.rows = p.rows /\ c.safety = p.safety
        /\ c.risk = p.risk /\ c.highCap = p.highCap /\ c.share = p.share
    BY <2>3, PlainIs DEF p
  <2>8. Typed(c)
    BY <2>5, <2>7 DEF Typed
  <2>9. calls[1] = c /\ calls[2] = c /\ moved = InOrder(c.rows)
    BY <2>1 DEF c
  <2>10. c.rows \in Seq(Predicted)
    BY <2>8 DEF Typed
  <2>11. InOrder(c.rows) \in Orders(c.rows) /\ Permuted(c.rows, InOrder(c.rows)) = c.rows
    BY <2>10, InOrderKeeps
  <2> QED
    BY <2>8, <2>9, <2>11 DEF Twin
<1> QED
  BY <1>1, <1>2, <1>3, <1>4 DEF Paired

\* Every router (heuristic, hash_regex, prompt heuristic, feature_budget) gives an
\* episode the same model wherever it stands in the batch.
THEOREM EveryRouterBlind == RouteSpec => []OrderBlind
<1>1. ASSUME AnswersInv PROVE OrderBlind
  <2> SUFFICES ASSUME Answered, calls[2].rows = Permuted(calls[1].rows, moved),
                      calls[2].safety = calls[1].safety, calls[2].rule = calls[1].rule
               PROVE  \A i \in Places(calls[1]) : answers[2][i] = answers[1][moved[i]]
    BY DEF OrderBlind
  <2>1. Twin(calls[1], calls[2], moved)
    BY <1>1, PairsAreTwins DEF AnswersInv
  <2>2. Answer(calls[1], answers[1]) /\ Answer(calls[2], answers[2])
    BY <1>1 DEF AnswersInv, HistoryInv, Answered
  <2>3. LockRearranged(calls[1], moved, answers[1], answers[2])
    BY <2>1, <2>2, TwinAnswers
  <2>4. answers[1] # <<>>
    <3>1. Len(answers[1]) = Len(calls[1].rows)
      BY DEF Answered
    <3>2. Len(calls[1].rows) # 0
      BY <2>1, RowsTyped DEF Twin
    <3> QED
      BY <3>1, <3>2
  <2> QED
    BY <2>3, <2>4 DEF LockRearranged, Rearranged
<1> QED
  BY <1>1, AnswersInvariant, PTL

-----------------------------------------------------------------------------
(* The same episodes with less to spend, or by the router after a copy.       *)

Penalised == {"team", "copy", "calibrate"}

Tighter(c, d) ==
  /\ Typed(c) /\ Typed(d) /\ Ascending(c)
  /\ c.rule \in Penalised /\ d.rule \in Penalised
  /\ d.rows = c.rows /\ d.tier = c.tier /\ d.risk = c.risk
  /\ d.highCap = c.highCap /\ d.share = c.share /\ d.safety <= c.safety
  /\ c.rule = "team" => d.rule = "team" /\ d.artifact = c.artifact
  /\ d.rule = "calibrate" => c.rule = "calibrate"

LEMMA NatTimes == ASSUME NEW x \in Nat, NEW y \in Nat PROVE x * y \in Nat
OBVIOUS

LEMMA TimesUp ==
  ASSUME NEW x \in Nat, NEW y \in Nat, NEW z \in Nat, NEW w \in Nat, x <= z, y <= w
  PROVE  x * y <= z * w
<1>1. (z - x) * w \in Nat /\ x * (w - y) \in Nat
  <2>1. z - x \in Nat /\ w - y \in Nat
    OBVIOUS
  <2> QED
    BY <2>1, NatTimes
<1>2. z * w - x * y = (z - x) * w + x * (w - y)
  OBVIOUS
<1>3. x * y \in Int /\ z * w \in Int
  OBVIOUS
<1> QED
  BY <1>1, <1>2, <1>3

LEMMA TighterRows ==
  ASSUME NEW c, NEW d, Tighter(c, d)
  PROVE  /\ Places(d) = Places(c)
         /\ \A i \in Places(c) : CostOf(d, i) = CostOf(c, i) /\ RankOf(d, i) = RankOf(c, i)
         /\ LightCost(d) = LightCost(c) /\ RankLight(d) = RankLight(c)
         /\ AllLight(d) = AllLight(c)
         /\ \A x : Cost(d, x) = Cost(c, x)
<1>1. Places(d) = Places(c)
  BY DEF Tighter, Places
<1>2. \A i : CostOf(d, i) = CostOf(c, i) /\ RankOf(d, i) = RankOf(c, i)
  BY DEF Tighter, Penalised, CostOf, RankOf
<1> QED
  BY <1>1, <1>2 DEF LightCost, RankLight, AllLight, Cost

\* What counts against a model grows with the model.
Burden(c, i, m) == c.risk[m] * RankOf(c, i)[m] * ScoreUnit

LEMMA BurdenUp ==
  ASSUME NEW c, Typed(c), Ascending(c), NEW i \in Places(c),
         NEW m \in ModelId, NEW k \in ModelId, m <= k
  PROVE  Burden(c, i, m) \in Nat /\ Burden(c, i, k) \in Nat /\ Burden(c, i, m) <= Burden(c, i, k)
<1>1. RankOf(c, i)[m] \in Nat /\ RankOf(c, i)[k] \in Nat /\ RankOf(c, i)[m] <= RankOf(c, i)[k]
  BY RowsTyped DEF Prices
<1>2. c.risk \in [ModelId -> Nat] /\ c.risk[1] <= c.risk[2] /\ c.risk[2] <= c.risk[3]
  BY DEF Typed, Ascending, Light, Mid, High
<1>3. c.risk[1] \in Nat /\ c.risk[2] \in Nat /\ c.risk[3] \in Nat
  BY <1>2 DEF ModelId
<1>4. c.risk[m] \in Nat /\ c.risk[k] \in Nat /\ c.risk[m] <= c.risk[k]
  BY <1>2, <1>3 DEF ModelId
<1>5. ScoreUnit \in Nat
  BY NumbersAssumption DEF NumbersAssumption
<1>6. PICK x \in Nat, y \in Nat, z \in Nat, w \in Nat :
        /\ x = c.risk[m] /\ y = RankOf(c, i)[m] /\ z = c.risk[k] /\ w = RankOf(c, i)[k]
        /\ x <= z /\ y <= w
  BY <1>1, <1>4
<1>7. x * y \in Nat /\ z * w \in Nat /\ x * y <= z * w
  BY <1>6, NatTimes, TimesUp
<1>8. PICK u \in Nat, v \in Nat : u = x * y /\ v = z * w /\ u <= v
  BY <1>7
<1>9. u * ScoreUnit \in Nat /\ v * ScoreUnit \in Nat /\ u * ScoreUnit <= v * ScoreUnit
  BY <1>5, <1>8, NatTimes, TimesUp
<1> QED
  BY <1>6, <1>8, <1>9 DEF Burden

LEMMA ValueIs ==
  ASSUME NEW c, Typed(c), c.rule # "hash", NEW i \in Places(c), NEW light \in Int,
         NEW m \in ModelId
  PROVE  \E g \in Int : \A p \in Int : Values(c, i, p, light)[m] = g - p * Burden(c, i, m)
<1>1. c.rows[i] \in Predicted /\ Prices(RankOf(c, i)) /\ c.risk \in [ModelId -> Nat]
  BY RowsTyped DEF Typed
<1>2. c.rows[i].score[m] \in Int
  BY <1>1 DEF Predicted
<1>3. Grain \in Int /\ Unit \in Int /\ ScoreUnit \in Int
  BY NumbersAssumption DEF NumbersAssumption
<1>4. RankOf(c, i)[m] \in Int /\ c.risk[m] \in Int
  BY <1>1 DEF Prices
<1>5. PICK s \in Int, r \in Int, w \in Int :
        s = c.rows[i].score[m] /\ r = RankOf(c, i)[m] /\ w = c.risk[m]
  BY <1>2, <1>4
<1>6. s * Grain * Unit * light \in Int
  BY <1>3
<1>7. ASSUME NEW p \in Int
      PROVE  Values(c, i, p, light)[m] = s * Grain * Unit * light - p * Burden(c, i, m)
  <2>1. Values(c, i, p, light)[m] = s * Grain * Unit * light - p * w * r * ScoreUnit
    BY <1>5 DEF Values
  <2>2. Burden(c, i, m) = w * r * ScoreUnit
    BY <1>5 DEF Burden
  <2>3. p * w * r * ScoreUnit = p * (w * r * ScoreUnit)
    BY <1>3
  <2> QED
    BY <2>1, <2>2, <2>3
<1> QED
  BY <1>6, <1>7

\* A higher penalty chooses no larger model.
LEMMA ChooseDown ==
  ASSUME NEW c, Typed(c), Ascending(c), c.rule # "hash",
         NEW p \in Int, NEW q \in Int, q <= p, NEW i \in Places(c)
  PROVE  Choose(c, <<>>, p)[i] <= Choose(c, <<>>, q)[i]
<1> DEFINE light == RankLight(c)
           V(r) == Values(c, i, r, light)
           a == Best(V(q))
           b == Best(V(p))
<1>1. light \in Int
  BY RankLightInteger
<1>2. Choose(c, <<>>, q)[i] = a /\ Choose(c, <<>>, p)[i] = b
  BY DEF Choose
<1> HIDE DEF light
<1>3. \A m \in ModelId : V(q)[m] \in Int /\ V(p)[m] \in Int
  BY <1>1, ValuesInteger
<1>4. /\ a \in ModelId /\ \A k \in ModelId : V(q)[a] > V(q)[k] \/ (V(q)[a] = V(q)[k] /\ a <= k)
      /\ b \in ModelId /\ \A k \in ModelId : V(p)[b] > V(p)[k] \/ (V(p)[b] = V(p)[k] /\ b <= k)
  BY <1>3, BestIs
<1> HIDE DEF a, b
<1>5. ASSUME ~(b <= a) PROVE FALSE
  <2>1. a \in Int /\ b \in Int /\ a <= b /\ ~(b <= a)
    BY <1>4, <1>5 DEF ModelId
  <2>2. PICK g \in Int : \A r \in Int : V(r)[a] = g - r * Burden(c, i, a)
    BY <1>1, <1>4, ValueIs
  <2>3. PICK h \in Int : \A r \in Int : V(r)[b] = h - r * Burden(c, i, b)
    BY <1>1, <1>4, ValueIs
  <2>4. PICK x \in Nat, y \in Nat : x = Burden(c, i, a) /\ y = Burden(c, i, b) /\ x <= y
    BY <1>4, <2>1, BurdenUp
  <2>5. V(q)[a] >= V(q)[b] /\ V(p)[b] > V(p)[a]
    BY <1>3, <1>4, <2>1
  <2>6. g - q * x >= h - q * y /\ h - p * y > g - p * x
    BY <2>2, <2>3, <2>4, <2>5
  <2>7. p - q \in Nat /\ y - x \in Nat
    BY <2>4
  <2>8. (p - q) * (y - x) \in Nat
    BY <2>7, NatTimes
  <2>9. (p - q) * (y - x) = p * y - p * x - q * y + q * x
    BY <2>4
  <2>10. p * y \in Int /\ p * x \in Int /\ q * y \in Int /\ q * x \in Int
    BY <2>4
  <2> QED
    BY <2>6, <2>8, <2>9, <2>10
<1>6. a \in Int /\ b \in Int
  BY <1>4 DEF ModelId
<1> QED
  BY <1>2, <1>5, <1>6

LEMMA TighterChooses ==
  ASSUME NEW c, NEW d, Tighter(c, d), NEW p
  PROVE  Choose(d, <<>>, p) = Choose(c, <<>>, p)
<1>1. /\ Places(d) = Places(c) /\ RankLight(d) = RankLight(c)
      /\ \A i \in Places(c) : RankOf(d, i) = RankOf(c, i)
  BY TighterRows
<1>2. d.rows = c.rows /\ d.risk = c.risk /\ c.rule # "hash" /\ d.rule # "hash"
  BY DEF Tighter, Penalised
<1>3. \A i \in Places(c) : Values(d, i, p, RankLight(d)) = Values(c, i, p, RankLight(c))
  BY <1>1, <1>2 DEF Values
<1> QED
  BY <1>1, <1>3 DEF Choose

LEMMA TighterCap ==
  ASSUME NEW c, NEW d, Tighter(c, d)
  PROVE  Cap(d) \in Int /\ Cap(c) \in Int /\ Cap(d) <= Cap(c)
<1>1. LightCost(c) \in Nat /\ LightCost(d) = LightCost(c)
  BY TighterRows, RankLightInteger DEF Tighter
<1>2. /\ c.safety \in Nat /\ d.safety \in Nat /\ d.safety <= c.safety
      /\ d.tier = c.tier /\ c.tier \in Tier
  BY DEF Tighter, Typed
<1>3. Unit \in Nat /\ Budget[c.tier] \in Nat /\ Unit <= Budget[c.tier]
  BY <1>2, NumbersAssumption DEF NumbersAssumption
<1>4. PICK e \in Nat : e = Budget[c.tier] - Unit
  BY <1>3
<1>5. PICK x \in Nat, y \in Nat : x = e * d.safety /\ y = e * c.safety /\ x <= y
  BY <1>2, NatTimes, TimesUp
<1>6. PICK u \in Nat : u = Unit * Unit
  BY <1>3, NatTimes
<1>7. Cap(d) = LightCost(c) * (u + x) /\ Cap(c) = LightCost(c) * (u + y)
  BY <1>1, <1>2, <1>4, <1>5, <1>6 DEF Cap
<1>8. /\ LightCost(c) * (u + x) \in Nat /\ LightCost(c) * (u + y) \in Nat
      /\ LightCost(c) * (u + x) <= LightCost(c) * (u + y)
  <2>1. u + x \in Nat /\ u + y \in Nat /\ u + x <= u + y
    BY <1>5, <1>6
  <2> QED
    BY <1>1, <2>1, NatTimes, TimesUp
<1> QED
  BY <1>7, <1>8

\* What breaks a limit breaks it with less to spend, and a limit of a copy is one
\* of the router.
LEMMA TighterViolates ==
  ASSUME NEW c, NEW d, Tighter(c, d), NEW x \in Selection(c), Violates(c, <<>>, x)
  PROVE  Violates(d, <<>>, x)
<1>1. /\ c.rule \in Penalised /\ d.rule \in Penalised
      /\ d.rule = "calibrate" => c.rule = "calibrate"
      /\ d.highCap = c.highCap /\ c.highCap \in Nat /\ d.share = c.share /\ d.tier = c.tier
      /\ Typed(c)
  BY DEF Tighter, Typed
<1>2. Cap(d) \in Int /\ Cap(c) \in Int /\ Cap(d) <= Cap(c)
  BY TighterCap
<1>3. /\ Places(d) = Places(c) /\ LightCost(d) = LightCost(c) /\ Cost(d, x) = Cost(c, x)
      /\ \A i \in Places(c) : CostOf(d, i) = CostOf(c, i)
  BY TighterRows
<1>4. Unit \in Int
  BY NumbersAssumption DEF NumbersAssumption
<1>5. OverCap(c, x) => OverCap(d, x)
  <2>1. Cost(c, x) \in Int
    <3>1. \A i \in Places(c) : \A m \in ModelId : CostOf(c, i)[m] \in Int
      BY <1>1, RowsTyped DEF Prices
    <3>2. [i \in Places(c) |-> CostOf(c, i)[x[i]]] \in [Places(c) -> Int]
      BY <3>1 DEF Selection
    <3> QED
      BY <1>1, <3>2, BatchSum DEF Cost
  <2>2. Cost(c, x) * Unit * Unit \in Int
    BY <1>4, <2>1
  <2> QED
    BY <1>2, <1>3, <2>2 DEF OverCap
<1>6. HighTotal(d, x) = HighTotal(c, x) /\ ShareTotal(d, x) = ShareTotal(c, x)
  BY <1>3 DEF HighTotal, HighPart, ShareTotal, SharePart
<1>7. OverHighCap(c, x) => OverHighCap(d, x)
  <2>1. HighTotal(c, x) \in Int
    <3>1. [i \in Places(c) |-> HighPart(c, x, i)] \in [Places(c) -> Int]
      BY <1>1, PartsTyped
    <3> QED
      BY <1>1, <3>1, BatchSum DEF HighTotal
  <2>2. HighTotal(c, x) * Unit * Unit * Unit \in Int
    BY <1>4, <2>1
  <2>3. /\ Cap(d) * c.highCap \in Int /\ Cap(c) * c.highCap \in Int
        /\ Cap(d) * c.highCap <= Cap(c) * c.highCap
    <3>1. Cap(c) - Cap(d) \in Nat
      BY <1>2
    <3>2. (Cap(c) - Cap(d)) * c.highCap \in Nat
      BY <1>1, <3>1, NatTimes
    <3>3. (Cap(c) - Cap(d)) * c.highCap = Cap(c) * c.highCap - Cap(d) * c.highCap
      BY <1>1, <1>2
    <3>4. Cap(d) * c.highCap \in Int /\ Cap(c) * c.highCap \in Int
      BY <1>1, <1>2
    <3> QED
      BY <3>2, <3>3, <3>4
  <2>4. PICK a \in Int, y \in Int, z \in Int :
          /\ a = HighTotal(c, x) * Unit * Unit * Unit
          /\ y = Cap(d) * c.highCap /\ z = Cap(c) * c.highCap /\ y <= z
    BY <2>2, <2>3
  <2>5. OverHighCap(c, x) => a > z
    BY <2>4, LimitsOfTotals
  <2>6. a > y => OverHighCap(d, x)
    BY <1>1, <1>6, <2>4, LimitsOfTotals
  <2> QED
    BY <2>4, <2>5, <2>6
<1>8. OverShare(d, x) = OverShare(c, x)
  BY <1>1, <1>3, <1>6, LimitsOfTotals
<1> QED
  BY <1>1, <1>5, <1>7, <1>8 DEF Violates, Penalised

-----------------------------------------------------------------------------
(* Where the two searches part, the first has a penalty p that is enough, and    *)
(* for the second p is too little.                                               *)

\* Both searches are at the same place.
Level(c, d, s, t) ==
  /\ s.routing \in {"load", "predict", "route", "double", "halve", "settle"}
  /\ t.routing = s.routing /\ t.low = s.low /\ t.high = s.high /\ t.chosen = s.chosen
  /\ s.locked = <<>> /\ t.locked = <<>>
  /\ s.low \in Nat /\ s.high \in Nat /\ s.low <= s.high
  /\ s.routing \in {"load", "predict", "route"} => s.high = 0
  /\ s.routing \in {"load"} => s.chosen = <<>>
  /\ s.routing \in {"double", "halve", "settle"} => s.chosen = Choose(c, <<>>, s.high)
  /\ s.routing = "halve" => s.left \in Int /\ t.left \in Int /\ t.left <= s.left

Searching == {"double", "halve", "settle", "write"}

\* A penalty of at most p meets every limit.
Below(c, s, p) ==
  /\ s.routing \in Searching /\ s.locked = <<>>
  /\ s.low \in Nat /\ s.high \in Nat /\ s.low <= s.high /\ s.high <= p
  /\ ~Violates(c, <<>>, s.chosen)
  /\ \E q \in Int : q <= p /\ s.chosen = Choose(c, <<>>, q)

\* The search goes on above p.
Above(d, t, p) ==
  /\ t.routing \in Searching /\ t.locked = <<>>
  /\ t.low \in Nat /\ t.high \in Nat /\ t.low <= t.high
  /\ t.routing \in {"double", "halve"} => p <= t.low
  /\ \/ t.chosen = AllLight(d)
     \/ \E q \in Int : p <= q /\ t.chosen = Choose(d, <<>>, q)

\* Nothing is answered, or the light model for every episode.
Lightly(d, t) ==
  /\ t.locked = <<>>
  /\ \/ t.routing = "settle" /\ Violates(d, <<>>, t.chosen)
     \/ t.routing = "write" /\ t.chosen = AllLight(d)
     \/ t.routing = "ended" /\ t.chosen \in {<<>>, AllLight(d)}

LEMMA Mean ==
  ASSUME NEW s, s.low \in Nat, s.high \in Nat, s.low <= s.high
  PROVE  Between(s) \in Nat /\ s.low <= Between(s) /\ Between(s) <= s.high
<1>1. PICK x \in Nat, y \in Nat : x = s.low /\ y = s.high /\ x <= y
  OBVIOUS
<1>2. (x + y) \div 2 \in Nat /\ x <= (x + y) \div 2 /\ (x + y) \div 2 <= y
  BY <1>1
<1> QED
  BY <1>1, <1>2 DEF Between

LEMMA BelowStep ==
  ASSUME NEW c, c.rule \in Penalised, NEW s, NEW u, NEW p \in Int, Below(c, s, p),
         Follows(c, s, u)
  PROVE  Below(c, u, p)
<1>1. DoubleStep(c, s, u) \/ BisectStep(c, s, u) \/ HalveStep(c, s, u) \/ HalvedStep(c, s, u)
        \/ SettleStep(c, s, u)
  BY DEF Follows, LoadStep, PredictStep, PromptStep, UpgradeStep, UpgradedStep, RouteStep,
         Below, Searching
<1>2. CASE DoubleStep(c, s, u)
  BY <1>2 DEF DoubleStep, Below
<1>3. CASE BisectStep(c, s, u)
  BY <1>3 DEF BisectStep, SameBounds, Below, Searching
<1>4. CASE HalveStep(c, s, u)
  <2>1. Between(s) \in Nat /\ s.low <= Between(s) /\ Between(s) <= s.high
    BY Mean DEF Below
  <2>2. CASE Breaks(c, s, Between(s))
    BY <1>4, <2>1, <2>2 DEF HalveStep, Below, Searching
  <2>3. CASE ~Breaks(c, s, Between(s))
    <3>1. /\ u.low = s.low /\ u.high = Between(s) /\ u.chosen = Choose(c, <<>>, Between(s))
          /\ ~Violates(c, <<>>, u.chosen) /\ u.routing = "halve" /\ u.locked = <<>>
      BY <1>4, <2>3 DEF HalveStep, Below, Breaks
    <3>2. s.low \in Nat /\ s.high \in Nat /\ s.high <= p
      BY DEF Below
    <3>3. Between(s) \in Int /\ Between(s) <= p
      BY <2>1, <3>2
    <3> QED
      BY <2>1, <3>1, <3>2, <3>3 DEF Below, Searching
  <2> QED
    BY <2>2, <2>3
<1>5. CASE HalvedStep(c, s, u)
  BY <1>5 DEF HalvedStep, SameBounds, Below, Searching
<1>6. CASE SettleStep(c, s, u)
  BY <1>6 DEF SettleStep, SameBounds, Below, Searching, Penalised
<1> QED
  BY <1>1, <1>2, <1>3, <1>4, <1>5, <1>6

LEMMA AboveStep ==
  ASSUME NEW d, d.rule \in Penalised, NEW t, NEW v, NEW p \in Int, Above(d, t, p),
         Follows(d, t, v)
  PROVE  Above(d, v, p)
<1>1. DoubleStep(d, t, v) \/ BisectStep(d, t, v) \/ HalveStep(d, t, v) \/ HalvedStep(d, t, v)
        \/ SettleStep(d, t, v)
  BY DEF Follows, LoadStep, PredictStep, PromptStep, UpgradeStep, UpgradedStep, RouteStep,
         Above, Searching
<1>0. /\ t.low \in Nat /\ t.high \in Nat /\ t.low <= t.high /\ t.locked = <<>>
      /\ t.routing \in {"double", "halve"} => p <= t.low
  BY DEF Above
<1>2. CASE DoubleStep(d, t, v)
  <2>1. /\ v.routing = "double" /\ v.low = t.high /\ v.high = 2 * t.high /\ v.locked = <<>>
        /\ v.chosen = Choose(d, <<>>, 2 * t.high) /\ t.routing = "double"
    BY <1>0, <1>2 DEF DoubleStep
  <2>2. /\ 2 * t.high \in Nat /\ t.high <= 2 * t.high /\ p <= t.high /\ p <= 2 * t.high
    BY <1>0, <2>1
  <2> QED
    BY <1>0, <2>1, <2>2 DEF Above, Searching
<1>3. CASE BisectStep(d, t, v)
  BY <1>0, <1>3 DEF BisectStep, SameBounds, Above, Searching
<1>4. CASE HalveStep(d, t, v)
  <2>1. Between(t) \in Nat /\ t.low <= Between(t) /\ Between(t) <= t.high
    BY <1>0, Mean
  <2>2. v.routing = "halve" /\ v.locked = <<>> /\ t.routing = "halve"
    BY <1>0, <1>4 DEF HalveStep
  <2>3. p <= t.low /\ p <= Between(t)
    BY <1>0, <2>1, <2>2
  <2>4. CASE Breaks(d, t, Between(t))
    <3>1. v.low = Between(t) /\ v.high = t.high /\ v.chosen = t.chosen
      BY <1>4, <2>4 DEF HalveStep
    <3> QED
      BY <1>0, <2>1, <2>2, <2>3, <3>1 DEF Above, Searching
  <2>5. CASE ~Breaks(d, t, Between(t))
    <3>1. v.low = t.low /\ v.high = Between(t) /\ v.chosen = Choose(d, <<>>, Between(t))
      BY <1>0, <1>4, <2>5 DEF HalveStep
    <3> QED
      BY <1>0, <2>1, <2>2, <2>3, <3>1 DEF Above, Searching
  <2> QED
    BY <2>4, <2>5
<1>5. CASE HalvedStep(d, t, v)
  BY <1>0, <1>5 DEF HalvedStep, SameBounds, Above, Searching
<1>6. CASE SettleStep(d, t, v)
  <2>1. /\ v.routing = "write" /\ v.locked = <<>> /\ v.low = t.low /\ v.high = t.high
        /\ v.chosen = t.chosen \/ v.chosen = AllLight(d)
    BY <1>0, <1>6 DEF SettleStep, SameBounds, Fallback, Penalised
  <2> QED
    BY <1>0, <2>1 DEF Above, Searching
<1> QED
  BY <1>1, <1>2, <1>3, <1>4, <1>5, <1>6

LEMMA LightlyStep ==
  ASSUME NEW d, d.rule \in Penalised, NEW t, NEW v, Lightly(d, t), Follows(d, t, v)
  PROVE  Lightly(d, v)
<1>1. t.routing = "settle" /\ Violates(d, <<>>, t.chosen) /\ t.locked = <<>>
  BY DecidedStays DEF Lightly, Deciding
<1>2. SettleStep(d, t, v)
  BY <1>1 DEF Follows, LoadStep, PredictStep, PromptStep, UpgradeStep, UpgradedStep, RouteStep,
         DoubleStep, BisectStep, HalveStep, HalvedStep
<1> QED
  BY <1>1, <1>2 DEF SettleStep, Lightly, Fallback, Penalised

\* A step from the same place leads to the same place or apart.
Parted(c, d, u, v) ==
  \/ Level(c, d, u, v)
  \/ \E p \in Nat : Below(c, u, p) /\ Above(d, v, p)
  \/ Lightly(d, v)

LEMMA LevelBegins ==
  ASSUME NEW c, NEW d, Tighter(c, d), NEW s, NEW t, Level(c, d, s, t),
         NEW u, NEW v, Follows(c, s, u), Follows(d, t, v),
         s.routing \in {"load", "predict"}
  PROVE  Parted(c, d, u, v)
<1>1. /\ t.routing = s.routing /\ t.low = s.low /\ t.high = s.high /\ s.low \in Nat
      /\ s.high = 0 /\ s.low <= s.high /\ s.locked = <<>> /\ t.locked = <<>>
      /\ c.rule \in Penalised /\ d.rule \in Penalised
      /\ c.rule = "team" => d.rule = "team" /\ d.artifact = c.artifact
      /\ t.chosen = s.chosen
  BY DEF Level, Tighter
<1>2. c.rule = "team" => Accepts(d) = Accepts(c) /\ Fits(d) = Fits(c)
  <2> SUFFICES ASSUME c.rule = "team" PROVE Accepts(d) = Accepts(c) /\ Fits(d) = Fits(c)
    OBVIOUS
  <2>1. d.rule = c.rule /\ d.artifact = c.artifact
    BY <1>1
  <2>2. ExpectedWidth(d) = ExpectedWidth(c) /\ FeatureWidth(d) = FeatureWidth(c)
    BY <2>1 DEF ExpectedWidth, FeatureWidth, RawWidth
  <2> QED
    BY <2>1, <2>2 DEF Accepts, Fits
<1>3. c.rule # "team" => Accepts(c)
  BY <1>1 DEF Accepts, Penalised
<1>4. CASE s.routing = "load"
  <2>1. LoadStep(c, s, u) /\ LoadStep(d, t, v)
    BY <1>1, <1>4 DEF Follows, LoadStep, PredictStep, PromptStep, UpgradeStep, UpgradedStep,
       RouteStep, DoubleStep, BisectStep, HalveStep, HalvedStep, SettleStep
  <2>2. s.chosen = <<>>
    BY <1>4 DEF Level
  <2>3. CASE Accepts(d)
    <3>1. Accepts(c)
      BY <1>2, <1>3, <2>3
    <3> QED
      BY <1>1, <2>1, <2>3, <3>1 DEF LoadStep, SameBounds, Parted, Level
  <2>4. CASE ~Accepts(d)
    BY <1>1, <2>1, <2>2, <2>4 DEF LoadStep, Lightly, Parted
  <2> QED
    BY <2>3, <2>4
<1>5. CASE s.routing = "predict"
  <2>1. PredictStep(c, s, u) /\ PredictStep(d, t, v)
    BY <1>1, <1>5 DEF Follows, LoadStep, PredictStep, PromptStep, UpgradeStep, UpgradedStep,
       RouteStep, DoubleStep, BisectStep, HalveStep, HalvedStep, SettleStep
  <2>2. AllLight(d) = AllLight(c)
    BY TighterRows
  <2>3. CASE v.routing = "ended"
    BY <1>1, <2>1, <2>3 DEF PredictStep, Lightly, Parted
  <2>4. CASE v.routing # "ended"
    <3>1. v.routing = "route" /\ (d.rule = "team" => Fits(d))
      BY <1>1, <2>1, <2>4 DEF PredictStep, Penalised
    <3>2. u.routing = "route"
      BY <1>1, <1>2, <2>1, <3>1 DEF PredictStep, Penalised
    <3>3. /\ u.chosen = AllLight(c) /\ v.chosen = AllLight(d)
          /\ SameBounds(s, u) /\ SameBounds(t, v) /\ u.locked = s.locked /\ v.locked = t.locked
      BY <2>1 DEF PredictStep
    <3> QED
      BY <1>1, <2>2, <3>1, <3>2, <3>3 DEF SameBounds, Parted, Level
  <2> QED
    BY <2>3, <2>4
<1> QED
  BY <1>4, <1>5


LEMMA LevelSearches ==
  ASSUME NEW c, NEW d, Tighter(c, d), NEW s, NEW t, Level(c, d, s, t),
         NEW u, NEW v, Follows(c, s, u), Follows(d, t, v),
         s.routing \in {"route", "double", "halve", "settle"}
  PROVE  Parted(c, d, u, v)
<1>1. /\ t.routing = s.routing /\ t.low = s.low /\ t.high = s.high /\ t.chosen = s.chosen
      /\ s.low \in Nat /\ s.high \in Nat /\ s.low <= s.high
      /\ s.locked = <<>> /\ t.locked = <<>>
      /\ c.rule \in Penalised /\ d.rule \in Penalised /\ Typed(c)
      /\ s.routing = "route" => s.high = 0
      /\ s.routing # "route" => s.chosen = Choose(c, <<>>, s.high)
      /\ s.routing = "halve" => s.left \in Int /\ t.left \in Int /\ t.left <= s.left
  BY DEF Level, Tighter
<1>2. \A p : Choose(d, <<>>, p) = Choose(c, <<>>, p)
  BY TighterChooses
<1>3. \A p \in Int : Choose(c, <<>>, p) \in Selection(c)
  BY <1>1, ChooseTyped
<1>4. \A p \in Int : Breaks(c, s, p) => Breaks(d, t, p)
  BY <1>1, <1>2, <1>3, TighterViolates DEF Breaks
<1>5. s.routing # "route" /\ Violates(c, <<>>, s.chosen) => Violates(d, <<>>, s.chosen)
  BY <1>1, <1>3, TighterViolates
<1>6. CASE s.routing = "route"
  <2>1. RouteStep(c, s, u) /\ RouteStep(d, t, v)
    BY <1>1, <1>6 DEF Follows, LoadStep, PredictStep, PromptStep, UpgradeStep, UpgradedStep,
       RouteStep, DoubleStep, BisectStep, HalveStep, HalvedStep, SettleStep
  <2>2. Grain \in Nat
    BY NumbersAssumption DEF NumbersAssumption
  <2>3. u.locked = <<>> /\ v.locked = <<>>
    BY <1>1, <2>1 DEF RouteStep
  <2>4. CASE Breaks(c, s, 0)
    <3>1. Breaks(d, t, 0)
      BY <1>4, <2>4
    <3>2. /\ u.low = 0 /\ u.high = Grain /\ u.routing = "double"
          /\ u.chosen = Choose(c, <<>>, Grain)
      BY <1>1, <2>1, <2>4 DEF RouteStep
    <3>3. /\ v.low = 0 /\ v.high = Grain /\ v.routing = "double"
          /\ v.chosen = Choose(c, <<>>, Grain)
      BY <1>1, <1>2, <2>1, <3>1 DEF RouteStep
    <3> QED
      BY <2>2, <2>3, <3>2, <3>3 DEF Parted, Level
  <2>5. CASE ~Breaks(c, s, 0)
    <3>1. /\ u.routing = "settle" /\ u.low = s.low /\ u.high = s.high
          /\ u.chosen = Choose(c, <<>>, 0) /\ ~Violates(c, <<>>, u.chosen)
      BY <1>1, <2>1, <2>5 DEF RouteStep, SameBounds, Breaks
    <3>2. CASE Breaks(d, t, 0)
      <4>1. /\ v.low = 0 /\ v.high = Grain /\ v.routing = "double"
            /\ v.chosen = Choose(d, <<>>, Grain)
        BY <1>1, <2>1, <3>2 DEF RouteStep
      <4>2. Above(d, v, 0)
        BY <2>2, <2>3, <4>1 DEF Above, Searching
      <4>3. Below(c, u, 0)
        BY <1>1, <1>6, <2>3, <3>1 DEF Below, Searching
      <4> QED
        BY <4>2, <4>3 DEF Parted
    <3>3. CASE ~Breaks(d, t, 0)
      <4>1. /\ v.routing = "settle" /\ v.low = s.low /\ v.high = s.high
            /\ v.chosen = Choose(c, <<>>, 0)
        BY <1>1, <1>2, <2>1, <3>3 DEF RouteStep, SameBounds
      <4> QED
        BY <1>1, <1>6, <2>3, <3>1, <4>1 DEF Parted, Level
    <3> QED
      BY <3>2, <3>3
  <2> QED
    BY <2>4, <2>5
<1>7. CASE s.routing = "double"
  <2>1. /\ DoubleStep(c, s, u) \/ BisectStep(c, s, u)
        /\ DoubleStep(d, t, v) \/ BisectStep(d, t, v)
    BY <1>1, <1>7 DEF Follows, LoadStep, PredictStep, PromptStep, UpgradeStep, UpgradedStep,
       RouteStep, DoubleStep, BisectStep, HalveStep, HalvedStep, SettleStep
  <2>0. Ceiling \in Int
    BY NumbersAssumption DEF NumbersAssumption
  <2>2. CASE DoubleStep(c, s, u)
    <3>1. Violates(d, <<>>, t.chosen) /\ t.high < Ceiling
      BY <1>1, <1>5, <1>7, <2>2 DEF DoubleStep
    <3>2. DoubleStep(d, t, v)
      BY <1>1, <2>0, <2>1, <3>1 DEF BisectStep
    <3>3. /\ u.routing = "double" /\ u.low = s.high /\ u.high = 2 * s.high /\ u.locked = <<>>
          /\ u.chosen = Choose(c, <<>>, 2 * s.high)
      BY <1>1, <2>2 DEF DoubleStep
    <3>4. /\ v.routing = "double" /\ v.low = s.high /\ v.high = 2 * s.high /\ v.locked = <<>>
          /\ v.chosen = Choose(c, <<>>, 2 * s.high)
      BY <1>1, <1>2, <3>2 DEF DoubleStep
    <3>5. 2 * s.high \in Nat /\ s.high <= 2 * s.high
      BY <1>1
    <3> QED
      BY <1>1, <3>3, <3>4, <3>5 DEF Parted, Level
  <2>3. CASE BisectStep(c, s, u)
    <3>1. /\ u.routing = "halve" /\ u.left = Steps(c) /\ u.low = s.low /\ u.high = s.high
          /\ u.locked = <<>> /\ u.chosen = s.chosen
          /\ ~Violates(c, <<>>, s.chosen) \/ s.high >= Ceiling
      BY <1>1, <2>3 DEF BisectStep, SameBounds
    <3>2. CASE DoubleStep(d, t, v)
      <4>1. /\ v.routing = "double" /\ v.low = s.high /\ v.high = 2 * s.high /\ v.locked = <<>>
            /\ v.chosen = Choose(d, <<>>, 2 * s.high) /\ s.high < Ceiling
        BY <1>1, <3>2 DEF DoubleStep
      <4>2. 2 * s.high \in Nat /\ s.high <= 2 * s.high
        BY <1>1
      <4>3. Above(d, v, s.high)
        BY <1>1, <4>1, <4>2 DEF Above, Searching
      <4>4. ~Violates(c, <<>>, s.chosen)
        BY <1>1, <2>0, <3>1, <4>1
      <4>5. Below(c, u, s.high)
        BY <1>1, <1>7, <3>1, <4>4 DEF Below, Searching
      <4> QED
        BY <1>1, <4>3, <4>5 DEF Parted
    <3>3. CASE BisectStep(d, t, v)
      <4>1. /\ v.routing = "halve" /\ v.left = Steps(d) /\ v.low = s.low /\ v.high = s.high
            /\ v.locked = <<>> /\ v.chosen = s.chosen
        BY <1>1, <3>3 DEF BisectStep, SameBounds
      <4>2. Steps(c) \in Int /\ Steps(d) \in Int /\ Steps(d) <= Steps(c)
        <5>1. Halvings \in Int /\ CopyHalvings \in Int /\ Halvings <= CopyHalvings
          BY NumbersAssumption DEF NumbersAssumption
        <5>2. c.rule = "team" => d.rule = "team"
          BY DEF Tighter
        <5> QED
          BY <1>1, <5>1, <5>2 DEF Steps, Penalised
      <4> QED
        BY <1>1, <1>7, <3>1, <4>1, <4>2 DEF Parted, Level
    <3> QED
      BY <2>1, <3>2, <3>3
  <2> QED
    BY <2>1, <2>2, <2>3
<1>8. CASE s.routing = "halve"
  <2>1. /\ HalveStep(c, s, u) \/ HalvedStep(c, s, u)
        /\ HalveStep(d, t, v) \/ HalvedStep(d, t, v)
    BY <1>1, <1>8 DEF Follows, LoadStep, PredictStep, PromptStep, UpgradeStep, UpgradedStep,
       RouteStep, DoubleStep, BisectStep, HalveStep, HalvedStep, SettleStep
  <2>2. Between(s) \in Nat /\ s.low <= Between(s) /\ Between(s) <= s.high /\ Between(t) = Between(s)
    BY <1>1, Mean DEF Between
  <2>3. s.left \in Int /\ t.left \in Int /\ t.left <= s.left
    BY <1>1, <1>8
  <2>4. CASE HalveStep(d, t, v)
    <3>1. HalveStep(c, s, u)
      BY <2>1, <2>3, <2>4 DEF HalveStep, HalvedStep
    <3>2. /\ u.routing = "halve" /\ u.left = s.left - 1 /\ u.locked = <<>>
          /\ v.routing = "halve" /\ v.left = t.left - 1 /\ v.locked = <<>>
      BY <1>1, <2>4, <3>1 DEF HalveStep
    <3>3. CASE Breaks(c, s, Between(s))
      <4>1. u.low = Between(s) /\ u.high = s.high /\ u.chosen = s.chosen
        BY <3>1, <3>3 DEF HalveStep
      <4>2. Breaks(d, t, Between(t))
        BY <1>4, <2>2, <3>3
      <4>3. v.low = Between(s) /\ v.high = s.high /\ v.chosen = s.chosen
        BY <1>1, <2>2, <2>4, <4>2 DEF HalveStep
      <4> QED
        BY <1>1, <1>8, <2>2, <2>3, <3>2, <4>1, <4>3 DEF Parted, Level
    <3>4. CASE ~Breaks(c, s, Between(s))
      <4>1. /\ u.low = s.low /\ u.high = Between(s) /\ u.chosen = Choose(c, <<>>, Between(s))
            /\ ~Violates(c, <<>>, u.chosen)
        BY <1>1, <3>1, <3>4 DEF HalveStep, Breaks
      <4>2. CASE Breaks(d, t, Between(t))
        <5>1. v.low = Between(s) /\ v.high = s.high /\ v.chosen = s.chosen
          BY <1>1, <2>2, <2>4, <4>2 DEF HalveStep
        <5>2. s.chosen = Choose(d, <<>>, s.high)
          BY <1>1, <1>2, <1>8
        <5>3. Above(d, v, Between(s))
          BY <1>1, <2>2, <3>2, <5>1, <5>2 DEF Above, Searching
        <5>4. Below(c, u, Between(s))
          BY <1>1, <2>2, <3>2, <4>1 DEF Below, Searching
        <5> QED
          BY <2>2, <5>3, <5>4 DEF Parted
      <4>3. CASE ~Breaks(d, t, Between(t))
        <5>1. v.low = s.low /\ v.high = Between(s) /\ v.chosen = Choose(c, <<>>, Between(s))
          BY <1>1, <1>2, <2>2, <2>4, <4>3 DEF HalveStep
        <5>2. u.left \in Int /\ v.left \in Int /\ v.left <= u.left
          BY <2>3, <3>2
        <5>3. u.low \in Nat /\ u.high \in Nat /\ u.low <= u.high
          BY <1>1, <2>2, <4>1
        <5>4. /\ u.routing = "halve" /\ v.routing = "halve"
              /\ u.locked = <<>> /\ v.locked = <<>>
              /\ v.low = u.low /\ v.high = u.high /\ v.chosen = u.chosen
              /\ u.chosen = Choose(c, <<>>, u.high)
          BY <3>2, <4>1, <5>1
        <5> QED
          BY <5>2, <5>3, <5>4 DEF Parted, Level
      <4> QED
        BY <4>2, <4>3
    <3> QED
      BY <3>3, <3>4
  <2>5. CASE HalvedStep(d, t, v)
    <3>1. /\ v.routing = "settle" /\ v.low = s.low /\ v.high = s.high /\ v.chosen = s.chosen
          /\ v.locked = <<>>
      BY <1>1, <2>5 DEF HalvedStep, SameBounds
    <3>2. CASE Violates(d, <<>>, s.chosen)
      BY <3>1, <3>2 DEF Lightly, Parted
    <3>3. CASE ~Violates(d, <<>>, s.chosen)
      <4>1. ~Violates(c, <<>>, s.chosen)
        BY <1>5, <1>8, <3>3
      <4>2. Below(c, s, s.high)
        BY <1>1, <1>8, <4>1 DEF Below, Searching
      <4>3. Below(c, u, s.high)
        BY <1>1, <4>2, BelowStep
      <4>4. s.chosen = Choose(d, <<>>, s.high)
        BY <1>1, <1>2, <1>8
      <4>5. Above(d, v, s.high)
        BY <1>1, <3>1, <4>4 DEF Above, Searching
      <4> QED
        BY <1>1, <4>3, <4>5 DEF Parted
    <3> QED
      BY <3>2, <3>3
  <2> QED
    BY <2>1, <2>4, <2>5
<1>9. CASE s.routing = "settle"
  <2>1. SettleStep(c, s, u) /\ SettleStep(d, t, v)
    BY <1>1, <1>9 DEF Follows, LoadStep, PredictStep, PromptStep, UpgradeStep, UpgradedStep,
       RouteStep, DoubleStep, BisectStep, HalveStep, HalvedStep, SettleStep
  <2>2. /\ u.routing = "write" /\ u.locked = <<>> /\ u.low = s.low /\ u.high = s.high
        /\ v.routing = "write" /\ v.locked = <<>> /\ v.low = s.low /\ v.high = s.high
    BY <1>1, <2>1 DEF SettleStep, SameBounds, Penalised
  <2>3. CASE Violates(d, <<>>, s.chosen)
    <3>1. v.chosen = AllLight(d)
      BY <1>1, <2>1, <2>3 DEF SettleStep, Fallback
    <3> QED
      BY <2>2, <3>1 DEF Lightly, Parted
  <2>4. CASE ~Violates(d, <<>>, s.chosen)
    <3>1. ~Violates(c, <<>>, s.chosen)
      BY <1>5, <1>9, <2>4
    <3>2. u.chosen = s.chosen /\ v.chosen = s.chosen
      BY <1>1, <2>1, <2>4, <3>1 DEF SettleStep
    <3>3. s.chosen = Choose(c, <<>>, s.high) /\ s.chosen = Choose(d, <<>>, s.high)
      BY <1>1, <1>2, <1>9
    <3>4. Below(c, u, s.high)
      BY <1>1, <2>2, <3>1, <3>2, <3>3 DEF Below, Searching
    <3>5. Above(d, v, s.high)
      BY <1>1, <2>2, <3>2, <3>3 DEF Above, Searching
    <3> QED
      BY <1>1, <3>4, <3>5 DEF Parted
  <2> QED
    BY <2>3, <2>4
<1> QED
  BY <1>6, <1>7, <1>8, <1>9


LEMMA LevelStep ==
  ASSUME NEW c, NEW d, Tighter(c, d), NEW s, NEW t, Level(c, d, s, t),
         NEW u, NEW v, Follows(c, s, u), Follows(d, t, v)
  PROVE  Parted(c, d, u, v)
BY LevelBegins, LevelSearches DEF Level

\* What every step of a history keeps, its end has.
LEMMA KeptToTheEnd ==
  ASSUME NEW n \in Nat, NEW j \in 1..n, NEW G, j \in G,
         \A k \in 1..(n - 1) : k \in G => k + 1 \in G
  PROVE  n \in G
<1> DEFINE T == {k \in Nat : k \in j..n /\ k \notin G}
<1>1. ASSUME T # {} PROVE FALSE
  <2>1. PICK k \in T : \A y \in T : k <= y
    BY <1>1, LeastMember
  <2>2. k # j /\ k \in Nat /\ j <= k /\ k <= n /\ k \notin G
    BY <2>1
  <2>3. k - 1 \in Nat /\ k - 1 \in j..n /\ k - 1 \in 1..(n - 1) /\ ~(k <= k - 1) /\ (k - 1) + 1 = k
    BY <2>2
  <2>4. k - 1 \notin T
    BY <2>1, <2>3
  <2>5. k - 1 \in G
    BY <2>3, <2>4
  <2> QED
    BY <2>2, <2>3, <2>5
<1>2. n \in j..n
  OBVIOUS
<1> QED
  BY <1>1, <1>2

LEMMA BelowToTheEnd ==
  ASSUME NEW c, c.rule \in Penalised, NEW h, NEW n, History(c, h, n), NEW j \in 1..n,
         NEW p \in Int, Below(c, h[j], p)
  PROVE  Below(c, h[n], p)
<1> DEFINE G == {k \in 1..n : Below(c, h[k], p)}
<1>1. n \in Nat \ {0} /\ \A k \in 1..(n - 1) : Follows(c, h[k], h[k + 1])
  BY DEF History
<1>2. \A k \in 1..(n - 1) : k \in G => k + 1 \in G
  BY <1>1, BelowStep
<1>3. j \in G
  OBVIOUS
<1> HIDE DEF G
<1>4. n \in G
  BY <1>1, <1>2, <1>3, KeptToTheEnd
<1> QED
  BY <1>4 DEF G

LEMMA AboveToTheEnd ==
  ASSUME NEW c, c.rule \in Penalised, NEW h, NEW n, History(c, h, n), NEW j \in 1..n,
         NEW p \in Int, Above(c, h[j], p)
  PROVE  Above(c, h[n], p)
<1> DEFINE G == {k \in 1..n : Above(c, h[k], p)}
<1>1. n \in Nat \ {0} /\ \A k \in 1..(n - 1) : Follows(c, h[k], h[k + 1])
  BY DEF History
<1>2. \A k \in 1..(n - 1) : k \in G => k + 1 \in G
  BY <1>1, AboveStep
<1>3. j \in G
  OBVIOUS
<1> HIDE DEF G
<1>4. n \in G
  BY <1>1, <1>2, <1>3, KeptToTheEnd
<1> QED
  BY <1>4 DEF G

LEMMA LightlyToTheEnd ==
  ASSUME NEW c, c.rule \in Penalised, NEW h, NEW n, History(c, h, n), NEW j \in 1..n,
         Lightly(c, h[j])
  PROVE  Lightly(c, h[n])
<1> DEFINE G == {k \in 1..n : Lightly(c, h[k])}
<1>1. n \in Nat \ {0} /\ \A k \in 1..(n - 1) : Follows(c, h[k], h[k + 1])
  BY DEF History
<1>2. \A k \in 1..(n - 1) : k \in G => k + 1 \in G
  BY <1>1, LightlyStep
<1>3. j \in G
  OBVIOUS
<1> HIDE DEF G
<1>4. n \in G
  BY <1>1, <1>2, <1>3, KeptToTheEnd
<1> QED
  BY <1>4 DEF G

\* The answer of a call is a model for each episode, or there is none.
LEMMA AnswerTyped ==
  ASSUME NEW c, Typed(c), NEW a, Answer(c, a)
  PROVE  a = <<>> \/ a \in Selection(c)
<1>1. Twin(c, c, InOrder(c.rows))
  BY InOrderKeeps DEF Twin, Typed
<1>2. LockRearranged(c, InOrder(c.rows), a, a)
  BY <1>1, TwinAnswers
<1> QED
  BY <1>2 DEF LockRearranged, Rearranged

\* The tighter call's answer has no larger model.
LEMMA TighterAnswers ==
  ASSUME NEW c, NEW d, Tighter(c, d), NEW a, NEW b, Answer(c, a), Answer(d, b),
         a # <<>>, b # <<>>
  PROVE  \A i \in Places(c) : b[i] <= a[i]
<1>1. PICK s, t : /\ Reaches(c, s) /\ s.routing \in Concluded /\ s.chosen = a
                  /\ Reaches(d, t) /\ t.routing \in Concluded /\ t.chosen = b
  BY DEF Answer
<1>2. PICK n, h : History(c, h, n) /\ h[n] = s
  BY <1>1 DEF Reaches
<1>3. PICK m, g : History(d, g, m) /\ g[m] = t
  BY <1>1 DEF Reaches
<1>4. /\ n \in Nat \ {0} /\ h[1] = Start
      /\ \A k \in 1..(n - 1) : Follows(c, h[k], h[k + 1])
  BY <1>2 DEF History
<1>5. /\ m \in Nat \ {0} /\ g[1] = Start
      /\ \A k \in 1..(m - 1) : Follows(d, g[k], g[k + 1])
  BY <1>3 DEF History
<1>6. c.rule \in Penalised /\ d.rule \in Penalised /\ Typed(c) /\ Typed(d)
  BY DEF Tighter
<1>7. a \in Selection(c)
  BY <1>6, AnswerTyped
<1> DEFINE T == {k \in Nat : k \in 1..n /\ k \in 1..m /\ ~ Level(c, d, h[k], g[k])}
<1>8. T # {}
  <2>1. CASE n <= m
    <3>1. n \in 1..n /\ n \in 1..m
      BY <1>4, <1>5, <2>1
    <3>2. ~ Level(c, d, h[n], g[n])
      BY <1>1, <1>2 DEF Level, Concluded
    <3> QED
      BY <1>4, <3>1, <3>2
  <2>2. CASE m < n
    <3>1. m \in 1..n /\ m \in 1..m
      BY <1>4, <1>5, <2>2
    <3>2. ~ Level(c, d, h[m], g[m])
      BY <1>1, <1>3 DEF Level, Concluded
    <3> QED
      BY <1>5, <3>1, <3>2
  <2> QED
    BY <1>4, <1>5, <2>1, <2>2
<1>9. PICK k \in T : \A y \in T : k <= y
  BY <1>8, LeastMember
<1>10. k # 1
  <2>1. Level(c, d, Start, Start)
    BY DEF Level, Start
  <2> QED
    BY <1>4, <1>5, <1>9, <2>1
<1>11. k - 1 \in 1..(n - 1) /\ k - 1 \in 1..(m - 1) /\ (k - 1) + 1 = k
  BY <1>4, <1>5, <1>9, <1>10
<1>12. Level(c, d, h[k - 1], g[k - 1])
  <2>1. k - 1 \in Nat /\ k - 1 \in 1..n /\ k - 1 \in 1..m /\ ~ (k <= k - 1)
    BY <1>4, <1>5, <1>9, <1>11
  <2>2. k - 1 \notin T
    BY <1>9, <2>1
  <2> QED
    BY <2>1, <2>2
<1>13. Follows(c, h[k - 1], h[k]) /\ Follows(d, g[k - 1], g[k])
  BY <1>4, <1>5, <1>11
<1>14. Parted(c, d, h[k], g[k])
  BY <1>12, <1>13, LevelStep
<1>15. k \in 1..n /\ k \in 1..m
  BY <1>9
<1>16. b = AllLight(d) => \A i \in Places(c) : b[i] <= a[i]
  <2>1. AllLight(d) = AllLight(c)
    BY TighterRows
  <2>2. \A i \in Places(c) : AllLight(c)[i] = 1 /\ a[i] \in 1..3
    BY <1>7 DEF AllLight, Light, Selection, ModelId
  <2>3. \A i \in Places(c) : AllLight(c)[i] <= a[i]
    BY <2>2
  <2> QED
    BY <2>1, <2>3
<1>17. CASE Lightly(d, g[k])
  <2>1. Lightly(d, t)
    BY <1>3, <1>6, <1>15, <1>17, LightlyToTheEnd
  <2>2. b = AllLight(d)
    BY <1>1, <2>1 DEF Lightly, Concluded
  <2> QED
    BY <1>16, <2>2
<1>18. CASE \E p \in Nat : Below(c, h[k], p) /\ Above(d, g[k], p)
  <2>1. PICK p \in Nat : Below(c, h[k], p) /\ Above(d, g[k], p)
    BY <1>18
  <2>2. p \in Int
    OBVIOUS
  <2>3. Below(c, s, p)
    BY <1>2, <1>6, <1>15, <2>1, <2>2, BelowToTheEnd
  <2>4. Above(d, t, p)
    BY <1>3, <1>6, <1>15, <2>1, <2>2, AboveToTheEnd
  <2>5. PICK q \in Int : q <= p /\ a = Choose(c, <<>>, q)
    BY <1>1, <2>3 DEF Below
  <2>6. CASE b = AllLight(d)
    BY <1>16, <2>6
  <2>7. CASE \E r \in Int : p <= r /\ b = Choose(d, <<>>, r)
    <3>1. PICK r \in Int : p <= r /\ b = Choose(d, <<>>, r)
      BY <2>7
    <3>2. b = Choose(c, <<>>, r)
      BY <3>1, TighterChooses
    <3>3. q <= r
      BY <2>2, <2>5, <3>1
    <3>4. Ascending(c) /\ c.rule # "hash"
      BY DEF Tighter, Penalised
    <3> QED
      BY <1>6, <2>5, <3>2, <3>3, <3>4, ChooseDown
  <2>8. b = AllLight(d) \/ \E r \in Int : p <= r /\ b = Choose(d, <<>>, r)
    BY <1>1, <2>4 DEF Above
  <2> QED
    BY <2>6, <2>7, <2>8
<1>19. ~ Level(c, d, h[k], g[k])
  BY <1>9
<1> QED
  BY <1>14, <1>17, <1>18, <1>19 DEF Parted

\* With the episodes in the same order the second call is the tighter one.
LEMMA PairsAreTighter ==
  ASSUME Paired, calls[1].rule \in Penalised, Ascending(calls[1]),
         moved = InOrder(calls[1].rows)
  PROVE  Tighter(calls[1], calls[2])
<1>1. CASE LessToSpend
  <2>1. PICK r \in {"team", "copy"}, t \in Tier, b \in Batch, w \in Weighing, s \in Less :
          /\ s < w.safety
          /\ calls = <<Plain(r, t, b, w), [Plain(r, t, b, w) EXCEPT !.safety = s]>>
    BY <1>1 DEF LessToSpend
  <2> DEFINE p == Plain(r, t, b, w)
             q == [p EXCEPT !.safety = s]
  <2>2. b \in Seq(Predicted) /\ b # <<>> /\ s \in Nat /\ w.safety \in Nat
    BY BatchesAssumption DEF BatchesAssumption
  <2>3. Typed(p)
    BY <2>2, PlainTyped DEF Rules
  <2>4. /\ q.safety = s
        /\ q.rule = p.rule /\ q.tier = p.tier /\ q.rows = p.rows /\ q.risk = p.risk
        /\ q.highCap = p.highCap /\ q.share = p.share /\ q.artifact = p.artifact
    BY PlainLess
  <2>5. p.safety = w.safety /\ p.rule = r
    BY PlainIs
  <2>6. calls[1] = p /\ calls[2] = q
    BY <2>1
  <2> HIDE DEF p, q
  <2>7. Typed(q) /\ q.safety <= p.safety
    BY <2>1, <2>2, <2>3, <2>4, <2>5 DEF Typed
  <2> QED
    BY <2>3, <2>4, <2>5, <2>6, <2>7 DEF Tighter, Penalised
<1>2. CASE CopyFirst
  <2>1. PICK r \in {"copy", "calibrate"}, t \in Tier, b \in Batch, w \in Weighing :
          calls = <<Plain(r, t, b, w), Plain("team", t, b, w)>>
    BY <1>2 DEF CopyFirst
  <2> DEFINE p == Plain(r, t, b, w)
             q == Plain("team", t, b, w)
  <2>2. b \in Seq(Predicted) /\ b # <<>>
    BY BatchesAssumption DEF BatchesAssumption
  <2>3. Typed(p) /\ Typed(q)
    BY <2>2, PlainTyped DEF Rules
  <2>4. /\ q.safety = p.safety /\ q.tier = p.tier /\ q.rows = p.rows /\ q.risk = p.risk
        /\ q.highCap = p.highCap /\ q.share = p.share
        /\ q.rule = "team" /\ p.rule = r
    BY PlainIs
  <2>5. calls[1] = p /\ calls[2] = q
    BY <2>1
  <2> HIDE DEF p, q
  <2>6. q.safety <= p.safety
    BY <2>3, <2>4 DEF Typed
  <2> QED
    BY <2>3, <2>4, <2>5, <2>6 DEF Tighter, Penalised
<1>3. CASE Reordered \/ Shaped
  <2>1. calls[2].safety = calls[1].safety /\ calls[2].rule = calls[1].rule
    <3>1. CASE Reordered
      <4>1. PICK r \in {"team", "hash", "prompt", "feature"}, t \in Tier, b \in Batch,
                 w \in Weighing :
              \E f \in Orders(b) :
                calls = <<Plain(r, t, b, w), Plain(r, t, Permuted(b, f), w)>>
        BY <3>1 DEF Reordered
      <4>2. PICK f \in Orders(b) :
              calls = <<Plain(r, t, b, w), Plain(r, t, Permuted(b, f), w)>>
        BY <4>1
      <4>3. calls[1] = Plain(r, t, b, w) /\ calls[2] = Plain(r, t, Permuted(b, f), w)
        BY <4>2
      <4> QED
        BY <4>3, PlainIs
    <3>2. CASE Shaped
      BY <3>2 DEF Shaped
    <3> QED
      BY <1>3, <3>1, <3>2
  <2>2. calls[2].rows = Permuted(calls[1].rows, moved)
    <3>1. CASE Reordered
      <4>1. PICK r \in {"team", "hash", "prompt", "feature"}, t \in Tier, b \in Batch,
                 w \in Weighing :
              \E f \in Orders(b) :
                /\ calls = <<Plain(r, t, b, w), Plain(r, t, Permuted(b, f), w)>>
                /\ moved = f
        BY <3>1 DEF Reordered
      <4>2. PICK f \in Orders(b) :
              /\ calls = <<Plain(r, t, b, w), Plain(r, t, Permuted(b, f), w)>>
              /\ moved = f
        BY <4>1
      <4>3. calls[1] = Plain(r, t, b, w) /\ calls[2] = Plain(r, t, Permuted(b, f), w)
        BY <4>2
      <4> QED
        BY <4>2, <4>3, PlainIs
    <3>2. CASE Shaped
      <4>1. PICK r \in {"team", "hash"}, n \in Bins, same \in BOOLEAN,
                 width \in [Vectors -> Widths] :
              calls = <<UnderArtifact(r, n, same, width), UnderArtifact(r, n, same, width)>>
        BY <3>2 DEF Shaped
      <4>2. PICK b \in Batch, w \in Weighing :
              b = (CHOOSE x \in Batch : TRUE) /\ w = (CHOOSE x \in Weighing : TRUE)
        BY BatchesAssumption DEF BatchesAssumption
      <4> DEFINE p == Plain(r, "fast", b, w)
                 c == UnderArtifact(r, n, same, width)
      <4>3. c = [p EXCEPT !.artifact = [bins |-> n, same |-> same, width |-> width]]
        BY <4>2 DEF UnderArtifact
      <4>4. p.rows = b
        BY PlainIs
      <4>5. c.rows = p.rows
        BY <4>3
      <4>6. calls[1] = c /\ calls[2] = c
        BY <4>1
      <4>7. calls[1].rows \in Seq(Predicted)
        BY <4>4, <4>5, <4>6, BatchesAssumption DEF BatchesAssumption
      <4>8. moved = InOrder(calls[1].rows)
        OBVIOUS
      <4> QED
        BY <4>6, <4>7, <4>8, InOrderKeeps
    <3> QED
      BY <1>3, <3>1, <3>2
  <2>3. Twin(calls[1], calls[2], moved)
    BY <2>1, <2>2, PairsAreTwins
  <2>4. calls[1].rows \in Seq(Predicted)
    BY <2>3 DEF Twin, Typed
  <2>5. calls[2].rows = calls[1].rows
    BY <2>2, <2>4, InOrderKeeps
  <2>6. calls[2].safety <= calls[1].safety
    BY <2>3 DEF Twin, Typed
  <2> QED
    BY <2>3, <2>5, <2>6 DEF Twin, Tighter
<1> QED
  BY <1>1, <1>2, <1>3 DEF Paired

\* With less to spend, or by the shipped router after a copy of its rule in
\* training/, no episode gets a larger model, whatever the scores, the costs and
\* the penalties the two searches stop at.
THEOREM NeverUp == RouteSpec => []OnlyDown
<1>1. ASSUME AnswersInv PROVE OnlyDown
  <2> SUFFICES ASSUME Answered, calls[1].rule \in Penalised, Ascending(calls[1]),
                      moved = InOrder(calls[1].rows)
               PROVE  \A i \in Places(calls[1]) : answers[2][i] <= answers[1][i]
    BY DEF OnlyDown, Penalised
  <2>1. Tighter(calls[1], calls[2])
    BY <1>1, PairsAreTighter DEF AnswersInv
  <2>2. Answer(calls[1], answers[1]) /\ Answer(calls[2], answers[2])
    BY <1>1 DEF AnswersInv, HistoryInv, Answered
  <2>3. answers[1] # <<>> /\ answers[2] # <<>>
    <3>1. Len(answers[1]) = Len(calls[1].rows) /\ Len(answers[2]) = Len(calls[2].rows)
      BY DEF Answered
    <3>2. Len(calls[1].rows) # 0 /\ Len(calls[2].rows) # 0
      BY <2>1, RowsTyped DEF Tighter
    <3> QED
      BY <3>1, <3>2
  <2> QED
    BY <2>1, <2>2, <2>3, TighterAnswers
<1> QED
  BY <1>1, AnswersInvariant, PTL

=============================================================================
