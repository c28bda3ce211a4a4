--------------------------- MODULE BenchmarkProofs ---------------------------
(***************************************************************************)
(* Why two reports that do not belong together are only left under the     *)
(* marker or by an interrupt that PairWhole names, for all numbers of      *)
(* runs, edits and faults: a publication, its rollback and what a power    *)
(* loss makes of them, call by call.  And why a report is true of the tree *)
(* it names.                                                               *)
(***************************************************************************)
EXTENDS Benchmark, SequenceTheorems, TLAPS

\* What is left of a script from its k-th call on.
From(calls, k) == SubSeq(calls, k, Len(calls))

Mine == invocation + 1

PairTypes ==
  /\ invocation \in Nat /\ marker \in BOOLEAN
  /\ pair \in [Path -> Nat] /\ found \in [Path -> Nat] /\ backup \in [Path -> Nat]
  /\ durable \in [paths : [Path -> SUBSET Nat], marker : SUBSET BOOLEAN]

\* Only the run that publishes has its number on a report.
Numbered ==
  \A p \in Path :
    /\ \A r \in durable.paths[p] : r <= Mine
    /\ bench # "idle" => found[p] <= invocation

\* What is there may still be there after a power loss.
Current ==
  /\ \A p \in Path : pair[p] \in durable.paths[p]
  /\ marker \in durable.marker

\* Whatever a power loss leaves without the marker is whole.
Whole ==
  FALSE \in durable.marker =>
    \A a \in durable.paths["json"], b \in durable.paths["md"] : a = b

\* What the run found is still there until it publishes, and was whole.
FoundWhole ==
  /\ bench \in {"measure", "mark"} => found = pair
  /\ bench \in {"publish", "rollback"} => found["json"] = found["md"]

\* At each path is what was found, or that was moved aside.
Recoverable(p) ==
  \/ pair[p] = found[p]
  \/ pair[p] \in {0, Mine} /\ (found[p] = 0 \/ Aside(p))
Removed(p)   == pair[p] = found[p] \/ (pair[p] \in {0, Mine} /\ Aside(p))
Published(p) == pair[p] = Mine
Restored(p)  == pair[p] = found[p]
Synced(p)    == durable.paths[p] = {pair[p]}
Marked       == marker /\ durable.marker = {TRUE}

\* Before the k-th call of a publication ...
PublishKnows(k) ==
  /\ \A p \in Path : Recoverable(p)
  /\ k <= 1 => Restored("json")
  /\ k <= 2 => Restored("md")
  /\ k > 1  => found["json"] = 0 \/ Aside("json")
  /\ k > 2  => found["md"] = 0 \/ Aside("md")
  /\ k > 3  => Published("json")
  /\ k > 4  => Published("md")
  /\ k > 5  => Synced("json")
  /\ k > 6  => Synced("md")
  /\ k <= 7 => Marked
  /\ k > 7  => ~marker

\* ... and of its rollback.  What was laid down unnoted goes when something is moved back.
RollbackKnows(k) ==
  /\ \A p \in Path : Recoverable(p)
  /\ \A p \in Path : <<"publish", p>> \in unnoted => found[p] # 0
  /\ k > 1  => Removed("json")
  /\ k > 2  => Removed("md")
  /\ k > 3  => Restored("json")
  /\ k > 4  => Restored("md")
  /\ k > 5  => Synced("json")
  /\ k > 6  => Synced("md")
  /\ k <= 7 => Marked

\* Only a rollback follows an interrupt.
Noted == bench # "rollback" => unnoted = {}

Underway ==
  /\ bench = "publish"  =>
       \E k \in 1..9 : todo = From(Script, k) /\ (gaps # {} \/ PublishKnows(k))
  /\ bench = "rollback" =>
       \E k \in 1..9 : todo = From(Back, k) /\ (gaps # {} \/ RollbackKnows(k))

PairInv ==
  /\ PairTypes /\ Numbered /\ Current /\ Noted
  /\ gaps # {} \/ (Whole /\ FoundWhole)
  /\ Underway

-----------------------------------------------------------------------------
(* Scripts. *)

Calls == {"aside", "publish", "remove", "restore", "sync", "unmark"} \X Path

\* The calls of both scripts are there to be read.
LEMMA Scripts ==
  ASSUME NEW s \in {Script, Back}
  PROVE  s \in Seq(Calls) /\ Len(s) = 8
<1>1. \A op \in {"aside", "publish", "remove", "restore", "sync", "unmark"}, p \in {"json", "md"} :
        <<op, p>> \in Calls
  BY DEF Calls, Path
<1>2. Script \in Seq(Calls) /\ Len(Script) = 8
  BY <1>1 DEF Script
<1>3. Back \in Seq(Calls) /\ Len(Back) = 8
  BY <1>1 DEF Back
<1> QED
  BY <1>2, <1>3

\* The next call, and what is left after it.
LEMMA NextCall ==
  ASSUME NEW s \in {Script, Back}, NEW k \in 1..8
  PROVE  From(s, k) # <<>> /\ Head(From(s, k)) = s[k] /\ Tail(From(s, k)) = From(s, k + 1)
<1>1. s \in Seq(Calls) /\ Len(s) = 8
  BY Scripts
<1>2. Head(From(s, k)) = s[k] /\ Tail(From(s, k)) = From(s, k + 1)
  BY <1>1, HeadTailOfSubSeq DEF From
<1>3. Len(From(s, k)) = 9 - k
  <2>1. \A i \in k..8 : s[i] \in Calls
    BY <1>1, ElementOfSeq
  <2>2. Len(SubSeq(s, k, 8)) = IF k <= 8 THEN 8 - k + 1 ELSE 0
    BY <2>1, SubSeqProperties
  <2> QED
    BY <1>1, <2>2 DEF From
<1> QED
  BY <1>2, <1>3

\* After the last call nothing is left, before the first the whole script.
LEMMA AllCalls ==
  ASSUME NEW s \in {Script, Back}
  PROVE  From(s, 9) = <<>> /\ From(s, 1) = s
<1>1. s \in Seq(Calls) /\ Len(s) = 8
  BY Scripts
<1>2. SubSeq(s, 9, 8) = <<>>
  BY SubSeqEmpty
<1>3. SubSeq(s, 1, Len(s)) = s
  BY <1>1, SubSeqFull
<1> QED
  BY <1>1, <1>2, <1>3 DEF From

-----------------------------------------------------------------------------
(* Calls. *)

\* A call keeps the types, numbers nothing that is not this run's, and leaves what is
\* there among what may be there.
LEMMA CallTypes ==
  ASSUME PairTypes, Numbered, Current, bench \in {"publish", "rollback"},
         NEW op, NEW p \in Path, Call(op, p),
         UNCHANGED <<invocation, found>>, bench' \in {"publish", "rollback"}
  PROVE  PairTypes' /\ Numbered' /\ Current'
<1> USE DEF PairTypes, Numbered, Current, Mine
<1>1. CASE op = "aside" /\ pair[p] # 0
  BY <1>1 DEF Call, Lay, files
<1>2. CASE op = "publish"
  BY <1>2 DEF Call, Lay, files
<1>3. CASE op = "remove" /\ Listed(p)
  BY <1>3 DEF Call, Lay, files
<1>4. CASE op = "restore" /\ Aside(p)
  BY <1>4 DEF Call, Lay, files, Aside
<1>5. CASE op = "sync"
  BY <1>5 DEF Call, files
<1>6. CASE op = "unmark" /\ marker
  <2>1. durable' = [durable EXCEPT !.marker = @ \cup {FALSE}] /\ marker' = FALSE
        /\ UNCHANGED <<pair, backup>>
    BY <1>6 DEF Call, files
  <2>2. durable.marker \cup {FALSE} \in SUBSET BOOLEAN
    OBVIOUS
  <2>3. durable' \in [paths : [Path -> SUBSET Nat], marker : SUBSET BOOLEAN]
    BY <2>1, <2>2
  <2>4. durable'.paths = durable.paths /\ FALSE \in durable'.marker
    BY <2>1
  <2> QED
    BY <2>1, <2>3, <2>4
<1>7. CASE UNCHANGED files
  BY <1>7 DEF files
<1> QED
  BY <1>1, <1>2, <1>3, <1>4, <1>5, <1>6, <1>7 DEF Call

\* What a call does not do: anything at the other path.
Elsewhere(p) ==
  \A q \in Path \ {p} : pair'[q] = pair[q] /\ backup'[q] = backup[q]

\* Each call by what it does.  Only a sync says what is durable.
LEMMA AsideCall ==
  ASSUME PairTypes, NEW p \in Path, Call("aside", p)
  PROVE  /\ Elsewhere(p) /\ marker' = marker /\ durable'.marker = durable.marker
         /\ pair'[p] = 0
         /\ backup'[p] = IF pair[p] # 0 THEN pair[p] ELSE backup[p]
<1>1. CASE pair[p] # 0
  BY <1>1 DEF PairTypes, Call, Lay, files, Elsewhere
<1>2. CASE pair[p] = 0
  BY <1>2 DEF PairTypes, Call, files, Elsewhere
<1> QED
  BY <1>1, <1>2

\* The new report is laid down, and nothing else moves.
LEMMA ReportCall ==
  ASSUME PairTypes, NEW p \in Path, Call("publish", p)
  PROVE  /\ Elsewhere(p) /\ marker' = marker /\ durable'.marker = durable.marker
         /\ pair'[p] = Mine /\ backup' = backup
  BY DEF PairTypes, Call, Lay, files, Elsewhere, Mine

\* What was laid down is removed again, and nothing else moves.
LEMMA RemoveCall ==
  ASSUME PairTypes, NEW p \in Path, Call("remove", p)
  PROVE  /\ Elsewhere(p) /\ marker' = marker /\ durable'.marker = durable.marker
         /\ pair'[p] = (IF Listed(p) THEN 0 ELSE pair[p]) /\ backup' = backup
<1>1. CASE Listed(p)
  BY <1>1 DEF PairTypes, Call, Lay, files, Elsewhere
<1>2. CASE ~Listed(p)
  BY <1>2 DEF PairTypes, Call, files, Elsewhere
<1> QED
  BY <1>1, <1>2

\* What was moved aside is moved back, and nothing else moves.
LEMMA RestoreCall ==
  ASSUME PairTypes, NEW p \in Path, Call("restore", p)
  PROVE  /\ Elsewhere(p) /\ marker' = marker /\ durable'.marker = durable.marker
         /\ pair'[p] = IF Aside(p) THEN found[p] ELSE pair[p]
<1>1. CASE Aside(p)
  BY <1>1 DEF PairTypes, Call, Lay, files, Elsewhere, Aside
<1>2. CASE ~Aside(p)
  BY <1>2 DEF PairTypes, Call, files, Elsewhere
<1> QED
  BY <1>1, <1>2

\* A sync leaves of each path, and of the marker, what is there.
LEMMA SyncCall ==
  ASSUME PairTypes, NEW p \in Path, Call("sync", p)
  PROVE  /\ UNCHANGED <<pair, backup, marker>>
         /\ durable'.paths[p] = {pair[p]}
         /\ \A q \in Path \ {p} : durable'.paths[q] = durable.paths[q]
         /\ durable'.marker = IF p = "json" THEN {marker} ELSE durable.marker
  BY DEF PairTypes, Call, files

\* The marker is removed, and a power loss may still bring it back.
LEMMA UnmarkCall ==
  ASSUME PairTypes, NEW p \in Path, Call("unmark", p), marker
  PROVE  /\ UNCHANGED <<pair, backup>> /\ marker' = FALSE
         /\ durable'.paths = durable.paths
  BY DEF PairTypes, Call, files

\* A call of a publication goes on from what is known before it.
LEMMA PublishCall ==
  ASSUME PairTypes, Numbered, Whole, FoundWhole, bench = "publish", NEW k \in 1..8,
         PublishKnows(k), Call(Script[k][1], Script[k][2]),
         UNCHANGED <<invocation, found, bench, unnoted>>, unnoted = {}
  PROVE  PublishKnows(k + 1)' /\ Whole'
<1>0. "json" \in Path /\ "md" \in Path /\ \A p \in Path : p = "json" \/ p = "md"
  BY DEF Path
<1>1. CASE k = 1
  <2>1. Call("aside", "json")
    BY <1>1 DEF Script
  <2>2. /\ pair'["md"] = pair["md"] /\ backup'["md"] = backup["md"]
        /\ marker' = marker /\ durable'.marker = durable.marker
        /\ pair'["json"] = 0
        /\ backup'["json"] = IF pair["json"] # 0 THEN pair["json"] ELSE backup["json"]
    BY <1>1, <2>1, AsideCall DEF Path, Elsewhere
  <2>3. Marked' /\ Whole'
    <3>1. Marked
      BY <1>1 DEF PublishKnows
    <3> QED
      BY <2>2, <3>1 DEF Marked, Whole
  <2>4. PublishKnows(2)'
    BY <1>0, <1>1, <2>2, <2>3
    DEF PublishKnows, Recoverable, Restored, Published, Synced, Aside, Mine
  <2> QED
    BY <1>1, <2>3, <2>4
<1>2. CASE k = 2
  <2>1. Call("aside", "md")
    BY <1>2 DEF Script
  <2>2. /\ pair'["json"] = pair["json"] /\ backup'["json"] = backup["json"]
        /\ marker' = marker /\ durable'.marker = durable.marker
        /\ pair'["md"] = 0
        /\ backup'["md"] = IF pair["md"] # 0 THEN pair["md"] ELSE backup["md"]
    BY <1>2, <2>1, AsideCall DEF Path, Elsewhere
  <2>3. Marked' /\ Whole'
    <3>1. Marked
      BY <1>2 DEF PublishKnows
    <3> QED
      BY <2>2, <3>1 DEF Marked, Whole
  <2>4. PublishKnows(3)'
    BY <1>0, <1>2, <2>2, <2>3
    DEF PublishKnows, Recoverable, Restored, Published, Synced, Aside, Mine
  <2> QED
    BY <1>2, <2>3, <2>4
<1>3. CASE k = 3
  <2>1. Call("publish", "json")
    BY <1>3 DEF Script
  <2>2. /\ pair'["md"] = pair["md"] /\ backup'["md"] = backup["md"]
        /\ marker' = marker /\ durable'.marker = durable.marker
        /\ pair'["json"] = Mine /\ backup'["json"] = backup["json"]
    BY <1>3, <2>1, ReportCall DEF Path, Elsewhere
  <2>3. Marked' /\ Whole'
    <3>1. Marked
      BY <1>3 DEF PublishKnows
    <3> QED
      BY <2>2, <3>1 DEF Marked, Whole
  <2>4. PublishKnows(4)'
    BY <1>0, <1>3, <2>2, <2>3
    DEF PublishKnows, Recoverable, Restored, Published, Synced, Aside, Mine
  <2> QED
    BY <1>3, <2>3, <2>4
<1>4. CASE k = 4
  <2>1. Call("publish", "md")
    BY <1>4 DEF Script
  <2>2. /\ pair'["json"] = pair["json"] /\ backup'["json"] = backup["json"]
        /\ marker' = marker /\ durable'.marker = durable.marker
        /\ pair'["md"] = Mine /\ backup'["md"] = backup["md"]
    BY <1>4, <2>1, ReportCall DEF Path, Elsewhere
  <2>3. Marked' /\ Whole'
    <3>1. Marked
      BY <1>4 DEF PublishKnows
    <3> QED
      BY <2>2, <3>1 DEF Marked, Whole
  <2>4. PublishKnows(5)'
    BY <1>0, <1>4, <2>2, <2>3
    DEF PublishKnows, Recoverable, Restored, Published, Synced, Aside, Mine
  <2> QED
    BY <1>4, <2>3, <2>4
<1>5. CASE k = 5
  <2>1. Call("sync", "json")
    BY <1>5 DEF Script
  <2>2. /\ UNCHANGED <<pair, backup, marker>>
        /\ durable'.paths["json"] = {pair["json"]}
        /\ durable'.paths["md"] = durable.paths["md"]
        /\ durable'.marker = {marker}
    BY <1>5, <2>1, SyncCall DEF Path
  <2>3. Marked' /\ Whole'
    <3>1. Marked
      BY <1>5 DEF PublishKnows
    <3> QED
      BY <2>2, <3>1 DEF Marked, Whole
  <2>4. PublishKnows(6)'
    BY <1>0, <1>5, <2>2, <2>3
    DEF PublishKnows, Recoverable, Restored, Published, Synced, Aside, Mine
  <2> QED
    BY <1>5, <2>3, <2>4
<1>6. CASE k = 6
  <2>1. Call("sync", "md")
    BY <1>6 DEF Script
  <2>2. /\ UNCHANGED <<pair, backup, marker>>
        /\ durable'.paths["md"] = {pair["md"]}
        /\ durable'.paths["json"] = durable.paths["json"]
        /\ durable'.marker = durable.marker
    BY <1>6, <2>1, SyncCall DEF Path
  <2>3. Marked' /\ Whole'
    <3>1. Marked
      BY <1>6 DEF PublishKnows
    <3> QED
      BY <2>2, <3>1 DEF Marked, Whole
  <2>4. PublishKnows(7)'
    BY <1>0, <1>6, <2>2, <2>3
    DEF PublishKnows, Recoverable, Restored, Published, Synced, Aside, Mine
  <2> QED
    BY <1>6, <2>3, <2>4
<1>7. CASE k = 7
  <2>1. Call("unmark", "json")
    BY <1>7 DEF Script
  <2>2. /\ UNCHANGED <<pair, backup>> /\ marker' = FALSE
        /\ durable'.paths = durable.paths
    BY <1>7, <2>1, UnmarkCall DEF Path, PublishKnows, Marked
  <2>3. PublishKnows(8)'
    BY <1>0, <1>7, <2>2 DEF PublishKnows, Recoverable, Restored, Published, Synced, Aside, Mine
  <2>4. Whole'
    BY <1>7, <2>2 DEF PublishKnows, Whole, FoundWhole, Synced, Published, Restored
  <2> QED
    BY <1>7, <2>3, <2>4
<1>8. CASE k = 8
  <2>1. Call("sync", "json")
    BY <1>8 DEF Script
  <2>2. /\ UNCHANGED <<pair, backup, marker>>
        /\ durable'.paths["json"] = {pair["json"]}
        /\ durable'.paths["md"] = durable.paths["md"]
        /\ durable'.marker = {marker}
    BY <1>8, <2>1, SyncCall DEF Path
  <2>3. PublishKnows(9)'
    BY <1>0, <1>8, <2>2 DEF PublishKnows, Recoverable, Restored, Published, Synced, Aside, Mine
  <2>4. Whole'
    BY <1>8, <2>2 DEF PublishKnows, Whole, FoundWhole, Synced, Published, Restored
  <2> QED
    BY <1>8, <2>3, <2>4
<1> QED
  BY <1>1, <1>2, <1>3, <1>4, <1>5, <1>6, <1>7, <1>8

\* So does one of its rollback, which ends with what was found.
LEMMA RollbackCall ==
  ASSUME PairTypes, Numbered, Whole, FoundWhole, bench = "rollback", NEW k \in 1..8,
         RollbackKnows(k), Call(Back[k][1], Back[k][2]),
         UNCHANGED <<invocation, found, bench, unnoted>>
  PROVE  RollbackKnows(k + 1)' /\ Whole'
<1>0. /\ "json" \in Path /\ "md" \in Path /\ \A p \in Path : p = "json" \/ p = "md"
      /\ found["json"] # Mine /\ found["md"] # Mine
  BY DEF Path, Numbered, Mine, PairTypes
<1>1. CASE k = 1
  <2>1. Call("remove", "json")
    BY <1>1 DEF Back
  <2>2. /\ pair'["md"] = pair["md"] /\ backup'["md"] = backup["md"]
        /\ marker' = marker /\ durable'.marker = durable.marker
        /\ pair'["json"] = (IF Listed("json") THEN 0 ELSE pair["json"])
        /\ backup'["json"] = backup["json"]
    BY <1>1, <2>1, RemoveCall DEF Path, Elsewhere
  <2>3. Marked' /\ Whole'
    <3>1. Marked
      BY <1>1 DEF RollbackKnows
    <3> QED
      BY <2>2, <3>1 DEF Marked, Whole
  <2>4. RollbackKnows(2)'
    BY <1>0, <1>1, <2>2, <2>3 DEF RollbackKnows, Recoverable, Removed, Restored, Synced, Aside, Listed, Mine
  <2> QED
    BY <1>1, <2>3, <2>4
<1>2. CASE k = 2
  <2>1. Call("remove", "md")
    BY <1>2 DEF Back
  <2>2. /\ pair'["json"] = pair["json"] /\ backup'["json"] = backup["json"]
        /\ marker' = marker /\ durable'.marker = durable.marker
        /\ pair'["md"] = (IF Listed("md") THEN 0 ELSE pair["md"])
        /\ backup'["md"] = backup["md"]
    BY <1>2, <2>1, RemoveCall DEF Path, Elsewhere
  <2>3. Marked' /\ Whole'
    <3>1. Marked
      BY <1>2 DEF RollbackKnows
    <3> QED
      BY <2>2, <3>1 DEF Marked, Whole
  <2>4. RollbackKnows(3)'
    BY <1>0, <1>2, <2>2, <2>3 DEF RollbackKnows, Recoverable, Removed, Restored, Synced, Aside, Listed, Mine
  <2> QED
    BY <1>2, <2>3, <2>4
<1>3. CASE k = 3
  <2>1. Call("restore", "json")
    BY <1>3 DEF Back
  <2>2. /\ pair'["md"] = pair["md"] /\ backup'["md"] = backup["md"]
        /\ marker' = marker /\ durable'.marker = durable.marker
        /\ pair'["json"] = IF Aside("json") THEN found["json"] ELSE pair["json"]
    BY <1>3, <2>1, RestoreCall DEF Path, Elsewhere
  <2>3. Marked' /\ Whole'
    <3>1. Marked
      BY <1>3 DEF RollbackKnows
    <3> QED
      BY <2>2, <3>1 DEF Marked, Whole
  <2>4. RollbackKnows(4)'
    BY <1>0, <1>3, <2>2, <2>3 DEF RollbackKnows, Recoverable, Removed, Restored, Synced, Aside, Listed, Mine
  <2> QED
    BY <1>3, <2>3, <2>4
<1>4. CASE k = 4
  <2>1. Call("restore", "md")
    BY <1>4 DEF Back
  <2>2. /\ pair'["json"] = pair["json"] /\ backup'["json"] = backup["json"]
        /\ marker' = marker /\ durable'.marker = durable.marker
        /\ pair'["md"] = IF Aside("md") THEN found["md"] ELSE pair["md"]
    BY <1>4, <2>1, RestoreCall DEF Path, Elsewhere
  <2>3. Marked' /\ Whole'
    <3>1. Marked
      BY <1>4 DEF RollbackKnows
    <3> QED
      BY <2>2, <3>1 DEF Marked, Whole
  <2>4. RollbackKnows(5)'
    BY <1>0, <1>4, <2>2, <2>3 DEF RollbackKnows, Recoverable, Removed, Restored, Synced, Aside, Listed, Mine
  <2> QED
    BY <1>4, <2>3, <2>4
<1>5. CASE k = 5
  <2>1. Call("sync", "json")
    BY <1>5 DEF Back
  <2>2. /\ UNCHANGED <<pair, backup, marker>>
        /\ durable'.paths["json"] = {pair["json"]}
        /\ durable'.paths["md"] = durable.paths["md"]
        /\ durable'.marker = {marker}
    BY <1>5, <2>1, SyncCall DEF Path
  <2>3. Marked' /\ Whole'
    <3>1. Marked
      BY <1>5 DEF RollbackKnows
    <3> QED
      BY <2>2, <3>1 DEF Marked, Whole
  <2>4. RollbackKnows(6)'
    BY <1>0, <1>5, <2>2, <2>3 DEF RollbackKnows, Recoverable, Removed, Restored, Synced, Aside, Listed, Mine
  <2> QED
    BY <1>5, <2>3, <2>4
<1>6. CASE k = 6
  <2>1. Call("sync", "md")
    BY <1>6 DEF Back
  <2>2. /\ UNCHANGED <<pair, backup, marker>>
        /\ durable'.paths["md"] = {pair["md"]}
        /\ durable'.paths["json"] = durable.paths["json"]
        /\ durable'.marker = durable.marker
    BY <1>6, <2>1, SyncCall DEF Path
  <2>3. Marked' /\ Whole'
    <3>1. Marked
      BY <1>6 DEF RollbackKnows
    <3> QED
      BY <2>2, <3>1 DEF Marked, Whole
  <2>4. RollbackKnows(7)'
    BY <1>0, <1>6, <2>2, <2>3 DEF RollbackKnows, Recoverable, Removed, Restored, Synced, Aside, Listed, Mine
  <2> QED
    BY <1>6, <2>3, <2>4
<1>7. CASE k = 7
  <2>1. Call("unmark", "json")
    BY <1>7 DEF Back
  <2>2. /\ UNCHANGED <<pair, backup>> /\ marker' = FALSE
        /\ durable'.paths = durable.paths
    BY <1>7, <2>1, UnmarkCall DEF Path, RollbackKnows, Marked
  <2>3. RollbackKnows(8)'
    BY <1>0, <1>7, <2>2 DEF RollbackKnows, Recoverable, Removed, Restored, Synced, Aside, Listed, Mine
  <2>4. Whole'
    BY <1>7, <2>2 DEF RollbackKnows, Whole, FoundWhole, Synced, Published, Restored
  <2> QED
    BY <1>7, <2>3, <2>4
<1>8. CASE k = 8
  <2>1. Call("sync", "json")
    BY <1>8 DEF Back
  <2>2. /\ UNCHANGED <<pair, backup, marker>>
        /\ durable'.paths["json"] = {pair["json"]}
        /\ durable'.paths["md"] = durable.paths["md"]
        /\ durable'.marker = {marker}
    BY <1>8, <2>1, SyncCall DEF Path
  <2>3. RollbackKnows(9)'
    BY <1>0, <1>8, <2>2 DEF RollbackKnows, Recoverable, Removed, Restored, Synced, Aside, Listed, Mine
  <2>4. Whole'
    BY <1>8, <2>2 DEF RollbackKnows, Whole, FoundWhole, Synced, Published, Restored
  <2> QED
    BY <1>8, <2>3, <2>4
<1> QED
  BY <1>1, <1>2, <1>3, <1>4, <1>5, <1>6, <1>7, <1>8

-----------------------------------------------------------------------------
(* Steps. *)

\* What touches no report and neither begins a publication nor goes on with one.
LEMMA AwayKeepsPair ==
  ASSUME PairInv, UNCHANGED <<files, found, gaps, invocation>>, unnoted' = {},
         bench' \in {"idle", "measure", "mark", "done"},
         bench' \in {"measure", "mark"} => bench \in {"measure", "mark"},
         bench' # "idle" => bench # "idle"
  PROVE  PairInv'
<1>1. PairTypes' /\ Numbered' /\ Current'
  BY DEF PairInv, PairTypes, Numbered, Current, Mine, files
<1>2. (gaps' # {} \/ (Whole' /\ FoundWhole')) /\ Underway'
  BY DEF PairInv, Whole, FoundWhole, Underway, files
<1> QED
  BY <1>1, <1>2 DEF PairInv, Noted

\* What touches nothing of the publication.
LEMMA StillKeepsPair ==
  ASSUME PairInv, UNCHANGED <<files, found, gaps, invocation, bench, script>>
  PROVE  PairInv'
<1>1. UNCHANGED <<pair, durable, backup, marker, todo, unnoted>>
  BY DEF files, script
<1>2. PairTypes' /\ Numbered' /\ Current' /\ Noted'
  BY <1>1 DEF PairInv, PairTypes, Numbered, Current, Noted, Mine
<1>3. (gaps # {} \/ (Whole /\ FoundWhole)) => (gaps' # {} \/ (Whole' /\ FoundWhole'))
  BY <1>1 DEF Whole, FoundWhole
<1>4. \A k \in 1..9 : PublishKnows(k)' = PublishKnows(k) /\ RollbackKnows(k)' = RollbackKnows(k)
  BY <1>1 DEF PublishKnows, RollbackKnows, Recoverable, Removed, Restored, Published, Synced,
     Marked, Aside, Mine
<1>5. Underway'
  BY <1>1, <1>4 DEF PairInv, Underway
<1> QED
  BY <1>2, <1>3, <1>5 DEF PairInv

\* A run looks at what is there.
LEMMA BeginKeepsPair ==
  ASSUME PairInv, Begin PROVE PairInv'
<1>1. /\ bench = "idle" /\ invocation' = invocation + 1 /\ found' = pair
      /\ UNCHANGED <<pair, durable, backup, marker, gaps>>
      /\ bench' \in {"measure", "idle"} /\ unnoted' \in {unnoted, {}}
  BY DEF Begin, Abort, files, script
<1>2. PairTypes' /\ Numbered' /\ Current'
  <2>1. \A p \in Path : pair[p] <= invocation'
    BY <1>1 DEF PairInv, PairTypes, Numbered, Current, Mine
  <2>2. \A p \in Path : \A r \in durable.paths[p] : r \in Nat /\ r <= invocation + 1
    BY DEF PairInv, PairTypes, Numbered, Mine
  <2> QED
    BY <1>1, <2>1, <2>2 DEF PairInv, PairTypes, Numbered, Current, Mine
<1>3. (gaps' # {} \/ (Whole' /\ FoundWhole')) /\ Underway' /\ Noted'
  BY <1>1 DEF PairInv, Whole, FoundWhole, Underway, Noted
<1> QED
  BY <1>2, <1>3 DEF PairInv

\* The marker is there before anything is moved.
LEMMA MarkKeepsPair ==
  ASSUME PairInv, Mark PROVE PairInv'
<1>1. /\ bench = "mark" /\ UNCHANGED <<pair, backup, found, gaps, invocation>>
      /\ durable'.paths = durable.paths /\ marker' \in durable'.marker
      /\ durable' \in [paths : [Path -> SUBSET Nat], marker : SUBSET BOOLEAN]
      /\ marker' \in BOOLEAN
  <2>1. /\ bench = "mark" /\ UNCHANGED <<pair, backup, found, gaps, invocation>>
    BY DEF Mark, setting
  <2>2. CASE marker /\ Abort /\ UNCHANGED <<marker, durable, faults>>
    BY <2>1, <2>2 DEF PairInv, PairTypes, Current
  <2>3. CASE marker' = TRUE /\ durable' = [durable EXCEPT !.marker = {TRUE}]
    BY <2>1, <2>3 DEF PairInv, PairTypes
  <2>4. CASE marker' = TRUE /\ durable' = [durable EXCEPT !.marker = {FALSE, TRUE}]
    BY <2>1, <2>4 DEF PairInv, PairTypes
  <2> QED
    BY <2>1, <2>2, <2>3, <2>4 DEF Mark
<1>2. PairTypes' /\ Numbered' /\ Current' /\ Noted'
  <2>1. unnoted = {} /\ unnoted' = {}
    BY <1>1 DEF PairInv, Noted, Mark, Abort
  <2> QED
    BY <1>1, <2>1 DEF PairInv, PairTypes, Numbered, Current, Mine, Noted
<1>3. ASSUME gaps = {} PROVE Whole' /\ FoundWhole' /\ Underway'
  <2>1. Whole /\ FoundWhole
    BY <1>3 DEF PairInv
  <2>2. CASE bench' = "publish"
    <3>1. /\ ~marker /\ marker' = TRUE /\ todo' = Script
          /\ durable' = [durable EXCEPT !.marker = {TRUE}]
      BY <1>1, <2>2 DEF Mark, Abort
    <3>2. FALSE \in durable.marker
      BY <3>1 DEF PairInv, PairTypes, Current
    <3>3. pair["json"] = pair["md"] /\ found = pair
      BY <1>1, <2>1, <3>2 DEF Whole, FoundWhole, PairInv, Current, Path
    <3>4. durable'.marker = {TRUE} /\ marker'
      BY <3>1 DEF PairInv, PairTypes
    <3>5. Marked' /\ Whole'
      BY <3>4 DEF Marked, Whole
    <3>6. PublishKnows(1)'
      BY <1>1, <3>3, <3>5 DEF PublishKnows, Recoverable, Restored
    <3>7. todo' = From(Script, 1)
      BY <3>1, AllCalls
    <3>8. Underway'
      BY <2>2, <3>6, <3>7 DEF Underway
    <3> QED
      BY <1>1, <2>2, <3>3, <3>5, <3>8 DEF FoundWhole
  <2>3. CASE bench' # "publish"
    <3>1. bench' = "idle"
      BY <2>3 DEF Mark, Abort
    <3>2. marker \/ FALSE \in durable.marker
      BY DEF PairInv, PairTypes, Current
    <3>3. Whole'
      BY <1>1, <2>1, <3>1, <3>2 DEF Mark, Whole
    <3> QED
      BY <3>1, <3>3 DEF FoundWhole, Underway
  <2> QED
    BY <2>2, <2>3
<1>4. ASSUME gaps # {} PROVE Underway'
  <2>1. bench' = "publish" => todo' = From(Script, 1)
    BY <1>1, AllCalls DEF Mark, Abort
  <2>2. bench' # "rollback" /\ gaps' # {}
    BY <1>1, <1>4 DEF Mark, Abort
  <2> QED
    BY <2>1, <2>2 DEF Underway
<1> QED
  BY <1>1, <1>2, <1>3, <1>4 DEF PairInv

\* Call by call.
LEMMA StepKeepsPair ==
  ASSUME PairInv, PairStep PROVE PairInv'
<1>1. /\ bench \in {"publish", "rollback"} /\ todo # <<>>
      /\ Call(Head(todo)[1], Head(todo)[2]) /\ todo' = Tail(todo)
      /\ UNCHANGED <<bench, invocation, found, gaps, unnoted>>
  BY DEF PairStep, setting
<1>2. ASSUME NEW s \in {Script, Back}, NEW k \in 1..9, todo = From(s, k)
      PROVE  /\ k \in 1..8 /\ Call(s[k][1], s[k][2]) /\ todo' = From(s, k + 1)
             /\ PairTypes' /\ Numbered' /\ Current' /\ Noted'
  <2>1. k \in 1..8
    BY <1>1, <1>2, AllCalls
  <2>2. Head(todo) = s[k] /\ todo' = From(s, k + 1) /\ s[k] \in Calls
    BY <1>1, <1>2, <2>1, NextCall, Scripts, ElementOfSeq
  <2>3. s[k][2] \in Path
    BY <2>2 DEF Calls
  <2> QED
    BY <1>1, <2>1, <2>2, <2>3, CallTypes DEF PairInv, Noted
<1>3. CASE bench = "publish"
  <2>1. PICK k \in 1..9 : todo = From(Script, k) /\ (gaps # {} \/ PublishKnows(k))
    BY <1>3 DEF PairInv, Underway
  <2>2. /\ k \in 1..8 /\ Call(Script[k][1], Script[k][2]) /\ todo' = From(Script, k + 1)
        /\ PairTypes' /\ Numbered' /\ Current' /\ Noted'
    BY <1>2, <2>1
  <2>3. gaps = {} => PublishKnows(k + 1)' /\ Whole'
    BY <1>1, <1>3, <2>1, <2>2, PublishCall DEF PairInv, Noted
  <2>4. k + 1 \in 1..9 /\ gaps' = gaps /\ bench' = "publish"
    BY <1>1, <1>3, <2>2
  <2>5. Underway'
    BY <2>2, <2>3, <2>4 DEF Underway
  <2>6. gaps = {} => FoundWhole'
    BY <1>1, <1>3 DEF PairInv, FoundWhole
  <2> QED
    BY <2>2, <2>3, <2>4, <2>5, <2>6 DEF PairInv
<1>4. CASE bench = "rollback"
  <2>1. PICK k \in 1..9 : todo = From(Back, k) /\ (gaps # {} \/ RollbackKnows(k))
    BY <1>4 DEF PairInv, Underway
  <2>2. /\ k \in 1..8 /\ Call(Back[k][1], Back[k][2]) /\ todo' = From(Back, k + 1)
        /\ PairTypes' /\ Numbered' /\ Current' /\ Noted'
    BY <1>2, <2>1
  <2>3. gaps = {} => RollbackKnows(k + 1)' /\ Whole'
    BY <1>1, <1>4, <2>1, <2>2, RollbackCall DEF PairInv
  <2>4. k + 1 \in 1..9 /\ gaps' = gaps /\ bench' = "rollback"
    BY <1>1, <1>4, <2>2
  <2>5. Underway'
    BY <2>2, <2>3, <2>4 DEF Underway
  <2>6. gaps = {} => FoundWhole'
    BY <1>1, <1>4 DEF PairInv, FoundWhole
  <2> QED
    BY <2>2, <2>3, <2>4, <2>5, <2>6 DEF PairInv
<1> QED
  BY <1>1, <1>3, <1>4

\* A rollback begins with what the publication left, and under the marker or late.
LEMMA FailKeepsPair ==
  ASSUME PairInv, PairFails PROVE PairInv'
<1>1. /\ bench = "publish" /\ bench' = "rollback" /\ todo' = Back
      /\ gaps' = gaps \cup (IF marker THEN {} ELSE {"late"})
      /\ UNCHANGED <<pair, durable, backup, marker, found, invocation, unnoted>>
  BY DEF PairFails, Rollback, setting, files
<1>2. PairTypes' /\ Numbered' /\ Current' /\ Noted'
  BY <1>1 DEF PairInv, PairTypes, Numbered, Current, Mine, Noted
<1>3. ASSUME gaps' = {} PROVE Whole' /\ FoundWhole' /\ RollbackKnows(1)'
  <2>1. gaps = {} /\ marker /\ unnoted = {}
    BY <1>1, <1>3 DEF PairInv, Noted
  <2>2. PICK k \in 1..9 : todo = From(Script, k) /\ PublishKnows(k)
    BY <1>1, <2>1 DEF PairInv, Underway
  <2>3. Marked /\ \A p \in Path : Recoverable(p)
    BY <2>1, <2>2 DEF PublishKnows
  <2>4. RollbackKnows(1)'
    BY <1>1, <2>1, <2>3 DEF RollbackKnows, Marked, Recoverable, Aside, Mine
  <2> QED
    BY <1>1, <2>1, <2>4 DEF PairInv, Whole, FoundWhole
<1>4. Underway'
  <2>1. todo' = From(Back, 1)
    BY <1>1, AllCalls
  <2> QED
    BY <1>1, <1>3, <2>1 DEF Underway
<1> QED
  BY <1>2, <1>3, <1>4 DEF PairInv

\* An interrupt between a rename and its note leaves a gap, or a new report that the one it
\* replaced will overwrite.
LEMMA SlipKeepsPair ==
  ASSUME PairInv, PairSlips PROVE PairInv'
<1>1. PICK op \in {"aside", "publish"}, p \in Path :
        /\ Head(todo) = <<op, p>> /\ Call(op, p) /\ unnoted' = {<<op, p>>}
        /\ gaps' = gaps \cup (IF op = "aside" \/ found[p] = 0 THEN {"unnoted"} ELSE {})
  BY DEF PairSlips
<1>2. /\ bench = "publish" /\ todo # <<>> /\ bench' = "rollback" /\ todo' = Back
      /\ UNCHANGED <<found, invocation>>
  BY DEF PairSlips, Rollback, setting
<1>3. PairTypes' /\ Numbered' /\ Current' /\ Noted'
  BY <1>1, <1>2, CallTypes DEF PairInv, Noted
<1>4. ASSUME gaps' = {} PROVE Whole' /\ FoundWhole' /\ RollbackKnows(1)'
  <2>1. gaps = {} /\ op = "publish" /\ found[p] # 0
    BY <1>1, <1>4
  <2>2. PICK k \in 1..9 : todo = From(Script, k) /\ PublishKnows(k)
    BY <1>2, <2>1 DEF PairInv, Underway
  <2>3. k \in 1..8 /\ Script[k] = <<"publish", p>>
    <3>1. k \in 1..8
      BY <1>2, <2>2, AllCalls
    <3> QED
      BY <1>1, <2>1, <2>2, <3>1, NextCall
  <2>4. k = 3 \/ k = 4
    BY <2>3 DEF Script
  <2>5. Marked /\ \A q \in Path : Recoverable(q) /\ (found[q] = 0 \/ Aside(q))
    BY <2>2, <2>4 DEF PublishKnows, Path
  <2>6. /\ Elsewhere(p) /\ marker' = marker /\ durable'.marker = durable.marker
        /\ pair'[p] = Mine /\ backup' = backup /\ Mine' = Mine
    BY <1>1, <1>2, <2>1, ReportCall DEF PairInv, Mine
  <2>7. \A q \in Path : Recoverable(q)'
    BY <1>1, <1>2, <2>1, <2>5, <2>6 DEF Recoverable, Aside, Elsewhere
  <2>8. Marked' /\ Whole' /\ FoundWhole'
    BY <1>2, <2>1, <2>5, <2>6 DEF Marked, Whole, FoundWhole, PairInv
  <2> QED
    BY <1>1, <1>2, <2>1, <2>7, <2>8 DEF RollbackKnows
<1>5. Underway'
  <2>1. todo' = From(Back, 1)
    BY <1>2, AllCalls
  <2> QED
    BY <1>2, <1>4, <2>1 DEF Underway
<1> QED
  BY <1>3, <1>4, <1>5 DEF PairInv

\* The end deletes backups, which no power loss brings back.
LEMMA EndKeepsPair ==
  ASSUME PairInv, PairEnds PROVE PairInv'
<1>1. /\ backup' = [p \in Path |-> IF Aside(p) THEN 0 ELSE backup[p]]
      /\ bench \in {"publish", "rollback"} /\ bench' \in {"idle", "done"}
      /\ UNCHANGED <<pair, durable, marker, gaps, found, invocation>>
      /\ unnoted' = {} \/ (bench = "publish" /\ unnoted' = unnoted)
  BY DEF PairEnds, Abort, setting, script
<1>2. PairTypes' /\ Numbered' /\ Current' /\ Noted'
  BY <1>1 DEF PairInv, PairTypes, Numbered, Current, Mine, Noted
<1>3. (gaps' # {} \/ (Whole' /\ FoundWhole')) /\ Underway'
  BY <1>1 DEF PairInv, Whole, FoundWhole, Underway
<1> QED
  BY <1>2, <1>3 DEF PairInv

\* A power loss takes one of what is durable.
LEMMA PowerKeepsPair ==
  ASSUME PairInv, PowerIsLost PROVE PairInv'
<1>1. PICK at \in [Path -> 0..MaxInvocations + 1], there \in durable.marker :
        /\ \A p \in Path : at[p] \in durable.paths[p]
        /\ pair' = at /\ marker' = there
        /\ durable' = [paths |-> [p \in Path |-> {at[p]}], marker |-> {there}]
        /\ backup' = [p \in Path |->
                       CASE at[p] = 0 /\ Older(p) # {} -> CHOOSE r \in Older(p) : TRUE
                         [] at[p] # 0 /\ at[p] = backup[p] -> 0
                         [] OTHER -> backup[p]]
  BY DEF PowerIsLost
<1>2. bench' = "idle" /\ unnoted' = {} /\ UNCHANGED <<found, gaps, invocation>>
  BY DEF PowerIsLost, Abort, setting
<1>3. \A p \in Path : at[p] \in Nat /\ at[p] <= Mine
  BY <1>1 DEF PairInv, PairTypes, Numbered
<1>4. PairTypes'
  <2>1. pair' \in [Path -> Nat]
    BY <1>1, <1>3
  <2>2. backup' \in [Path -> Nat]
    <3>1. \A p \in Path : Older(p) \subseteq Nat
      BY DEF Older, PairInv, PairTypes
    <3>2. \A p \in Path : Older(p) # {} => (CHOOSE r \in Older(p) : TRUE) \in Nat
      BY <3>1
    <3> QED
      BY <1>1, <3>2 DEF PairInv, PairTypes
  <2>3. there \in BOOLEAN
    BY DEF PairInv, PairTypes
  <2>4. durable' \in [paths : [Path -> SUBSET Nat], marker : SUBSET BOOLEAN]
    BY <1>1, <1>3, <2>3
  <2> QED
    BY <1>1, <1>2, <2>1, <2>2, <2>3, <2>4 DEF PairInv, PairTypes
<1>5. Numbered' /\ Current' /\ Noted'
  BY <1>1, <1>2, <1>3 DEF Numbered, Current, Noted, Mine
<1>6. (gaps' # {} \/ (Whole' /\ FoundWhole')) /\ Underway'
  <2>1. Whole => Whole'
    <3> SUFFICES ASSUME Whole, FALSE \in durable'.marker PROVE at["json"] = at["md"]
      BY <1>1 DEF Whole, Path
    <3>1. there = FALSE
      BY <1>1
    <3> QED
      BY <1>1, <3>1 DEF Whole, Path
  <2> QED
    BY <1>2, <2>1 DEF PairInv, FoundWhole, Underway
<1> QED
  BY <1>4, <1>5, <1>6 DEF PairInv

-----------------------------------------------------------------------------

\* Every step keeps what is known of the reports.
LEMMA PairsKept == BenchSpec => []PairInv
<1>1. BenchInit => PairInv
  <2> SUFFICES ASSUME BenchInit PROVE PairInv
    OBVIOUS
  <2>1. PICK old \in {0, 1} :
          /\ pair = [p \in Path |-> old]
          /\ durable = [paths |-> [p \in Path |-> {old}], marker |-> {FALSE}]
    BY DEF BenchInit
  <2>2. /\ invocation = 0 /\ bench = "idle" /\ marker = FALSE /\ gaps = {} /\ unnoted = {}
        /\ found = [p \in Path |-> 0] /\ backup = [p \in Path |-> 0]
    BY DEF BenchInit
  <2>3. marker \in BOOLEAN /\ marker \in durable.marker
    BY <2>1, <2>2
  <2>4. durable \in [paths : [Path -> SUBSET Nat], marker : SUBSET BOOLEAN]
    BY <2>1
  <2>5. PairTypes
    BY <2>1, <2>2, <2>3, <2>4 DEF PairTypes
  <2>6. Numbered /\ Current
    BY <2>1, <2>2, <2>3 DEF Numbered, Current, Mine
  <2>7. Whole /\ FoundWhole /\ Underway /\ Noted
    BY <2>1, <2>2 DEF Whole, FoundWhole, Underway, Noted, Path
  <2> QED
    BY <2>5, <2>6, <2>7 DEF PairInv
<1>2. PairInv /\ [BenchNext]_benchVars => PairInv'
  <2> SUFFICES ASSUME PairInv, [BenchNext]_benchVars PROVE PairInv'
    OBVIOUS
  <2>1. CASE Edit \/ MeasureOnHost \/ MeasureInContainer \/ MeasuringFails \/ LimitMet
             \/ Conclude \/ Leave \/ BenchKilled
    <3>1. /\ UNCHANGED <<files, found, gaps, invocation>>
          /\ \/ bench' = bench /\ UNCHANGED script
             \/ bench' = "idle" /\ unnoted' = {}
             \/ bench = "measure" /\ bench' = "mark" /\ unnoted' = unnoted
      BY <2>1 DEF Edit, MeasureOnHost, MeasureInContainer, MeasuringFails, LimitMet, Conclude,
         Leave, BenchKilled, Abort, setting, script
    <3>2. CASE bench' = bench /\ UNCHANGED script
      BY <3>1, <3>2, StillKeepsPair
    <3>3. CASE \/ bench' = "idle" /\ unnoted' = {}
               \/ bench = "measure" /\ bench' = "mark" /\ unnoted' = unnoted
      BY <3>1, <3>3, AwayKeepsPair DEF PairInv, Noted
    <3> QED
      BY <3>1, <3>2, <3>3
  <2>2. CASE UNCHANGED benchVars
    BY <2>2, StillKeepsPair DEF benchVars, setting
  <2> QED
    BY <2>1, <2>2, BeginKeepsPair, MarkKeepsPair, StepKeepsPair, FailKeepsPair, SlipKeepsPair, EndKeepsPair,
       PowerKeepsPair DEF BenchNext
<1> QED
  BY <1>1, <1>2, PTL DEF BenchSpec

\* PairWhole: two reports that do not belong together, or one alone, are only left
\* under the marker or by one of the two gaps that it names, for all numbers of runs, edits
\* and faults.
THEOREM PairsWhole == BenchSpec => []PairWhole
<1>1. PairInv => PairWhole
  BY DEF PairInv, PairTypes, Current, Whole, PairWhole, Path
<1> QED
  BY <1>1, PairsKept, PTL

-----------------------------------------------------------------------------
(* What a report says. *)

\* Up to the verdict on the report a run goes through these.
Valid == {"mark", "publish", "done"}

Outcome == [output : {0, 1}, of : Nat]

ReportTypes ==
  /\ tree \in Nat /\ invocation \in Nat
  /\ quirk \in [1..Cells -> {"none", "unsteady", "ids"}]
  /\ outcomes \in Seq(Outcome)
  /\ bench = "idle" => outcomes = <<>>

\* What is measured is of a tree from the first manifest on, and of the cell in turn.
Measured ==
  bench \in {"measure"} \cup Valid =>
    /\ manifest \in Nat /\ manifest <= tree
    /\ options.containers => options.built = manifest
    /\ UniqueIds(Combined(options.workload.train, options.workload.dev).episodes)
    /\ Len(outcomes) <= AllJobs
    /\ \A j \in 1..Len(outcomes) :
         /\ outcomes[j].output \in Outputs(CellOf(j), Round(j))
         /\ outcomes[j].of \in manifest..tree

\* What was concluded when the tree was read again.
Concluded ==
  bench \in Valid =>
    /\ Len(outcomes) = AllJobs /\ OfficialValid
    /\ \A j \in 1..Len(outcomes) : outcomes[j].of = manifest

\* What the publication has laid down before its k-th call, whether or not an earlier one
\* left a gap.
LaidDown(k) == (k > 3 => Published("json")) /\ (k > 4 => Published("md"))

Laid ==
  /\ bench = "publish" => \E k \in 1..9 : todo = From(Script, k) /\ LaidDown(k)
  /\ bench = "done" => Published("json") /\ Published("md")

ReportInv == ReportTypes /\ Measured /\ Concluded /\ Laid

-----------------------------------------------------------------------------
(* Where a measurement stands in the order. *)

\* Division with remainder.
LEMMA Division ==
  ASSUME NEW n \in Nat \ {0}, NEW q \in Nat, NEW r \in 0..(n - 1)
  PROVE  (q * n + r) \div n = q /\ (q * n + r) % n = r
<1> DEFINE a == q * n + r
           d == a \div n
           m == a % n
<1>1. a \in Nat
  <2>1. q * n \in Nat
    OBVIOUS
  <2> QED
    BY <2>1
<1>2. d \in Int /\ m \in 0..(n - 1) /\ a = n * d + m
  BY <1>1
<1> HIDE DEF a, d, m
<1>3. n * (d - q) = r - m /\ n * (q - d) = m - r
  BY <1>2 DEF a
<1>4. d - q < 1
  <2> SUFFICES ASSUME d - q >= 1 PROVE FALSE
    BY <1>2
  <2>1. n * (d - q) >= n
    BY <1>2
  <2> QED
    BY <1>2, <1>3, <2>1
<1>5. q - d < 1
  <2> SUFFICES ASSUME q - d >= 1 PROVE FALSE
    BY <1>2
  <2>1. n * (q - d) >= n
    BY <1>2
  <2> QED
    BY <1>2, <1>3, <2>1
<1>6. d = q /\ m = r
  BY <1>2, <1>3, <1>4, <1>5
<1> QED
  BY <1>6 DEF a, d, m

\* The c-th cell's r-th measurement, on the host or after the Half measurements there.
Place(c, r) == (c - 1) * PerCell + r

\* A cell has at least three measurements, and the host at least those of one.
LEMMA Sizes == PerCell \in Nat /\ PerCell >= 3 /\ Half \in Nat /\ Half >= PerCell
<1>1. PerCell \in Nat /\ PerCell >= 3
  BY BenchmarkAssumption DEF PerCell
<1>2. Cells * PerCell \in Nat /\ Cells * PerCell >= PerCell
  BY <1>1, BenchmarkAssumption
<1> QED
  BY <1>1, <1>2 DEF Half

\* CellOf and Round find the cell and the round of a place.
LEMMA PlaceFound ==
  ASSUME NEW c \in 1..Cells, NEW r \in 1..PerCell, NEW h \in 0..1
  PROVE  /\ Place(c, r) \in 1..Half
         /\ CellOf(h * Half + Place(c, r)) = c /\ Round(h * Half + Place(c, r)) = r
<1> USE Sizes, BenchmarkAssumption
<1>1. Place(c, r) \in 1..Half
  <2>1. (c - 1) * PerCell \in Nat /\ c * PerCell = (c - 1) * PerCell + PerCell
    BY DEF PerCell
  <2>2. c * PerCell <= Cells * PerCell
    OBVIOUS
  <2> QED
    BY <2>1, <2>2 DEF Place, Half
<1>0. PerCell \in Nat \ {0} /\ c - 1 \in Nat /\ r - 1 \in 0..(PerCell - 1)
  OBVIOUS
<1>2. ((c - 1) * PerCell + (r - 1)) \div PerCell = c - 1
      /\ ((c - 1) * PerCell + (r - 1)) % PerCell = r - 1
  BY <1>0, Division, Zenon
<1>3. (h * Half + (Place(c, r) - 1)) % Half = Place(c, r) - 1
  BY <1>1, Division
<1>4. h * Half + Place(c, r) - 1 = h * Half + (Place(c, r) - 1)
  BY <1>1
<1>5. CellOf(h * Half + Place(c, r)) = c
  BY <1>2, <1>3, <1>4 DEF CellOf, Place
<1>6. (h * Half + (Place(c, r) - 1)) % PerCell = r - 1
  <2>1. h * Half + (Place(c, r) - 1) = (h * Cells + (c - 1)) * PerCell + (r - 1)
    BY DEF Half, Place
  <2>2. h * Cells + (c - 1) \in Nat
    OBVIOUS
  <2>3. ((h * Cells + (c - 1)) * PerCell + (r - 1)) % PerCell = r - 1
    BY <1>0, <2>2, Division, Zenon
  <2> QED
    BY <2>1, <2>3
<1> QED
  BY <1>1, <1>4, <1>5, <1>6 DEF Round

\* Every place of the order is of a cell.
LEMMA CellFound ==
  ASSUME NEW j \in Nat, j >= 1 PROVE CellOf(j) \in 1..Cells
<1> USE Sizes, BenchmarkAssumption
<1> DEFINE x == (j - 1) % Half
           d == x \div PerCell
<1>1. x \in 0..(Half - 1)
  OBVIOUS
<1>2. d \in Int /\ x = PerCell * d + (x % PerCell) /\ (x % PerCell) \in 0..(PerCell - 1)
  BY <1>1
<1> HIDE DEF x, d
<1>3. d >= 0
  <2> SUFFICES ASSUME d <= -1 PROVE FALSE
    BY <1>2
  <2>1. PerCell * d <= -PerCell
    BY <1>2
  <2> QED
    BY <1>1, <1>2, <2>1
<1>4. d < Cells
  <2> SUFFICES ASSUME d >= Cells PROVE FALSE
    BY <1>2
  <2>1. PerCell * d >= Half
    BY <1>2 DEF Half
  <2> QED
    BY <1>1, <1>2, <2>1
<1> QED
  BY <1>2, <1>3, <1>4 DEF CellOf, x, d

-----------------------------------------------------------------------------
(* Steps. *)

\* In a workload that was accepted no episode is twice.
LEMMA WorkloadUnique ==
  ASSUME NEW w \in Workloads, WorkloadLoads(w)
  PROVE  UniqueIds(Combined(w.train, w.dev).episodes)
<1>1. /\ InputTyped(w.train) /\ InputTyped(w.dev)
      /\ InputParses(w.train) /\ InputParses(w.dev)
  BY WorkloadsAssumption DEF WorkloadLoads, Materialized
<1> DEFINE a == w.train.episodes
           b == w.dev.episodes
<1>2. a \in Seq([id : STRING, shape : STRING]) /\ b \in Seq([id : STRING, shape : STRING])
  BY <1>1, Zenon DEF InputTyped
<1>3. Combined(w.train, w.dev).episodes = a \o b
  BY DEF Combined
<1>4. UniqueIds(a) /\ UniqueIds(b) /\ Ids(a) \cap Ids(b) = {}
  BY DEF WorkloadLoads, Materialized, InputParses, Combines
<1> HIDE DEF a, b
<1>5. UniqueIds(a \o b)
  <2> SUFFICES ASSUME NEW i \in 1..Len(a \o b), NEW j \in 1..Len(a \o b),
                      (a \o b)[i].id = (a \o b)[j].id
               PROVE  i = j
    BY DEF UniqueIds
  <2>1. Len(a \o b) = Len(a) + Len(b) /\ Len(a) \in Nat /\ Len(b) \in Nat
    BY <1>2
  <2>2. \A k \in 1..Len(a) : (a \o b)[k] = a[k] /\ a[k].id \in Ids(a)
    BY <1>2 DEF Ids
  <2>3. \A k \in 1..Len(a \o b) : k > Len(a) =>
          /\ k - Len(a) \in 1..Len(b) /\ (a \o b)[k] = b[k - Len(a)]
          /\ b[k - Len(a)].id \in Ids(b)
    BY <1>2, <2>1 DEF Ids
  <2>4. CASE i <= Len(a) /\ j <= Len(a)
    BY <1>4, <2>1, <2>2, <2>4 DEF UniqueIds
  <2>5. CASE i > Len(a) /\ j > Len(a)
    <3>1. i - Len(a) = j - Len(a)
      BY <1>4, <2>3, <2>5 DEF UniqueIds
    <3> QED
      BY <2>1, <3>1
  <2>6. CASE i <= Len(a) /\ j > Len(a)
    BY <1>4, <2>1, <2>2, <2>3, <2>6
  <2>7. CASE i > Len(a) /\ j <= Len(a)
    BY <1>4, <2>1, <2>2, <2>3, <2>7
  <2> QED
    BY <2>1, <2>4, <2>5, <2>6, <2>7
<1> QED
  BY <1>3, <1>5 DEF a, b

\* Who leaves, or turns to a rollback, reports nothing.
LEMMA LeavingKeepsReport ==
  ASSUME ReportInv, UNCHANGED <<tree, quirk, invocation>>,
         \/ bench' = "idle" /\ outcomes' = <<>>
         \/ bench' = "rollback" /\ outcomes' = outcomes
  PROVE  ReportInv'
<1>1. ReportTypes'
  <2>1. <<>> \in Seq(Outcome)
    OBVIOUS
  <2> QED
    BY <2>1 DEF ReportInv, ReportTypes
<1> QED
  BY <1>1 DEF ReportInv, Measured, Concluded, Laid, Valid

\* An edit leaves what was measured behind it.
LEMMA EditKeepsReport ==
  ASSUME ReportInv, Edit PROVE ReportInv'
<1> USE DEF Edit, measured, files, script
<1>1. ReportTypes'
  BY DEF ReportInv, ReportTypes
<1>2. Measured'
  <2>1. tree' = tree + 1 /\ tree \in Nat
    BY DEF ReportInv, ReportTypes
  <2>2. \A j : CellOf(j)' = CellOf(j) /\ Round(j)' = Round(j)
    BY DEF CellOf, Round, Half, PerCell
  <2>3. \A c, r : Outputs(c, r)' = Outputs(c, r)
    BY DEF Outputs
  <2>4. AllJobs' = AllJobs
    BY DEF AllJobs
  <2> SUFFICES ASSUME bench \in {"measure"} \cup Valid
      PROVE /\ manifest <= tree'
            /\ \A j \in 1..Len(outcomes) :
                 /\ outcomes[j].output \in Outputs(CellOf(j), Round(j))
                 /\ outcomes[j].of \in manifest..tree'
    BY <2>2, <2>3, <2>4 DEF ReportInv, Measured, Valid
  <2> QED
    BY <2>1 DEF ReportInv, Measured, Valid
<1>3. Concluded' /\ Laid'
  BY DEF ReportInv, Concluded, OfficialValid, AllJobs, Deterministic, Invariant, Put, Laid,
     LaidDown, Published, Mine, Valid
<1> QED
  BY <1>1, <1>2, <1>3 DEF ReportInv

\* A run that is accepted has a workload that loads, and an image of the tree there.
LEMMA BeginKeepsReport ==
  ASSUME ReportInv, Begin PROVE ReportInv'
<1>1. CASE bench' = "measure"
  <2>1. PICK o \in Request, h \in Hosts, there \in BOOLEAN, built \in 1..tree, w \in Workloads :
          /\ Accepted(o, h, there, built, w)
          /\ options' = [official |-> o.official, boundary |-> o.boundary,
                         containers |-> o.image /\ there,
                         built |-> IF o.image /\ there THEN built ELSE 0,
                         workload |-> w]
          /\ manifest' = tree /\ outcomes' = outcomes
    BY <1>1 DEF Begin, Abort
  <2>2. bench = "idle" /\ invocation' = invocation + 1 /\ UNCHANGED <<tree, quirk>>
    BY DEF Begin
  <2>3. outcomes' = <<>> /\ Len(outcomes') = 0
    BY <2>1, <2>2 DEF ReportInv, ReportTypes
  <2>4. options'.containers => options'.built = manifest'
    BY <2>1 DEF Accepted, Binds
  <2>5. UniqueIds(Combined(options'.workload.train, options'.workload.dev).episodes)
    BY <2>1, WorkloadUnique DEF Accepted
  <2>6. AllJobs' \in Nat
    BY Sizes DEF AllJobs
  <2>7. ReportTypes'
    BY <1>1, <2>2, <2>3 DEF ReportInv, ReportTypes
  <2>8. Measured'
    BY <1>1, <2>1, <2>2, <2>3, <2>4, <2>5, <2>6 DEF ReportInv, ReportTypes, Measured
  <2> QED
    BY <1>1, <2>7, <2>8 DEF ReportInv, Concluded, Laid, Valid
<1>2. CASE bench' = "idle" /\ outcomes' = <<>>
  BY <1>2 DEF Begin, ReportInv, ReportTypes, Measured, Concluded, Laid, Valid
<1> QED
  BY <1>1, <1>2 DEF Begin, Abort

\* A measurement is of the tree that is there, or of the one the image was built of,
\* which is that of the manifest.
LEMMA MeasurementKeepsReport ==
  ASSUME ReportInv, MeasureOnHost \/ MeasureInContainer PROVE ReportInv'
<1>0. /\ Measuring /\ UNCHANGED <<tree, quirk, invocation, options, bench, manifest>>
      /\ bench = "measure"
  BY DEF MeasureOnHost, MeasureInContainer, setting, Measuring
<1>1. /\ outcomes \in Seq(Outcome) /\ Job \in Nat /\ Job >= 1 /\ Job <= AllJobs
      /\ manifest \in Nat /\ tree \in Nat /\ manifest <= tree
  <2>1. outcomes \in Seq(Outcome) /\ Len(outcomes) \in Nat /\ AllJobs \in Nat
    BY Sizes DEF ReportInv, ReportTypes, AllJobs
  <2> QED
    BY <1>0, <2>1 DEF ReportInv, ReportTypes, Measured, Measuring, Job
<1>2. PICK r : /\ outcomes' = Append(outcomes, r)
               /\ r.output \in Outputs(CellOf(Job), Round(Job))
               /\ r \in [output : Outputs(CellOf(Job), Round(Job)), of : {tree, manifest}]
  <2>1. CASE MeasureOnHost
    BY <2>1 DEF MeasureOnHost, RunOnce
  <2>2. CASE MeasureInContainer
    <3>1. options.containers
      BY <1>1, <2>2, Sizes DEF MeasureInContainer, InContainer, AllJobs
    <3>2. options.built = manifest
      BY <1>0, <3>1 DEF ReportInv, Measured
    <3> QED
      BY <2>2, <3>2 DEF MeasureInContainer, RunContainerOnce
  <2> QED
    BY <2>1, <2>2
<1>3. r.of \in manifest..tree /\ r \in Outcome
  <2>1. CellOf(Job) \in 1..Cells
    BY <1>1, CellFound
  <2>2. Outputs(CellOf(Job), Round(Job)) \subseteq {0, 1}
    BY <2>1 DEF Outputs, ReportInv, ReportTypes
  <2> QED
    BY <1>1, <1>2, <2>2 DEF Outcome
<1>4. /\ outcomes' \in Seq(Outcome) /\ Len(outcomes') = Job
      /\ outcomes'[Job] = r /\ \A j \in 1..Len(outcomes) : outcomes'[j] = outcomes[j]
  BY <1>1, <1>2, <1>3 DEF Job
<1>5. \A j \in 1..Len(outcomes') :
        /\ outcomes'[j].output \in Outputs(CellOf(j), Round(j))
        /\ outcomes'[j].of \in manifest..tree
  <2>1. \A j \in 1..Len(outcomes') : j \in 1..Len(outcomes) \/ j = Job
    BY <1>1, <1>4 DEF Job
  <2> QED
    BY <1>0, <1>2, <1>3, <1>4, <2>1 DEF ReportInv, Measured
<1>6. /\ \A j : CellOf(j)' = CellOf(j) /\ Round(j)' = Round(j)
      /\ AllJobs' = AllJobs
      /\ \A c, k : Outputs(c, k)' = Outputs(c, k)
  BY <1>0 DEF CellOf, Round, Half, PerCell, AllJobs, Outputs
<1>7. Measured'
  BY <1>0, <1>1, <1>4, <1>5, <1>6 DEF ReportInv, Measured
<1> QED
  BY <1>0, <1>4, <1>7 DEF ReportInv, ReportTypes, Concluded, Laid, Valid

\* When the tree is the one of the manifest again, it was so all the time.
LEMMA ConcludeKeepsReport ==
  ASSUME ReportInv, Conclude PROVE ReportInv'
<1>1. CASE Abort
  BY <1>1, LeavingKeepsReport DEF Abort, Conclude, setting
<1>2. CASE OfficialValid /\ TreeSame /\ bench' = "mark" /\ UNCHANGED <<measured, script>>
  <2>1. /\ bench = "measure" /\ Len(outcomes) = AllJobs
        /\ UNCHANGED <<tree, quirk, invocation, options, manifest, outcomes>>
    BY <1>2 DEF Conclude, setting, measured
  <2>2. \A j \in 1..Len(outcomes) : outcomes[j].of = manifest
    BY <1>2, <2>1 DEF ReportInv, ReportTypes, Measured, TreeSame
  <2>3. OfficialValid'
    BY <1>2, <2>1 DEF OfficialValid, AllJobs, Deterministic, Invariant, Put, Round, PerCell
  <2>4. Concluded'
    BY <2>1, <2>2, <2>3 DEF Concluded, AllJobs
  <2>5. ReportTypes' /\ Laid'
    BY <1>2, <2>1 DEF ReportInv, ReportTypes, Laid
  <2>6. \A c, k : Outputs(c, k)' = Outputs(c, k)
    BY <2>1 DEF Outputs
  <2>7. Measured'
    BY <2>1, <2>6 DEF ReportInv, Measured, AllJobs, CellOf, Round
  <2> QED
    BY <2>4, <2>5, <2>7 DEF ReportInv
<1> QED
  BY <1>1, <1>2 DEF Conclude

\* What was measured and concluded stays while reports are laid down.
LEMMA ReportStands ==
  ASSUME ReportInv, UNCHANGED <<setting, measured>>, bench \in Valid, bench' \in Valid
  PROVE  ReportTypes' /\ Measured' /\ Concluded'
<1>1. UNCHANGED <<tree, quirk, invocation, options, manifest, outcomes>>
  BY DEF setting, measured
<1>2. ReportTypes'
  BY <1>1 DEF ReportInv, ReportTypes, Valid
<1>3. \A c, k : Outputs(c, k)' = Outputs(c, k)
  BY <1>1 DEF Outputs
<1>4. Measured'
  BY <1>1, <1>3 DEF ReportInv, Measured, AllJobs
<1>5. OfficialValid' = OfficialValid
  BY <1>1 DEF OfficialValid, AllJobs, Deterministic, Invariant, Put
<1>6. Concluded'
  BY <1>1, <1>5 DEF ReportInv, Concluded, AllJobs
<1> QED
  BY <1>2, <1>4, <1>6

\* A publication begins with nothing laid down.
LEMMA MarkKeepsReport ==
  ASSUME ReportInv, Mark PROVE ReportInv'
<1>1. CASE Abort
  BY <1>1, LeavingKeepsReport DEF Abort, Mark, setting
<1>2. CASE bench' = "publish" /\ todo' = Script /\ UNCHANGED measured
  <2>1. ReportTypes' /\ Measured' /\ Concluded'
    BY <1>2, ReportStands DEF Mark, Valid
  <2>2. todo' = From(Script, 1) /\ LaidDown(1)'
    BY <1>2, AllCalls DEF LaidDown
  <2> QED
    BY <1>2, <2>1, <2>2 DEF ReportInv, Laid
<1> QED
  BY <1>1, <1>2 DEF Mark

\* Nothing that follows the two publications moves a report.
LEMMA StepKeepsReport ==
  ASSUME ReportInv, PairInv, PairStep PROVE ReportInv'
<1>1. /\ UNCHANGED <<setting, measured, bench>> /\ todo # <<>>
      /\ Call(Head(todo)[1], Head(todo)[2]) /\ todo' = Tail(todo)
  BY DEF PairStep
<1>2. CASE bench = "publish"
  <2>1. PICK k \in 1..9 : todo = From(Script, k) /\ LaidDown(k)
    BY <1>2 DEF ReportInv, Laid
  <2>2. k \in 1..8 /\ Call(Script[k][1], Script[k][2]) /\ todo' = From(Script, k + 1)
    <3>1. k \in 1..8
      BY <1>1, <2>1, AllCalls
    <3> QED
      BY <1>1, <2>1, <3>1, NextCall
  <2>3. PairTypes /\ Mine' = Mine
    BY <1>1 DEF PairInv, setting, Mine
  <2>4. LaidDown(k + 1)'
    <3>1. CASE k = 3
      <4>1. Call("publish", "json")
        BY <2>2, <3>1 DEF Script
      <4> QED
        BY <2>3, <3>1, <4>1, ReportCall DEF LaidDown, Published, Path
    <3>2. CASE k = 4
      <4>1. Call("publish", "md")
        BY <2>2, <3>2 DEF Script
      <4>2. pair'["md"] = Mine /\ pair'["json"] = pair["json"]
        BY <2>3, <4>1, ReportCall DEF Elsewhere, Path
      <4> QED
        BY <2>1, <2>3, <3>2, <4>2 DEF LaidDown, Published
    <3>3. CASE k \in 5..8
      <4>1. Call("sync", "json") \/ Call("sync", "md") \/ Call("unmark", "json")
        BY <2>2, <3>3 DEF Script
      <4>2. pair' = pair
        BY <4>1 DEF Call, files
      <4> QED
        BY <2>1, <2>3, <3>3, <4>2 DEF LaidDown, Published
    <3>4. CASE k \in 1..2
      BY <3>4 DEF LaidDown
    <3> QED
      BY <2>2, <3>1, <3>2, <3>3, <3>4
  <2>5. Laid'
    BY <1>1, <1>2, <2>2, <2>4 DEF Laid
  <2> QED
    BY <1>1, <1>2, <2>5, ReportStands DEF ReportInv, Valid
<1>3. CASE bench = "rollback"
  <2>1. UNCHANGED <<tree, quirk, invocation, outcomes>>
    BY <1>1 DEF setting, measured
  <2> QED
    BY <1>1, <1>3, <2>1, LeavingKeepsReport
<1> QED
  BY <1>2, <1>3 DEF PairStep

\* A publication that comes to its end has laid down both reports.
LEMMA EndKeepsReport ==
  ASSUME ReportInv, PairEnds PROVE ReportInv'
<1>1. CASE bench = "publish"
  <2>1. /\ bench' = "done" /\ UNCHANGED <<setting, measured, pair>> /\ todo = <<>>
    BY <1>1 DEF PairEnds
  <2>2. PICK k \in 1..9 : todo = From(Script, k) /\ LaidDown(k)
    BY <1>1 DEF ReportInv, Laid
  <2>3. k = 9
    <3>1. k \in 1..8 => From(Script, k) # <<>>
      BY NextCall
    <3> QED
      BY <2>1, <2>2, <3>1
  <2>4. Laid'
    BY <2>1, <2>2, <2>3 DEF Laid, LaidDown, Published, Mine, setting
  <2> QED
    BY <1>1, <2>1, <2>4, ReportStands DEF ReportInv, Valid
<1>2. CASE bench # "publish"
  BY <1>2, LeavingKeepsReport DEF PairEnds, Abort, setting
<1> QED
  BY <1>1, <1>2

\* A power loss and every failure end the run.
LEMMA ReportStep ==
  ASSUME ReportInv, PairInv, [BenchNext]_benchVars PROVE ReportInv'
<1>1. CASE UNCHANGED benchVars
  <2>1. UNCHANGED <<setting, measured, bench, pair, todo>>
    BY <1>1 DEF benchVars, files, script
  <2>2. UNCHANGED <<tree, quirk, invocation, options, manifest, outcomes>>
    BY <2>1 DEF setting, measured
  <2>3. ReportTypes' /\ Laid'
    BY <2>1, <2>2 DEF ReportInv, ReportTypes, Laid, LaidDown, Published, Mine
  <2>4. \A c, k : Outputs(c, k)' = Outputs(c, k)
    BY <2>2 DEF Outputs
  <2>5. Measured'
    BY <2>1, <2>2, <2>4 DEF ReportInv, Measured, AllJobs
  <2>6. Concluded'
    BY <2>1, <2>2
    DEF ReportInv, Concluded, OfficialValid, AllJobs, Deterministic, Invariant, Put
  <2> QED
    BY <2>3, <2>5, <2>6 DEF ReportInv
<1>2. CASE MeasuringFails \/ LimitMet \/ PairFails \/ PairSlips \/ Leave \/ BenchKilled \/ PowerIsLost
  BY <1>2, LeavingKeepsReport
  DEF MeasuringFails, LimitMet, PairFails, PairSlips, Rollback, Leave, BenchKilled, PowerIsLost,
      Abort, setting, measured
<1> QED
  BY <1>1, <1>2, EditKeepsReport, BeginKeepsReport, MeasurementKeepsReport,
     ConcludeKeepsReport, MarkKeepsReport, StepKeepsReport, EndKeepsReport DEF BenchNext

\* A cell that goes by the IDs does not pass for invariant, on the host (h = 0) or in
\* containers (h = 1).
LEMMA IdsNoticed ==
  ASSUME ReportTypes, Measured, bench = "done", Len(outcomes) = AllJobs,
         NEW c \in 1..Cells, NEW h \in 0..1, h = 1 => options.containers,
         Invariant(h * Half + Place(c, 1))
  PROVE  quirk[c] # "ids" /\ h * Half + Place(c, 1) \in 1..AllJobs
<1> DEFINE first == h * Half + Place(c, 1)
<1> USE Sizes
<1>1. \A r \in 1..PerCell :
        /\ h * Half + Place(c, r) \in 1..AllJobs
        /\ CellOf(h * Half + Place(c, r)) = c /\ Round(h * Half + Place(c, r)) = r
  <2> SUFFICES ASSUME NEW r \in 1..PerCell
               PROVE  /\ h * Half + Place(c, r) \in 1..AllJobs
                      /\ CellOf(h * Half + Place(c, r)) = c
                      /\ Round(h * Half + Place(c, r)) = r
    OBVIOUS
  <2>1. Place(c, r) \in 1..Half
    BY PlaceFound
  <2>2. h * Half + Place(c, r) \in 1..AllJobs
    <3>1. CASE h = 0
      BY <2>1, <3>1 DEF AllJobs
    <3>2. CASE h = 1
      BY <2>1, <3>2 DEF AllJobs
    <3> QED
      BY <3>1, <3>2
  <2> QED
    BY <2>2, PlaceFound
<1>2. \A r \in 1..PerCell : first - Round(first) + r = h * Half + Place(c, r)
  <2>1. Round(first) = 1 /\ (c - 1) * PerCell \in Nat /\ h * Half \in Nat
    BY <1>1
  <2> QED
    BY <2>1 DEF Place
<1> HIDE DEF first
<1>3. \A r \in 1..PerCell : Put(first, r) \in Outputs(c, r)
  <2> SUFFICES ASSUME NEW r \in 1..PerCell PROVE Put(first, r) \in Outputs(c, r)
    OBVIOUS
  <2>1. outcomes[h * Half + Place(c, r)].output \in Outputs(c, r)
    BY <1>1 DEF Measured, Valid
  <2> QED
    BY <1>2, <2>1 DEF Put
<1>4. Put(first, PerCell - 1) = Put(first, PerCell)
  BY DEF Invariant, first
<1>5. ASSUME quirk[c] = "ids" PROVE FALSE
  <2>1. Outputs(c, PerCell - 1) = {0} /\ Outputs(c, PerCell) = {1}
    BY <1>5 DEF Outputs
  <2> QED
    BY <1>3, <1>4, <2>1
<1> QED
  BY <1>1, <1>5

\* ReportTrue: a published report is of the tree it names and of a workload without a
\* repeated ID, and neither it nor its final limits are of a router that goes by the IDs.
THEOREM ReportsTrue == BenchSpec => []ReportTrue
<1>1. BenchInit => ReportInv
  BY DEF BenchInit, ReportInv, ReportTypes, Measured, Concluded, Laid, Valid
<1>2. ReportInv /\ PairInv /\ [BenchNext]_benchVars => ReportInv'
  BY ReportStep
<1>3. ReportInv /\ PairInv => ReportTrue
  <2> SUFFICES ASSUME ReportInv, PairInv, bench = "done"
               PROVE  /\ \A j \in 1..Len(outcomes) : outcomes[j].of = manifest
                      /\ UniqueIds(Combined(options.workload.train,
                                            options.workload.dev).episodes)
                      /\ pair = [p \in Path |-> invocation + 1]
                      /\ options.official => \A c \in 1..Cells : quirk[c] # "ids"
                      /\ Frozen => \A c \in Representative : quirk[c] # "ids"
    BY DEF ReportTrue
  <2>1. ReportTypes /\ Measured /\ Concluded /\ Len(outcomes) = AllJobs
    BY DEF ReportInv, Concluded, Valid
  <2>2. pair = [p \in Path |-> invocation + 1]
    <3>1. pair["json"] = Mine /\ pair["md"] = Mine /\ pair \in [Path -> Nat]
      BY DEF ReportInv, Laid, Published, PairInv, PairTypes
    <3> QED
      BY <3>1 DEF Path, Mine
  <2>3. ASSUME options.official, NEW c \in 1..Cells PROVE quirk[c] # "ids"
    <3>1. Place(c, 1) \in 1..Half /\ 0 * Half + Place(c, 1) = Place(c, 1)
      BY PlaceFound, Sizes
    <3>2. Place(c, 1) \in 1..AllJobs
      BY <3>1, Sizes DEF AllJobs
    <3>3. Invariant(0 * Half + Place(c, 1))
      BY <2>1, <2>3, <3>1, <3>2 DEF Concluded, Valid, OfficialValid
    <3> QED
      BY <2>1, <3>3, IdsNoticed
  <2>4. ASSUME Frozen, NEW c \in Representative PROVE quirk[c] # "ids"
    <3>1. c \in 1..Cells
      BY BenchmarkAssumption
    <3>2. Place(c, 1) \in 1..Half /\ 1 * Half + Place(c, 1) = Half + Place(c, 1)
          /\ CellOf(1 * Half + Place(c, 1)) = c
      BY <3>1, PlaceFound, Sizes
    <3>3. Half + Place(c, 1) \in 1..AllJobs /\ InContainer(Half + Place(c, 1))
      BY <2>4, <3>2, Sizes DEF Frozen, AllJobs, InContainer
    <3>4. Invariant(1 * Half + Place(c, 1))
      BY <2>4, <3>2, <3>3 DEF Frozen
    <3> QED
      BY <2>1, <2>4, <3>1, <3>4, IdsNoticed DEF Frozen
  <2> QED
    BY <2>1, <2>2, <2>3, <2>4 DEF Measured, Concluded, Valid
<1> QED
  BY <1>1, <1>2, <1>3, PairsKept, PTL DEF BenchSpec
=============================================================================
