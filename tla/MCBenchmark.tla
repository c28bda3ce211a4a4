---------------------------- MODULE MCBenchmark ----------------------------
(***************************************************************************)
(* Workloads of Benchmark: one that loads, and then one with an ID twice,  *)
(* one that was edited, one of another length and one of other challenges. *)
(* Machines: one for an official run, and others that lack one thing.      *)
(***************************************************************************)
EXTENDS Benchmark

Episode(id) == [id |-> id, shape |-> "prompt"]

Public(split, names) ==
  [readable |-> TRUE, fields |-> TRUE, version |-> 1, challenge |-> "c", split |-> split,
   episodes |-> [i \in 1..Len(names) |-> Episode(names[i])], digest |-> split]

Entry(split, n) == [count |-> n, digest |-> split]

GoodWorkload ==
  [train |-> Public("train", <<"a", "b">>), dev |-> Public("dev", <<"c">>),
   registry |-> [train |-> Entry("train", 2), dev |-> Entry("dev", 1), challenge |-> "c"]]

MCWorkloads ==
  {GoodWorkload,
   [GoodWorkload EXCEPT !.dev = Public("dev", <<"b">>)],
   [GoodWorkload EXCEPT !.dev.digest = "edited"],
   [GoodWorkload EXCEPT !.train = Public("train", <<"a">>)],
   [GoodWorkload EXCEPT !.dev.challenge = "d"]}

GoodHost == [silicon |-> TRUE, colima |-> TRUE, daemon |-> TRUE, local |-> TRUE,
             image |-> "arm64"]

MCHosts ==
  {GoodHost}
    \cup {[GoodHost EXCEPT ![k] = FALSE] : k \in {"silicon", "colima", "daemon", "local"}}
    \cup {[GoodHost EXCEPT !.image = i] : i \in {"unknown", "amd64"}}
=============================================================================
