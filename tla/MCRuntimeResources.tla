------------------------ MODULE MCRuntimeResources ------------------------
(* RuntimeResources on small instances. *)
EXTENDS RuntimeInvariant, TLC

CONSTANTS t1, e1

\* One helper name of the first attempt may belong to somebody else.
MCTakenNames == {[eng |-> e1, tok |-> t1, role |-> "helper"],
                 [eng |-> e1, tok |-> t1, role |-> "volume"]}

Symmetry == Permutations(Proc)
=============================================================================
