--------------------------- MODULE ResourceLedger ---------------------------
(***************************************************************************)
(* What the resource journal of runtime.py promises, without saying how:   *)
(* one intent at a time is on record for an output directory, and only the *)
(* attempt on record may have, or still get, resources of Docker.          *)
(***************************************************************************)
CONSTANTS Token, NoToken

VARIABLES
  intent,    \* the attempt on record, or NoToken
  exposed    \* the attempts that own, or may still be given, a resource

ledger == <<intent, exposed>>

Init == intent = NoToken /\ exposed = {}

\* An intent is recorded, replaced or withdrawn while nobody is exposed.
Record ==
  /\ exposed = {} /\ exposed' = {}
  /\ intent' \in Token \cup {NoToken}

\* Resources come and go for the attempt on record alone.
Expose ==
  /\ exposed' \subseteq {intent} \ {NoToken}
  /\ intent' = intent

Next == Record \/ Expose

Spec == Init /\ [][Next]_ledger
=============================================================================
