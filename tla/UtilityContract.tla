-------------------------- MODULE UtilityContract --------------------------
(***************************************************************************)
(* What the driver relies on in a Utility: it is made, asked, and then has *)
(* an answer or an error; only an answer becomes a record, and that record *)
(* is the answer to the last thing asked, whatever the object did before.  *)
(* An object that threw is good for nothing but being deleted.             *)
(***************************************************************************)
CONSTANTS
  Requests,  \* what a utility can be asked, with what it was made with
  Answer,    \* [Requests -> what the SQL function should give]
  NoRequest  \* not asked yet

VARIABLES state, request, records

vars == <<state, request, records>>

Ready == {"made", "answered", "refused"}

Init == state = "unmade" /\ request = NoRequest /\ records = {}

\* The constructor may note an error, or throw.
Make ==
  /\ state = "unmade"
  /\ state' \in {"made", "refused", "threw"}
  /\ UNCHANGED <<request, records>>

Ask ==
  /\ state \in Ready
  /\ state' = "asked"
  /\ request' \in Requests
  /\ UNCHANGED records

Reply ==
  /\ state = "asked"
  /\ state' \in {"answered", "refused", "threw"}
  /\ UNCHANGED <<request, records>>

FillOutput ==
  /\ state = "answered"
  /\ records' = records \cup {Answer[request]}
  /\ UNCHANGED <<state, request>>

Delete ==
  /\ state \in Ready \cup {"threw"}
  /\ state' = "deleted"
  /\ UNCHANGED <<request, records>>

Next == Make \/ Ask \/ Reply \/ FillOutput \/ Delete

Spec == Init /\ [][Next]_vars
=============================================================================
