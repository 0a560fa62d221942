----------------------------- MODULE ResultSet -----------------------------
(***************************************************************************)
(* What a call site of the extension promises the executor, whatever       *)
(* happens inside: a call gives exactly one row and then the end of the    *)
(* set, or it gives an error and no row.  Only the executor's own doing    *)
(* (it drops the site, or another site's error aborts the query) can cut   *)
(* a set short after its row, and a site may be scanned again only after   *)
(* the end of the set.                                                     *)
(***************************************************************************)
CONSTANT Calls
VARIABLE set  \* "pending", "row", "end", "error" or "cut", per call site

Init == set = [c \in Calls |-> "pending"]

Deliver(c) == set[c] = "pending" /\ set' = [set EXCEPT ![c] = "row"]

Finish(c)  == set[c] = "row" /\ set' = [set EXCEPT ![c] = "end"]

Rescan(c)  == set[c] = "end" /\ set' = [set EXCEPT ![c] = "pending"]

Cut(c)     == set[c] = "row" /\ set' = [set EXCEPT ![c] = "cut"]

\* An error takes along the sites of the same query that are half read.
Fail(c) ==
  /\ set[c] = "pending"
  /\ \E dead \in SUBSET {d \in Calls : set[d] = "row"} :
       set' = [d \in Calls |-> IF d = c THEN "error"
                               ELSE IF d \in dead THEN "cut" ELSE set[d]]

Next == \E c \in Calls : Deliver(c) \/ Finish(c) \/ Rescan(c) \/ Cut(c) \/ Fail(c)

Spec == Init /\ [][Next]_set
=============================================================================
