------------------------------ MODULE LinkPayload ------------------------------
(***************************************************************************)
(* The way of a company's and an entity's id into a public link: SQL       *)
(* passes numbers as float8, the entry point converts them to int64_t, and *)
(* Calculate puts them into the payload.  Numbers are counted in halves,   *)
(* so that some are no integers.                                           *)
(***************************************************************************)
EXTENDS SmallFloats

CONSTANTS Bits,         \* of an int64_t
          Given         \* the numbers passed, in halves

Ids == {"company_id", "entity_id"}

VARIABLES given,        \* what the caller of the SQL function passes
          float,        \* tmp_company_id, tmp_entity_id
          int,          \* company_id, entity_id
          payload,      \* object
          linked        \* "no", or how far the ids have come
vars == <<given, float, int, payload, linked>>

Int64s == -Pow2[Bits - 1] .. Pow2[Bits - 1] - 1
Truncated(h) == IF h >= 0 THEN h \div 2 ELSE -((-h) \div 2)
\* static_cast<int64_t>: undefined when the integer part does not fit.
ToInt64Narrow(h) == {((Truncated(h) + Pow2[Bits - 2]) % Pow2[Bits - 1]) - Pow2[Bits - 2]}  \* fault: an int32_t
ToInt64(h) == IF Truncated(h) \in Int64s THEN {Truncated(h)} ELSE Int64s

Init == /\ given = [i \in Ids |-> 0] /\ float = given /\ int = given /\ payload = given
        /\ linked = "no"

\* The declaration takes float8: what is passed is cast to it.
Receive == /\ linked = "no" /\ linked' = "received"
           /\ given' \in [Ids -> Given]
           /\ float' = [i \in Ids |-> Rounded(given'[i])]
           /\ UNCHANGED <<int, payload>>
Convert == /\ linked = "received" /\ linked' = "converted"
           /\ \E c \in ToInt64(float["company_id"]), e \in ToInt64(float["entity_id"]) :
                int' = [i \in Ids |-> IF i = "company_id" THEN c ELSE e]
           /\ UNCHANGED <<given, float, payload>>
Calculate == /\ linked = "converted" /\ linked' = "yes"
             /\ payload' = int
             /\ UNCHANGED <<given, float, int>>
Next == Receive \/ Convert \/ Calculate
Spec == Init /\ [][Next]_vars

-----------------------------------------------------------------------------
(***************************************************************************)
(* A link is for the company and the entity it was asked for, when their   *)
(* ids are integers that a float8 represents (up to 2^53) and an int64_t   *)
(* holds; between, a link may be for another id, the nearest float, but    *)
(* the id of the one argument is never that of the other.                  *)
(***************************************************************************)
LinkIsForIds ==
  linked = "yes" => \A i \in Ids :
     LET wanted == given[i] \div 2
     IN  /\ (given[i] = 2 * wanted /\ wanted \in -Pow2[Significand] .. Pow2[Significand])
               => payload[i] = wanted
         /\ Truncated(Rounded(given[i])) \in Int64s
               => payload[i] = Truncated(Rounded(given[i]))
=============================================================================
