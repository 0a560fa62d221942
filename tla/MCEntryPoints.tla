----------------------------- MODULE MCEntryPoints -----------------------------
(***************************************************************************)
(* Calls of the entry points, and what becomes of the numbers one of them, *)
(* public_link, has read: the ids in its link.                             *)
(***************************************************************************)
EXTENDS EntryPoints, SmallFloats

CONSTANT Bits

\* An int64_t holds more than the integers a double has all of.
ASSUME BitsAssumption == Bits \in Nat /\ Significand + 2 <= Bits

VARIABLES given, float, int, payload, linked    \* of LinkPayload
entryVars == <<fn, args, strict, at, outcome, refusal, override>>
linkVars  == <<given, float, int, payload, linked>>

\* Every id that fits, and some that do not.
Passing == -Pow2[Bits] - 4 .. Pow2[Bits] + 4
L == INSTANCE LinkPayload WITH Given <- Passing

MCInit == Init /\ L!Init
\* The numbers are those of a call, which are converted when it is performed.
EntryStep == Next /\ UNCHANGED linkVars
IdsStep   == /\ fn = "public_link" /\ outcome = "performed"
             /\ L!Next /\ UNCHANGED entryVars
MCSpec == MCInit /\ [][EntryStep \/ IdsStep]_<<entryVars, linkVars>>

\* What LinkPayload says of a link.
LinkIsForIds == L!LinkIsForIds
=============================================================================
