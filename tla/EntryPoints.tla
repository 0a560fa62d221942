---------------------------- MODULE EntryPoints ----------------------------
(***************************************************************************)
(* The entry points before they call the driver: each tests the number of  *)
(* its arguments and some of them for NULL, and reads them by position, in *)
(* an order of its own.  An entry point is the list of those steps; a call *)
(* of one goes through the list until it is refused, or performed, or the  *)
(* backend crashes on what it read.                                        *)
(*                                                                         *)
(* How many arguments a call receives, and whether they may be NULL, is up *)
(* to the declaration in SQL; a STRICT function is not called with NULLs.  *)
(* Positions count from 0, as in the code.                                 *)
(***************************************************************************)
EXTENDS Naturals, Sequences, FiniteSets

CONSTANT MaxExtra  \* bound on arguments received beyond those an entry reads

ASSUME EntryPointsAssumption == MaxExtra \in Nat

VARIABLES
  fn,        \* the function called
  args,      \* what the call receives, by kind
  strict,    \* the function is declared STRICT
  at,        \* the next step of the entry point
  outcome,   \* "receiving" and "running" on the way, then how it ended
  refusal,   \* the step that refused the call
  override   \* spellout_override, when it is not empty: where it is from

vars == <<fn, args, strict, at, outcome, refusal, override>>

-----------------------------------------------------------------------------
\* The steps: tests of the number of arguments; a test of one for NULL,
\* with the name its message gives it; reads, with the name of the variable.
Exactly(n)       == [op |-> "exactly", count |-> n, arg |-> 0, name |-> ""]
AtLeast(n)       == [op |-> "at least", count |-> n, arg |-> 0, name |-> ""]
NotNull(i, name) == [op |-> "not null", count |-> 0, arg |-> i, name |-> name]
Text(i, name)    == [op |-> "text", count |-> 0, arg |-> i, name |-> name]
Float(i, name)   == [op |-> "float", count |-> 0, arg |-> i, name |-> name]
Array(i, name)   == [op |-> "array", count |-> 0, arg |-> i, name |-> name]
\* Read when the call has n arguments and this one is not NULL.
Override(n, i)   == [op |-> "override", count |-> n, arg |-> i, name |-> "override"]

(* The tests of invoice_hash and public_link for a nullptr come after      *)
(* PG_GETARG_TEXT_P has used the pointer, and never refuse anything.       *)
InvoiceHashSteps == <<Exactly(2), Text(0, "pem uri"), Text(1, "payload")>>

PublicLinkSteps ==
  <<Exactly(6), NotNull(1, "company id"), NotNull(3, "entity id"),
    Text(0, "base url"), Float(1, "company id"), Text(2, "entity type"),
    Float(3, "entity id"), Text(4, "key"), Text(5, "iv")>>

NumberSpelloutSteps ==
  <<AtLeast(2), Text(0, "locale"), Float(1, "number"), Override(2, 2)>>

\* Fault: the number of arguments the override takes is off by one.
CurrencySpelloutStepsOffByOne ==
  <<AtLeast(8), Text(0, "locale"), Float(1, "major"),
    Text(2, "major singular"), Text(3, "major plural"), Float(4, "minor"),
    Text(5, "minor singular"), Text(6, "minor plural"), Text(7, "format"),
    Override(8, 8)>>

CurrencySpelloutSteps ==
  <<AtLeast(8), Text(0, "locale"), Float(1, "major"),
    Text(2, "major singular"), Text(3, "major plural"), Float(4, "minor"),
    Text(5, "minor singular"), Text(6, "minor plural"), Text(7, "format"),
    Override(9, 8)>>

FormatNumberSteps ==
  <<AtLeast(3), NotNull(0, "value"), NotNull(1, "pattern"), NotNull(2, "locale"),
    Text(0, "locale"), Float(1, "value"), Text(2, "pattern")>>

FormatMessageSteps ==
  <<AtLeast(3), NotNull(0, "locale"), NotNull(1, "key"), NotNull(2, "args"),
    Text(0, "locale"), Text(1, "key"), Array(2, "args")>>

VersionSteps == <<>>

Entries == {"invoice_hash", "public_link", "number_spellout", "currency_spellout",
            "format_number", "format_message", "version"}

StepsOf(f) ==
  CASE f = "invoice_hash"      -> InvoiceHashSteps
    [] f = "public_link"       -> PublicLinkSteps
    [] f = "number_spellout"   -> NumberSpelloutSteps
    [] f = "currency_spellout" -> CurrencySpelloutSteps
    [] f = "format_number"     -> FormatNumberSteps
    [] f = "format_message"    -> FormatMessageSteps
    [] f = "version"           -> VersionSteps

Reads == {"text", "float", "array", "override"}
Positions(f) ==
  {StepsOf(f)[k].arg : k \in {j \in DOMAIN StepsOf(f) : StepsOf(f)[j].op \in Reads}}
Arity(f) == Cardinality(Positions(f))

\* What an argument can be, after the way its position is read.
Kinds == [text |-> {"null", "text"}, float |-> {"null", "number"},
          override |-> {"null", "empty", "text"},
          array |-> {"null", "no texts", "texts", "numbers", "matrix", "texts and nulls"}]

KindsAt(f, i) ==
  IF i \in Positions(f)
  THEN UNION {Kinds[op] : op \in {o \in Reads :
                \E k \in DOMAIN StepsOf(f) : StepsOf(f)[k].op = o /\ StepsOf(f)[k].arg = i}}
  ELSE {"text"}

NoStep == [op |-> "none", count |-> 0, arg |-> 0, name |-> ""]

Init ==
  /\ fn \in Entries
  /\ args = <<>>
  /\ strict \in BOOLEAN
  /\ at = 1
  /\ outcome = "receiving"
  /\ refusal = NoStep
  /\ override = "none"

-----------------------------------------------------------------------------
\* The executor evaluates one more argument, then makes the call.
Receive ==
  /\ outcome = "receiving"
  /\ Len(args) < Arity(fn) + MaxExtra
  /\ \E kind \in KindsAt(fn, Len(args)) :
       /\ strict => kind # "null"
       /\ args' = Append(args, kind)
  /\ UNCHANGED <<fn, strict, at, outcome, refusal, override>>

Call ==
  /\ outcome = "receiving"
  /\ outcome' = "running"
  /\ UNCHANGED <<fn, args, strict, at, refusal, override>>

Steps == StepsOf(fn)
Step == Steps[at]
Received(i) == i < Len(args)
Arg(i) == args[i + 1]

At(op) ==
  /\ outcome = "running"
  /\ at \in DOMAIN Steps
  /\ Step.op = op

Pass ==
  /\ at' = at + 1
  /\ UNCHANGED <<fn, args, strict, outcome, refusal>>

Refuse ==
  /\ outcome' = "refused"
  /\ refusal' = Step
  /\ UNCHANGED <<fn, args, strict, at>>

Crash ==
  /\ outcome' = "crashed"
  /\ UNCHANGED <<fn, args, strict, at, refusal>>

TestCount ==
  /\ UNCHANGED override
  /\ \/ /\ At("exactly")
        /\ IF Len(args) = Step.count THEN Pass ELSE Refuse
     \/ /\ At("at least")
        /\ IF Len(args) >= Step.count THEN Pass ELSE Refuse

TestNull ==
  /\ At("not null")
  /\ IF Arg(Step.arg) = "null" THEN Refuse ELSE Pass
  /\ UNCHANGED override

\* PG_GETARG_TEXT_P looks into the text, whether there is one or not.
ReadText ==
  /\ At("text")
  /\ IF Arg(Step.arg) = "null" THEN Crash ELSE Pass
  /\ UNCHANGED override

\* A NULL is read as 0.0, where it was not refused before.
ReadFloat ==
  /\ At("float")
  /\ Pass
  /\ UNCHANGED override

\* Fault: the dimensions and the NULLs of an array are not tested.
ReadArrayOfAnyShape ==
  /\ At("array")
  /\ IF Arg(Step.arg) = "numbers" THEN Refuse ELSE Pass
  /\ UNCHANGED override

\* The element type, the dimensions (an empty array has none), the NULLs.
ReadArray ==
  /\ At("array")
  /\ IF Arg(Step.arg) = "texts" THEN Pass ELSE Refuse
  /\ UNCHANGED override

(* Not read when the number of arguments is too small.  A position that    *)
(* was not received is memory behind the arguments: it may look like NULL, *)
(* like a text, or like nothing that can be read.                          *)
ReadOverride ==
  /\ At("override")
  /\ \/ /\ Len(args) < Step.count \/ (Received(Step.arg) /\ Arg(Step.arg) # "text")
        /\ Pass
        /\ UNCHANGED override
     \/ /\ Len(args) >= Step.count
        /\ Received(Step.arg) /\ Arg(Step.arg) = "text"
        /\ Pass
        /\ override' = "text"
     \/ /\ Len(args) >= Step.count
        /\ ~Received(Step.arg)
        /\ \/ Pass /\ override' \in {"none", "memory"}
           \/ Crash /\ UNCHANGED override

\* The driver is called with what was read.
Perform ==
  /\ outcome = "running"
  /\ at \notin DOMAIN Steps
  /\ outcome' = "performed"
  /\ UNCHANGED <<fn, args, strict, at, refusal, override>>

Next ==
  \/ Receive \/ Call
  \/ TestCount \/ TestNull \/ ReadText \/ ReadFloat \/ ReadArray \/ ReadOverride
  \/ Perform

Spec == Init /\ [][Next]_vars
-----------------------------------------------------------------------------
Ends == {"refused", "crashed", "performed"}

\* Every variable has its type.
TypeOK ==
  /\ fn \in Entries
  /\ Len(args) <= Arity(fn) + MaxExtra
  /\ \A i \in DOMAIN args : args[i] \in KindsAt(fn, i - 1)
  /\ strict \in BOOLEAN
  /\ at \in 1..(Len(Steps) + 1)
  /\ outcome \in {"receiving", "running"} \cup Ends
  /\ refusal = NoStep \/ refusal \in {Steps[k] : k \in DOMAIN Steps}
  /\ override \in {"none", "text", "memory"}

(* A call that was accepted had every text it uses, and a whole array of   *)
(* texts, of one element at least (so a message formatter is never asked   *)
(* for a message without arguments); and its override is one the caller    *)
(* gave, unless number_spellout was called with two arguments.             *)
PerformsOnWholeArguments ==
  outcome = "performed" =>
    /\ \A k \in DOMAIN Steps : Steps[k].op = "text"  => Arg(Steps[k].arg) = "text"
    /\ \A k \in DOMAIN Steps : Steps[k].op = "array" => Arg(Steps[k].arg) = "texts"
    /\ override = "text" => Arg(Arity(fn) - 1) = "text"
    /\ override = "memory" => fn = "number_spellout" /\ Len(args) = 2

(* The backend only crashes on a NULL where a text is read, in a function  *)
(* that is not STRICT, and never in one that tests all its arguments; or   *)
(* on the third argument of a number_spellout that has two.                *)
CrashesOnNullsOnly ==
  outcome = "crashed" =>
    \/ /\ ~strict /\ Step.op = "text" /\ Arg(Step.arg) = "null"
       /\ fn \notin {"format_number", "format_message"}
    \/ fn = "number_spellout" /\ Len(args) = 2

(* What the messages of the entry points say, that an argument can not be  *)
(* NULL: a NULL is refused with an error, or has a default.                *)
NullsAreRefused ==
  outcome = "crashed" => ~(Received(Step.arg) /\ Arg(Step.arg) = "null")

(* What the tests of the number of arguments say, that this many will do:  *)
(* no argument is read that the call did not receive.                      *)
ReadsOnlyReceived ==
  outcome = "crashed" \/ override = "memory" =>
    \A k \in DOMAIN Steps : k <= at /\ Steps[k].op \in Reads => Received(Steps[k].arg)
-----------------------------------------------------------------------------
(* The inductive invariant behind these: what was received has the kind    *)
(* its position takes, what the steps that were passed say of the          *)
(* arguments, and where an override is from.                               *)
Passed(step) ==
  /\ step.op = "exactly"  => Len(args) = step.count
  /\ step.op = "at least" => Len(args) >= step.count
  /\ step.op = "not null" => Arg(step.arg) # "null"
  /\ step.op = "text"     => Arg(step.arg) = "text"
  /\ step.op = "array"    => Arg(step.arg) = "texts"

AllKinds == UNION {Kinds[op] : op \in Reads}

ReceivedOK ==
  /\ args \in Seq(AllKinds)
  /\ strict => \A i \in DOMAIN args : args[i] # "null"
  /\ outcome = "receiving" => at = 1 /\ override = "none"

PassedOK == \A k \in DOMAIN Steps : k < at => Passed(Steps[k])

OverrideOK ==
  /\ override = "text" => Arg(Arity(fn) - 1) = "text"
  /\ override = "memory" => fn = "number_spellout" /\ Len(args) = 2

IInv == /\ TypeOK /\ ReceivedOK /\ PassedOK /\ OverrideOK
        /\ CrashesOnNullsOnly /\ PerformsOnWholeArguments
=============================================================================
