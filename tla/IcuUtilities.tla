----------------------------- MODULE IcuUtilities -----------------------------
(***************************************************************************)
(* The Utilities that call ICU, as the driver uses one: a formatter of     *)
(* Formatters or a NumberSpellout, asked any sequence of things.  They     *)
(* keep the code, the error, the text and the last request alike, and the  *)
(* members that only one class has are at rest in the others.              *)
(***************************************************************************)
EXTENDS Formatters

CONSTANT Wordings                       \* of NumberSpellout
VARIABLES rules, major_str, minor_str

N == INSTANCE NumberSpellout

ASSUME UtilitiesAssumption == NoRequest \notin N!Requests

Spelling == class = "NumberSpellout"
ownMembers   == <<class, icu_locale_, icu_number_format_>>   \* of a formatter
spellMembers == <<rules, major_str, minor_str>>              \* of a NumberSpellout
utilityVars  == <<vars, spellMembers>>

UtilityInit ==
  \/ Init /\ rules = NoText /\ major_str = NoText /\ minor_str = NoText
  \/ Spelling /\ N!Init /\ icu_locale_ = NoText /\ grouping = NoText /\ pattern = NoText
UtilityNext ==
  \/ ~Spelling /\ Next /\ UNCHANGED spellMembers
  \/ Spelling /\ N!Next /\ UNCHANGED ownMembers
UtilitySpec == UtilityInit /\ [][UtilityNext]_utilityVars

-----------------------------------------------------------------------------
(***************************************************************************)
(* Between calls error_ tells of the code ICU left, the constructor's      *)
(* included, and an object with an error holds no text of an earlier call. *)
(***************************************************************************)
UtilitiesReportErrors == IF Spelling THEN N!ErrorsAreReported ELSE ErrorsAreReported

(***************************************************************************)
(* A NumberSpellout that reported an error reports one after every later   *)
(* call: no step between takes the error back.                             *)
(***************************************************************************)
ErrorsStay == [][Spelling /\ error_ # NoError => error_' # NoError]_utilityVars

(***************************************************************************)
(* Once ICU failed in an object it gives no number, no words and no        *)
(* message: all that becomes a record is a format without arguments.       *)
(***************************************************************************)
FailedGivesFormatsOnly ==
  [][~Acceptable(icu_error_code_) /\ records' # records
       => class = "MessageFormatter" /\ string_ = AsItIs(request.format)]_utilityVars

(***************************************************************************)
(* The three classes are Utilities as the driver needs them: what becomes  *)
(* a record is the answer to the last request, by the locale or the rules  *)
(* the object was made with, the pattern it was asked with, and with the   *)
(* own words of each number.                                               *)
(***************************************************************************)
UtilityStateOf == IF Spelling THEN N!StateOf ELSE StateOf
UtilityAnswers == [q \in Requests \cup N!Requests |->
                     IF q \in N!Requests THEN N!Answers[q] ELSE Answers[q]]
Utility == INSTANCE UtilityContract WITH
  Requests <- Requests \cup N!Requests, Answer <- UtilityAnswers, state <- UtilityStateOf
UtilitiesKeepTheContract == Utility!Spec
=============================================================================
