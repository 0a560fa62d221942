--------------------------- MODULE NumberSpellout ---------------------------
(***************************************************************************)
(* The NumberSpellout class: one object, made with the rules of a locale   *)
(* or with rules of the caller's, then asked for numbers and for amounts   *)
(* of a currency in words.  The error code, the error and the text are     *)
(* members that outlive a call, and the text of an amount is made of the   *)
(* texts of two numbers that go through the same member.                   *)
(***************************************************************************)
EXTENDS IcuCodes

CONSTANTS
  Numbers,
  Wordings,  \* a message format with the four names of its units
  NoRequest

Rules == {"locale", "override"}
NumberRequests   == [rules : Rules, number : Numbers]
CurrencyRequests == [rules : Rules, major : Numbers, minor : Numbers, wording : Wordings]
Requests == NumberRequests \cup CurrencyRequests

VARIABLES
  pc,
  rules,            \* of icu_number_format_
  icu_error_code_, error_, string_,
  request,          \* the last call, with the rules of the object
  major_str, minor_str,
  records           \* what FillOutputAtUserFuncContext made

members == <<rules, icu_error_code_, error_, string_>>
locals  == <<major_str, minor_str>>
vars == <<pc, members, request, locals, records>>

Steps == {"number", "major", "minor", "format"}
Outside == {"unmade", "idle", "threw", "deleted"}

\* Texts: none, a number in words, a message.
NoText == <<>>
Words(r, number) == <<r, number>>
Message(w, major, major_words, minor, minor_words) ==
  <<w, major, major_words, minor, minor_words>>

Init ==
  /\ pc = "unmade"
  /\ rules = "locale"
  /\ icu_error_code_ = "U_ZERO_ERROR"
  /\ error_ = NoError
  /\ string_ = NoText
  /\ request = NoRequest
  /\ major_str = NoText /\ minor_str = NoText
  /\ records = {}

-----------------------------------------------------------------------------
\* An error is noted, not thrown: the object is used all the same.
NewNumberSpellout ==
  /\ pc = "unmade"
  /\ pc' = "idle"
  /\ rules' \in Rules
  /\ icu_error_code_' \in Codes
  /\ error_' = ErrorOf(icu_error_code_')
  /\ UNCHANGED <<string_, request, locals, records>>

Ask(kind, step) ==
  /\ pc = "idle"
  /\ pc' = step
  /\ request' \in {q \in kind : q.rules = rules}
  /\ UNCHANGED <<members, locals, records>>

CallSpellout == Ask(NumberRequests, "number")
CallCurrencySpellout == Ask(CurrencyRequests, "major")

\* Spellout(number): no text once the code is not acceptable.
Spell(number) ==
  string_' = IF Acceptable(icu_error_code_) THEN Words(rules, number) ELSE NoText

\* Fault: Spellout clears the error.
SpelloutClearingError ==
  /\ pc = "number"
  /\ pc' = "idle"
  /\ Spell(request.number)
  /\ error_' = NoError
  /\ UNCHANGED <<rules, icu_error_code_, request, locals, records>>

Spellout ==
  /\ pc = "number"
  /\ pc' = "idle"
  /\ Spell(request.number)
  /\ UNCHANGED <<rules, icu_error_code_, error_, request, locals, records>>

\* The next step of CurrencySpellout, unless there is nothing to go on with.
GoOn(step) == pc' = IF Acceptable(icu_error_code_) THEN step ELSE "idle"

\* Fault: the text of the major number is not put aside.
SpellMajorInPlace ==
  /\ pc = "major"
  /\ GoOn("minor")
  /\ Spell(request.major)
  /\ UNCHANGED <<rules, icu_error_code_, error_, request, locals, records>>

SpellMajor ==
  /\ pc = "major"
  /\ GoOn("minor")
  /\ Spell(request.major)
  /\ major_str' = string_'
  /\ UNCHANGED <<rules, icu_error_code_, error_, request, minor_str, records>>

SpellMinor ==
  /\ pc = "minor"
  /\ GoOn("format")
  /\ Spell(request.minor)
  /\ minor_str' = string_'
  /\ UNCHANGED <<rules, icu_error_code_, error_, request, major_str, records>>

\* MessageFormat::format with both numbers and both texts.
FormatAmount ==
  /\ pc = "format"
  /\ pc' = "idle"
  /\ icu_error_code_' \in AfterIcu(icu_error_code_)
  /\ error_' = ErrorOf(icu_error_code_')
  /\ string_' = IF Acceptable(icu_error_code_')
                THEN Message(request.wording, request.major, major_str,
                             request.minor, minor_str)
                ELSE NoText
  /\ UNCHANGED <<rules, request, locals, records>>

\* std::bad_alloc, in the constructor or in a call.
Throw ==
  /\ pc \in Steps \cup {"unmade"}
  /\ pc' = "threw"
  /\ UNCHANGED <<members, request, locals, records>>

\* The driver fills its output when LastError() is empty after the call.
FillOutputAtUserFuncContext ==
  /\ pc = "idle"
  /\ request # NoRequest
  /\ error_ = NoError
  /\ records' = records \cup {string_}
  /\ UNCHANGED <<pc, members, request, locals>>

Delete ==
  /\ pc \in {"idle", "threw"}
  /\ pc' = "deleted"
  /\ UNCHANGED <<members, request, locals, records>>

Next ==
  \/ NewNumberSpellout
  \/ CallSpellout \/ Spellout
  \/ CallCurrencySpellout \/ SpellMajor \/ SpellMinor \/ FormatAmount
  \/ Throw \/ FillOutputAtUserFuncContext \/ Delete

Spec == Init /\ [][Next]_vars
-----------------------------------------------------------------------------
NumberTexts == {Words(r, n) : r \in Rules, n \in Numbers}
SpelledTexts == NumberTexts \cup {NoText}

\* What a request should be answered with.
Answers ==
  [q \in Requests |->
     IF q \in NumberRequests
     THEN Words(q.rules, q.number)
     ELSE Message(q.wording, q.major, Words(q.rules, q.major),
                  q.minor, Words(q.rules, q.minor))]

\* Every variable has its type.
TypeOK ==
  /\ pc \in Steps \cup Outside
  /\ rules \in Rules
  /\ icu_error_code_ \in Codes
  /\ error_ \in Refused \cup {NoError}
  /\ request \in Requests \cup {NoRequest}
  /\ major_str \in SpelledTexts /\ minor_str \in SpelledTexts

(* Between calls error_ tells of the code ICU left, of whichever call it   *)
(* is from (the constructor's included), and an object with an error holds *)
(* no text of an earlier call.                                             *)
ErrorsAreReported ==
  pc = "idle" =>
    /\ error_ = ErrorOf(icu_error_code_)
    /\ error_ # NoError => string_ = NoText

(* The class is a Utility as the driver needs it: what becomes a record is *)
(* the number asked for last, or the message with both its numbers, each   *)
(* with its own words, by the rules the object was made with.              *)
StateOf ==
  CASE pc \in Steps -> "asked"
    [] pc \in Outside \ {"idle"} -> pc
    [] pc = "idle" -> IF error_ # NoError THEN "refused"
                      ELSE IF request = NoRequest THEN "made" ELSE "answered"

Contract == INSTANCE UtilityContract WITH state <- StateOf, Answer <- Answers
ImplementsUtility == Contract!Spec
-----------------------------------------------------------------------------
(* The inductive invariant: error_ follows the code at every point, a call *)
(* of the object bears its rules, and each text that was put aside is that *)
(* of its number.                                                          *)
RequestOK ==
  /\ pc \in Steps => request # NoRequest
  /\ pc = "number" => request \in NumberRequests
  /\ pc \in {"major", "minor", "format"} => request \in CurrencyRequests
  /\ request # NoRequest => request.rules = rules
  /\ pc = "unmade" => request = NoRequest

TextsOK ==
  /\ pc \in {"minor", "format"} =>
       Acceptable(icu_error_code_) /\ major_str = Words(rules, request.major)
  /\ pc = "format" => minor_str = Words(rules, request.minor)
  /\ pc = "idle" /\ request # NoRequest /\ error_ = NoError => string_ = Answers[request]

IInv ==
  /\ TypeOK
  /\ error_ = ErrorOf(icu_error_code_)
  /\ pc = "idle" /\ error_ # NoError => string_ = NoText
  /\ pc = "unmade" => error_ = NoError /\ string_ = NoText
  /\ RequestOK
  /\ TextsOK
=============================================================================
