----------------------------- MODULE Formatters -----------------------------
(***************************************************************************)
(* The MessageFormatter class, and NumberFormatter, which derives from it: *)
(* one object of either.  They share the error code, the error and the     *)
(* text; NumberFormatter adds a DecimalFormat, whose symbols are set once  *)
(* and whose pattern by every call.                                        *)
(*                                                                         *)
(* Message formats are applied in the locale of the process; the locale of *)
(* the object only matters to a NumberFormatter.                           *)
(***************************************************************************)
EXTENDS IcuCodes

CONSTANTS
  Locales,      \* what objects are made with
  Portuguese,   \* "pt_PT" and "pt-PT"
  Patterns,     \* message formats and number patterns
  Arguments,    \* vectors of strings
  NoArguments,  \* the one of size 0
  Numbers,
  NoRequest

MessageRequests == [format : Patterns, args : Arguments]
NumberRequests  == [locale : Locales, number : Numbers, pattern : Patterns]
Requests == MessageRequests \cup NumberRequests

ASSUME FormattersAssumption ==
  /\ Portuguese \subseteq Locales
  /\ NoArguments \in Arguments
  /\ NoRequest \notin Requests

VARIABLES
  pc,       \* "idle" between calls, "format" in one
  class,    \* the class of the object
  icu_locale_, icu_error_code_, error_, string_,
  grouping, pattern,  \* the separator and the pattern of icu_number_format_
  request,  \* the last call
  records   \* what FillOutputAtUserFuncContext made

icu_number_format_ == <<grouping, pattern>>
made == <<class, icu_locale_, grouping>>
members == <<icu_locale_, icu_error_code_, error_, string_, icu_number_format_>>
vars == <<pc, class, members, request, records>>

Classes == {"MessageFormatter", "NumberFormatter"}

\* Texts: none, a format as it is, a message, a number.
NoText == <<>>
AsItIs(format) == <<format>>
Message(format, args) == <<format, args>>
Formatted(number, by, separator) == <<number, by, separator>>

\* Portuguese groups have a separator of their own, others the locale's.
GroupingOf(locale) == IF locale \in Portuguese THEN "." ELSE "locale"

NoPattern == ""

Init ==
  /\ pc = "unmade"
  /\ class \in Classes
  /\ icu_locale_ \in Locales
  /\ icu_error_code_ = "U_ZERO_ERROR"
  /\ error_ = NoError
  /\ string_ = NoText
  /\ grouping = "locale" /\ pattern = NoPattern
  /\ request = NoRequest
  /\ records = {}

-----------------------------------------------------------------------------
NewMessageFormatter ==
  /\ pc = "unmade"
  /\ class = "MessageFormatter"
  /\ pc' = "idle"
  /\ UNCHANGED <<class, members, request, records>>

\* Fault: the code of the constructor is kept.
NewNumberFormatterKeepingCode ==
  /\ pc = "unmade"
  /\ class = "NumberFormatter"
  /\ pc' = "idle"
  /\ icu_error_code_' \in Codes \ {"failure"}
  /\ grouping' = GroupingOf(icu_locale_)
  /\ UNCHANGED <<class, icu_locale_, error_, string_, pattern, request, records>>

(* The code the DecimalFormat and the symbols of the locale leave: with    *)
(* no failure it is forgotten, fallback included; otherwise the            *)
(* constructor throws.                                                     *)
NewNumberFormatter ==
  /\ pc = "unmade"
  /\ class = "NumberFormatter"
  /\ \E code \in Codes :
       IF Acceptable(code) \/ code = "U_USING_FALLBACK_WARNING"
       THEN /\ pc' = "idle"
            /\ icu_error_code_' = "U_ZERO_ERROR"
            /\ grouping' = GroupingOf(icu_locale_)
       ELSE /\ pc' = "threw"
            /\ icu_error_code_' = code
            /\ UNCHANGED grouping
  /\ UNCHANGED <<class, icu_locale_, error_, string_, pattern, request, records>>

CallFormat ==
  /\ pc = "idle"
  /\ pc' = "format"
  /\ request' \in IF class = "MessageFormatter"
                  THEN MessageRequests
                  ELSE {q \in NumberRequests : q.locale = icu_locale_}
  /\ UNCHANGED <<class, members, records>>

\* The end of a call of either Format, with a text or with an error.
ReturnText(text) ==
  /\ string_' = text
  /\ error_' = NoError

ReturnError ==
  /\ string_' = NoText
  /\ error_' = icu_error_code_'

Format(kind) ==
  /\ pc = "format"
  /\ class = kind
  /\ pc' = "idle"
  /\ UNCHANGED <<made, request, records>>

\* Fault: the code MessageFormat::format leaves is not tested.
FormatMessageUntested ==
  /\ Format("MessageFormatter")
  /\ UNCHANGED pattern
  /\ icu_error_code_' \in AfterIcu(icu_error_code_)
  /\ ReturnText(Message(request.format, request.args))

(* MessageFormatter::Format.  Without arguments the format is the message, *)
(* as it is, even in an object that failed.                                *)
FormatMessage ==
  /\ Format("MessageFormatter")
  /\ UNCHANGED pattern
  /\ \/ /\ request.args = NoArguments
        /\ UNCHANGED icu_error_code_
        /\ ReturnText(AsItIs(request.format))
     \/ /\ request.args # NoArguments
        /\ ~Acceptable(icu_error_code_)
        /\ UNCHANGED icu_error_code_
        /\ ReturnError
     \/ /\ request.args # NoArguments
        /\ Acceptable(icu_error_code_)
        /\ icu_error_code_' \in AfterIcu(icu_error_code_)
        /\ IF Acceptable(icu_error_code_')
           THEN ReturnText(Message(request.format, request.args))
           ELSE ReturnError

(* NumberFormatter::Format.  A pattern that is refused may have been       *)
(* applied in part; no call will use it.                                   *)
FormatNumber ==
  /\ Format("NumberFormatter")
  /\ \/ /\ ~Acceptable(icu_error_code_)
        /\ UNCHANGED <<icu_error_code_, pattern>>
        /\ ReturnError
     \/ /\ Acceptable(icu_error_code_)
        /\ icu_error_code_' \in AfterIcu(icu_error_code_)
        /\ pattern' = request.pattern
        /\ IF Acceptable(icu_error_code_')
           THEN ReturnText(Formatted(request.number, pattern', grouping))
           ELSE ReturnError

\* std::bad_alloc, in the constructor or in a call.
Throw ==
  /\ pc \in {"unmade", "format"}
  /\ pc' = "threw"
  /\ UNCHANGED <<class, members, request, records>>

\* The driver fills its output when LastError() is empty after the call.
FillOutputAtUserFuncContext ==
  /\ pc = "idle"
  /\ request # NoRequest
  /\ error_ = NoError
  /\ records' = records \cup {string_}
  /\ UNCHANGED <<pc, class, members, request>>

Delete ==
  /\ pc \in {"idle", "threw"}
  /\ pc' = "deleted"
  /\ UNCHANGED <<class, members, request, records>>

Next ==
  \/ NewMessageFormatter \/ NewNumberFormatter
  \/ CallFormat \/ FormatMessage \/ FormatNumber
  \/ Throw \/ FillOutputAtUserFuncContext \/ Delete

Spec == Init /\ [][Next]_vars
-----------------------------------------------------------------------------
\* What a request should be answered with.
Answers ==
  [q \in Requests |->
     IF q \in NumberRequests
     THEN Formatted(q.number, q.pattern, GroupingOf(q.locale))
     ELSE IF q.args = NoArguments THEN AsItIs(q.format)
     ELSE Message(q.format, q.args)]

\* Every variable has its type.
TypeOK ==
  /\ pc \in {"unmade", "idle", "format", "threw", "deleted"}
  /\ class \in Classes
  /\ icu_locale_ \in Locales
  /\ icu_error_code_ \in Codes
  /\ error_ \in Refused \cup {NoError}
  /\ grouping \in {".", "locale"}
  /\ pattern \in Patterns \cup {NoPattern}
  /\ request \in Requests \cup {NoRequest}

(* After a call error_ tells of the code, but for a message without        *)
(* arguments, which needs no ICU; and an error comes with no text of an    *)
(* earlier call.  A NumberFormatter that could be made has no error: a     *)
(* warning about its locale does not refuse its first number.              *)
EchoAsked == class = "MessageFormatter" /\ request # NoRequest /\ request.args = NoArguments

ErrorsAreReported ==
  pc = "idle" =>
    /\ error_ = IF EchoAsked THEN NoError ELSE ErrorOf(icu_error_code_)
    /\ error_ # NoError => string_ = NoText /\ request # NoRequest

(* Both classes are Utilities as the driver needs them: what becomes a     *)
(* record is the message or the number asked for last, the number by its   *)
(* own pattern and with the separator of the object's locale.              *)
StateOf ==
  CASE pc = "format" -> "asked"
    [] pc \in {"unmade", "threw", "deleted"} -> pc
    [] pc = "idle" -> IF error_ # NoError THEN "refused"
                      ELSE IF request = NoRequest THEN "made" ELSE "answered"

Contract == INSTANCE UtilityContract WITH state <- StateOf, Answer <- Answers
ImplementsUtility == Contract!Spec
-----------------------------------------------------------------------------
(* The inductive invariant: a request is one of the class and locale of    *)
(* the object, the separator is the locale's once the object is made, and  *)
(* what a call without an error left is its answer.                        *)
RequestOK ==
  /\ pc = "unmade" => request = NoRequest
  /\ pc = "format" => request # NoRequest
  /\ request # NoRequest =>
       IF class = "MessageFormatter"
       THEN request \in MessageRequests
       ELSE request \in NumberRequests /\ request.locale = icu_locale_

IInv ==
  /\ TypeOK
  /\ pc = "unmade" => icu_error_code_ = "U_ZERO_ERROR" /\ error_ = NoError
  /\ class = "NumberFormatter" /\ pc \in {"idle", "format"} =>
       grouping = GroupingOf(icu_locale_)
  /\ RequestOK
  /\ ErrorsAreReported
  /\ pc = "idle" /\ request # NoRequest /\ error_ = NoError => string_ = Answers[request]
=============================================================================
