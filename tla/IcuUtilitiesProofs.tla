-------------------------- MODULE IcuUtilitiesProofs --------------------------
(***************************************************************************)
(* The Utilities that call ICU report what it refuses, keep an error they  *)
(* must keep, give nothing of ICU's once it failed, and are what the       *)
(* driver needs, for any locales, rules, patterns, arguments, wordings and *)
(* numbers: first the formatters, then the NumberSpellout, then either.    *)
(***************************************************************************)
EXTENDS IcuUtilities, TLAPS


(* A request is of one kind, and has the fields of its kind.               *)
LEMMA Kinds ==
  /\ \A q \in MessageRequests : q.format \in Patterns /\ q.args \in Arguments
  /\ \A q \in NumberRequests :
       q.locale \in Locales /\ q.number \in Numbers /\ q.pattern \in Patterns
  /\ MessageRequests \cap NumberRequests = {}
<1>1. \A q \in MessageRequests : DOMAIN q = {"format", "args"}
  BY DEF MessageRequests
<1>2. \A q \in NumberRequests : "locale" \in DOMAIN q
  BY DEF NumberRequests
<1>3. \A q \in MessageRequests : q \notin NumberRequests
  BY <1>1, <1>2
<1> QED
  BY <1>3 DEF MessageRequests, NumberRequests

(* What each kind of request is to be answered with.                       *)
LEMMA AnswersByKind ==
  /\ \A q \in NumberRequests :
       Answers[q] = Formatted(q.number, q.pattern, GroupingOf(q.locale))
  /\ \A q \in MessageRequests :
       Answers[q] = IF q.args = NoArguments THEN AsItIs(q.format)
                                            ELSE Message(q.format, q.args)
BY Kinds DEF Answers, Requests

(* ICU's codes: an unacceptable one is an error, and stays one.            *)
LEMMA CodeFacts ==
  ASSUME NEW code \in Codes
  PROVE  /\ AfterIcu(code) \subseteq Codes
         /\ ErrorOf(code) \in Refused \cup {NoError}
         /\ ErrorOf(code) = NoError <=> Acceptable(code)
         /\ ~Acceptable(code) => ErrorOf(code) = code
         /\ Acceptable("U_ZERO_ERROR") /\ "U_ZERO_ERROR" \in Codes
BY DEF Codes, AfterIcu, ErrorOf, Refused, Acceptable, NoError

(* A new object has no error, whatever it is made with.                    *)
LEMMA InitInvariant == Init => IInv
BY CodeFacts, FormattersAssumption
   DEF Init, IInv, TypeOK, Codes, Refused, RequestOK, ErrorsAreReported

(* Either constructor leaves the object without an error, or throws.       *)
LEMMA NewStep == IInv /\ (NewMessageFormatter \/ NewNumberFormatter) => IInv'
<1> SUFFICES ASSUME IInv, NewMessageFormatter \/ NewNumberFormatter PROVE IInv'
  OBVIOUS
<1>1. /\ pc = "unmade" /\ request = NoRequest /\ error_ = NoError
      /\ icu_error_code_ = "U_ZERO_ERROR"
  BY DEF NewMessageFormatter, NewNumberFormatter, IInv, RequestOK
<1>2. ErrorOf("U_ZERO_ERROR") = NoError /\ "U_ZERO_ERROR" \in Codes
  BY CodeFacts DEF Codes
<1>3. CASE NewMessageFormatter
  BY <1>1, <1>2, <1>3
     DEF NewMessageFormatter, IInv, TypeOK, RequestOK, ErrorsAreReported, EchoAsked, members,
         icu_number_format_
<1>4. CASE NewNumberFormatter
  <2>1. PICK code \in Codes :
          IF Acceptable(code) \/ code = "U_USING_FALLBACK_WARNING"
          THEN /\ pc' = "idle"
               /\ icu_error_code_' = "U_ZERO_ERROR"
               /\ grouping' = GroupingOf(icu_locale_)
          ELSE /\ pc' = "threw"
               /\ icu_error_code_' = code
               /\ UNCHANGED grouping
    BY <1>4 DEF NewNumberFormatter
  <2>2. GroupingOf(icu_locale_) \in {".", "locale"}
    BY DEF GroupingOf
  <2> QED
    BY <1>1, <1>2, <1>4, <2>1, <2>2
       DEF NewNumberFormatter, IInv, TypeOK, RequestOK, ErrorsAreReported, EchoAsked
<1> QED
  BY <1>3, <1>4

(* A call asks the object for what its class does.                         *)
LEMMA CallStep == IInv /\ CallFormat => IInv'
<1> SUFFICES ASSUME IInv, CallFormat PROVE IInv'
  OBVIOUS
<1>1. IF class = "MessageFormatter"
      THEN request' \in MessageRequests
      ELSE request' \in NumberRequests /\ request'.locale = icu_locale_
  BY DEF CallFormat
<1> QED
  BY <1>1, FormattersAssumption
     DEF CallFormat, IInv, TypeOK, Requests, RequestOK, ErrorsAreReported, members,
         icu_number_format_

(* A message is of this call's format and arguments, or there is an error. *)
LEMMA FormatMessageStep == IInv /\ FormatMessage => IInv'
<1> SUFFICES ASSUME IInv, FormatMessage PROVE IInv'
  OBVIOUS
<1>1. /\ request \in MessageRequests /\ request # NoRequest
      /\ pc' = "idle" /\ class = "MessageFormatter" /\ request' = request
      /\ UNCHANGED <<class, icu_locale_, grouping, pattern, records>>
  BY DEF FormatMessage, Format, made, IInv, RequestOK
<1>2. icu_error_code_' \in Codes
  BY CodeFacts DEF FormatMessage, IInv, TypeOK
<1>3. /\ error_' = IF request.args = NoArguments THEN NoError ELSE ErrorOf(icu_error_code_')
      /\ error_' # NoError => string_' = NoText
      /\ error_' = NoError => string_' = Answers[request]
  <2>1. CASE request.args = NoArguments
    BY <1>1, <2>1, AnswersByKind DEF FormatMessage, ReturnText
  <2>2. CASE request.args # NoArguments /\ ~Acceptable(icu_error_code_)
    BY <1>2, <2>2, CodeFacts DEF FormatMessage, ReturnError
  <2>3. CASE request.args # NoArguments /\ Acceptable(icu_error_code_)
    <3>1. IF Acceptable(icu_error_code_')
          THEN ReturnText(Message(request.format, request.args))
          ELSE ReturnError
      BY <2>3 DEF FormatMessage
    <3> QED
      BY <1>1, <1>2, <2>3, <3>1, AnswersByKind, CodeFacts DEF ReturnText, ReturnError
  <2> QED
    BY <2>1, <2>2, <2>3
<1>4. error_' \in Refused \cup {NoError}
  BY <1>2, <1>3, CodeFacts
<1> QED
  BY <1>1, <1>2, <1>3, <1>4 DEF IInv, TypeOK, RequestOK, ErrorsAreReported, EchoAsked

(* A number is formatted by this call's pattern, or there is an error.     *)
LEMMA FormatNumberStep == IInv /\ FormatNumber => IInv'
<1> SUFFICES ASSUME IInv, FormatNumber PROVE IInv'
  OBVIOUS
<1>1. /\ request \in NumberRequests /\ request.locale = icu_locale_ /\ request # NoRequest
      /\ pc' = "idle" /\ class = "NumberFormatter" /\ request' = request
      /\ grouping = GroupingOf(icu_locale_)
      /\ UNCHANGED <<class, icu_locale_, grouping, records>>
  BY DEF FormatNumber, Format, made, IInv, RequestOK, TypeOK
<1>2. icu_error_code_' \in Codes /\ pattern' \in Patterns \cup {NoPattern}
  BY <1>1, CodeFacts, Kinds DEF FormatNumber, IInv, TypeOK
<1>3. /\ error_' = ErrorOf(icu_error_code_')
      /\ error_' # NoError => string_' = NoText
      /\ error_' = NoError => string_' = Answers[request]
  <2>1. CASE ~Acceptable(icu_error_code_)
    BY <1>2, <2>1, CodeFacts DEF FormatNumber, ReturnError
  <2>2. CASE Acceptable(icu_error_code_)
    <3>1. /\ pattern' = request.pattern
          /\ IF Acceptable(icu_error_code_')
             THEN ReturnText(Formatted(request.number, pattern', grouping))
             ELSE ReturnError
      BY <2>2 DEF FormatNumber
    <3> QED
      BY <1>1, <1>2, <3>1, AnswersByKind, CodeFacts DEF ReturnText, ReturnError
  <2> QED
    BY <2>1, <2>2
<1>4. error_' \in Refused \cup {NoError}
  BY <1>2, <1>3, CodeFacts
<1> QED
  BY <1>1, <1>2, <1>3, <1>4 DEF IInv, TypeOK, RequestOK, ErrorsAreReported, EchoAsked

(* The steps that change no member.                                        *)
LEMMA OtherStep == IInv /\ (Throw \/ FillOutputAtUserFuncContext \/ Delete) => IInv'
BY DEF Throw, FillOutputAtUserFuncContext, Delete, IInv, TypeOK, RequestOK, ErrorsAreReported,
       EchoAsked, members, icu_number_format_

LEMMA Step == IInv /\ [Next]_vars => IInv'
<1> SUFFICES ASSUME IInv, [Next]_vars PROVE IInv'
  OBVIOUS
<1>1. CASE UNCHANGED vars
  BY <1>1 DEF vars, members, icu_number_format_, IInv, TypeOK, RequestOK, ErrorsAreReported,
              EchoAsked
<1> QED
  BY <1>1, NewStep, CallStep, FormatMessageStep, FormatNumberStep, OtherStep DEF Next

(* The invariant holds throughout.                                         *)
THEOREM Invariance == Spec => []IInv
BY InitInvariant, Step, PTL DEF Spec

(* Every variable has its type.                                            *)
THEOREM TypeCorrect == Spec => []TypeOK
<1>1. IInv => TypeOK
  BY DEF IInv
<1> QED
  BY <1>1, Invariance, PTL

(* After a call error_ tells of the code, unless ICU was not needed.       *)
THEOREM ReportsErrors == Spec => []ErrorsAreReported
<1>1. IInv => ErrorsAreReported
  BY DEF IInv
<1> QED
  BY <1>1, Invariance, PTL

-----------------------------------------------------------------------------
(* The value of the refinement mapping at each point.                      *)
LEMMA StateCases ==
  /\ pc = "format" => StateOf = "asked"
  /\ pc \in {"unmade", "threw", "deleted"} => StateOf = pc
  /\ pc = "idle" /\ error_ # NoError => StateOf = "refused"
  /\ pc = "idle" /\ error_ = NoError /\ request = NoRequest => StateOf = "made"
  /\ pc = "idle" /\ error_ = NoError /\ request # NoRequest => StateOf = "answered"
BY DEF StateOf

LEMMA NextStateCases ==
  /\ pc' = "format" => StateOf' = "asked"
  /\ pc' \in {"unmade", "threw", "deleted"} => StateOf' = pc'
  /\ pc' = "idle" /\ error_' # NoError => StateOf' = "refused"
  /\ pc' = "idle" /\ error_' = NoError /\ request' = NoRequest => StateOf' = "made"
  /\ pc' = "idle" /\ error_' = NoError /\ request' # NoRequest => StateOf' = "answered"
BY DEF StateOf

(* Every step is one of the contract, or changes nothing that it sees.     *)
LEMMA RefinementStep == IInv /\ [Next]_vars => [Contract!Next]_(Contract!vars)
<1> SUFFICES ASSUME IInv, [Next]_vars
             PROVE Contract!Next \/ UNCHANGED Contract!vars
  OBVIOUS
<1> USE StateCases, NextStateCases
<1>1. CASE UNCHANGED vars
  BY <1>1 DEF vars, members, Contract!vars, StateOf
<1>2. CASE NewMessageFormatter \/ NewNumberFormatter
  <2>1. pc = "unmade" /\ pc' \in {"idle", "threw"} /\ request' = request
        /\ records' = records /\ request = NoRequest
    BY <1>2 DEF NewMessageFormatter, NewNumberFormatter, IInv, RequestOK
  <2> QED
    BY <2>1 DEF Contract!Next, Contract!Make
<1>3. CASE CallFormat
  <2>1. pc = "idle" /\ pc' = "format" /\ request' \in Requests /\ records' = records
    BY <1>3 DEF CallFormat, Requests
  <2> QED
    BY <2>1 DEF Contract!Next, Contract!Ask, Contract!Ready
<1>4. CASE FormatMessage \/ FormatNumber
  <2>1. pc = "format" /\ pc' = "idle" /\ request' = request /\ records' = records
        /\ request # NoRequest
    BY <1>4 DEF FormatMessage, FormatNumber, Format, IInv, RequestOK
  <2> QED
    BY <2>1 DEF Contract!Next, Contract!Reply
<1>5. CASE Throw
  <2>1. pc \in {"unmade", "format"} /\ pc' = "threw" /\ request' = request
        /\ records' = records
    BY <1>5 DEF Throw
  <2> QED
    BY <2>1 DEF Contract!Next, Contract!Reply, Contract!Make
<1>6. CASE FillOutputAtUserFuncContext
  <2>1. /\ pc = "idle" /\ request # NoRequest /\ error_ = NoError
        /\ pc' = pc /\ request' = request /\ error_' = error_
        /\ records' = records \cup {Answers[request]}
    BY <1>6 DEF FillOutputAtUserFuncContext, members, IInv
  <2> QED
    BY <2>1 DEF Contract!Next, Contract!FillOutput
<1>7. CASE Delete
  <2>1. pc \in {"idle", "threw"} /\ pc' = "deleted" /\ request' = request /\ records' = records
    BY <1>7 DEF Delete
  <2> QED
    BY <2>1 DEF Contract!Next, Contract!Delete, Contract!Ready
<1> QED
  BY <1>1, <1>2, <1>3, <1>4, <1>5, <1>6, <1>7 DEF Next

(* What becomes a record is the answer to the last request, of its own     *)
(* format, arguments and pattern: the classes are Utilities as the driver  *)
(* needs them.                                                             *)
THEOREM Refinement == Spec => ImplementsUtility
<1>1. Init => Contract!Init
  BY StateCases DEF Init, Contract!Init
<1> QED
  BY <1>1, RefinementStep, Invariance, PTL DEF Spec, ImplementsUtility, Contract!Spec

-----------------------------------------------------------------------------

(* A request is of one kind, and has the fields of its kind.               *)
LEMMA SpellingKinds ==
  /\ \A q \in N!NumberRequests : q.rules \in N!Rules /\ q.number \in Numbers
  /\ \A q \in N!CurrencyRequests :
       q.rules \in N!Rules /\ q.major \in Numbers /\ q.minor \in Numbers /\ q.wording \in Wordings
  /\ N!NumberRequests \cap N!CurrencyRequests = {}
<1>1. \A q \in N!NumberRequests : DOMAIN q = {"rules", "number"}
  BY DEF N!NumberRequests
<1>2. \A q \in N!CurrencyRequests : "major" \in DOMAIN q
  BY DEF N!CurrencyRequests
<1>3. \A q \in N!NumberRequests : q \notin N!CurrencyRequests
  BY <1>1, <1>2
<1> QED
  BY <1>3 DEF N!NumberRequests, N!CurrencyRequests

(* What each kind of request is to be answered with.                       *)
LEMMA SpellingAnswersByKind ==
  /\ \A q \in N!NumberRequests : N!Answers[q] = N!Words(q.rules, q.number)
  /\ \A q \in N!CurrencyRequests :
       N!Answers[q] = N!Message(q.wording, q.major, N!Words(q.rules, q.major),
                            q.minor, N!Words(q.rules, q.minor))
BY SpellingKinds DEF N!Answers, N!Requests

(* ICU's codes: an unacceptable one is an error, and stays unacceptable.   *)
LEMMA SpellingCodeFacts ==
  ASSUME NEW code \in N!Codes
  PROVE  /\ N!AfterIcu(code) \subseteq N!Codes
         /\ N!ErrorOf(code) \in N!Refused \cup {N!NoError}
         /\ N!ErrorOf(code) = N!NoError <=> N!Acceptable(code)
BY DEF N!Codes, N!AfterIcu, N!ErrorOf, N!Refused, N!Acceptable, N!NoError

(* What Spellout leaves in string_ is a text of its number, or none.       *)
LEMMA SpellType ==
  ASSUME N!TypeOK, NEW n \in Numbers, N!Spell(n)
  PROVE  string_' \in N!SpelledTexts
BY DEF N!Spell, N!SpelledTexts, N!NumberTexts, N!TypeOK

LEMMA SpellingInitInvariant == N!Init => N!IInv
BY SpellingCodeFacts, UtilitiesAssumption
   DEF N!Init, N!IInv, N!TypeOK, N!Outside, N!Rules, N!Codes, N!Refused, N!SpelledTexts,
       N!RequestOK, N!TextsOK,
       N!ErrorOf, N!Acceptable, N!Steps

(* The constructor notes the error of the code it was left with.           *)
LEMMA NewNumberSpelloutStep == N!IInv /\ N!NewNumberSpellout => N!IInv'
BY SpellingCodeFacts
   DEF N!NewNumberSpellout, N!IInv, N!TypeOK, N!Outside, N!RequestOK, N!TextsOK, N!Steps, N!locals

(* A call is of one kind and bears the rules of the object.                *)
LEMMA AskStep == N!IInv /\ (N!CallSpellout \/ N!CallCurrencySpellout) => N!IInv'
<1> SUFFICES ASSUME N!IInv, N!CallSpellout \/ N!CallCurrencySpellout PROVE N!IInv'
  OBVIOUS
<1>1. CASE N!CallSpellout
  <2>1. request' \in N!NumberRequests /\ request'.rules = rules /\ pc' = "number"
    BY <1>1 DEF N!CallSpellout, N!Ask
  <2> QED
    BY <1>1, <2>1, UtilitiesAssumption
       DEF N!CallSpellout, N!Ask, N!IInv, N!TypeOK, N!Steps, N!Requests, N!RequestOK, N!TextsOK,
           N!members, N!locals
<1>2. CASE N!CallCurrencySpellout
  <2>1. request' \in N!CurrencyRequests /\ request'.rules = rules /\ pc' = "major"
    BY <1>2 DEF N!CallCurrencySpellout, N!Ask
  <2> QED
    BY <1>2, <2>1, UtilitiesAssumption
       DEF N!CallCurrencySpellout, N!Ask, N!IInv, N!TypeOK, N!Steps, N!Requests, N!RequestOK,
           N!TextsOK,
           N!members, N!locals
<1> QED
  BY <1>1, <1>2

(* Spellout answers its request, or gives no text.                         *)
LEMMA SpelloutStep == N!IInv /\ N!Spellout => N!IInv'
<1> SUFFICES ASSUME N!IInv, N!Spellout PROVE N!IInv'
  OBVIOUS
<1>1. request \in N!NumberRequests /\ request.rules = rules
  BY DEF N!Spellout, N!IInv, N!RequestOK, N!Steps
<1>2. N!Answers[request] = N!Words(rules, request.number)
  BY <1>1, SpellingAnswersByKind
<1>3. error_ = N!NoError <=> N!Acceptable(icu_error_code_)
  BY SpellingCodeFacts DEF N!IInv, N!TypeOK
<1> QED
  BY <1>1, <1>2, <1>3
     DEF N!Spellout, N!Spell, N!IInv, N!TypeOK, N!Outside, N!Steps, N!RequestOK, N!TextsOK, N!locals

(* The two calls of Spellout put the words of each number aside.           *)
LEMMA SpellMajorStep == N!IInv /\ N!SpellMajor => N!IInv'
<1> SUFFICES ASSUME N!IInv, N!SpellMajor PROVE N!IInv'
  OBVIOUS
<1>1. request \in N!CurrencyRequests /\ request.rules = rules
  BY DEF N!SpellMajor, N!IInv, N!RequestOK, N!Steps
<1>2. major_str' \in N!SpelledTexts
  BY <1>1, SpellingKinds, SpellType DEF N!SpellMajor, N!IInv
<1>3. error_ = N!NoError <=> N!Acceptable(icu_error_code_)
  BY SpellingCodeFacts DEF N!IInv, N!TypeOK
<1> QED
  BY <1>1, <1>2, <1>3
     DEF N!SpellMajor, N!GoOn, N!Spell, N!IInv, N!TypeOK, N!Outside, N!Steps, N!RequestOK, N!TextsOK

LEMMA SpellMinorStep == N!IInv /\ N!SpellMinor => N!IInv'
<1> SUFFICES ASSUME N!IInv, N!SpellMinor PROVE N!IInv'
  OBVIOUS
<1>1. request \in N!CurrencyRequests /\ request.rules = rules
  BY DEF N!SpellMinor, N!IInv, N!RequestOK, N!Steps
<1>2. minor_str' \in N!SpelledTexts
  BY <1>1, SpellingKinds, SpellType DEF N!SpellMinor, N!IInv
<1>3. error_ = N!NoError <=> N!Acceptable(icu_error_code_)
  BY SpellingCodeFacts DEF N!IInv, N!TypeOK
<1> QED
  BY <1>1, <1>2, <1>3
     DEF N!SpellMinor, N!GoOn, N!Spell, N!IInv, N!TypeOK, N!Outside, N!Steps, N!RequestOK, N!TextsOK

(* The message has both numbers with their words, or there is an error.    *)
LEMMA FormatAmountStep == N!IInv /\ N!FormatAmount => N!IInv'
<1> SUFFICES ASSUME N!IInv, N!FormatAmount PROVE N!IInv'
  OBVIOUS
<1>1. request \in N!CurrencyRequests /\ request.rules = rules
  BY DEF N!FormatAmount, N!IInv, N!RequestOK, N!Steps
<1>2. N!Answers[request] = N!Message(request.wording, request.major, major_str,
                                 request.minor, minor_str)
  BY <1>1, SpellingAnswersByKind DEF N!FormatAmount, N!IInv, N!TextsOK
<1>3. icu_error_code_' \in N!Codes
  BY SpellingCodeFacts DEF N!FormatAmount, N!IInv, N!TypeOK
<1>4. error_' \in N!Refused \cup {N!NoError}
      /\ (error_' = N!NoError <=> N!Acceptable(icu_error_code_'))
  BY <1>3, SpellingCodeFacts DEF N!FormatAmount
<1> QED
  BY <1>1, <1>2, <1>3, <1>4
     DEF N!FormatAmount, N!IInv, N!TypeOK, N!Outside, N!Steps, N!RequestOK, N!TextsOK, N!locals

(* The steps that change no member.                                        *)
LEMMA SpellingOtherStep == N!IInv /\ (N!Throw \/ N!FillOutputAtUserFuncContext \/ N!Delete)
  => N!IInv'
BY DEF N!Throw, N!FillOutputAtUserFuncContext, N!Delete, N!IInv, N!TypeOK, N!Outside, N!Steps,
       N!RequestOK, N!TextsOK, N!members, N!locals

LEMMA SpellingStep == N!IInv /\ [N!Next]_(N!vars) => N!IInv'
<1> SUFFICES ASSUME N!IInv, [N!Next]_(N!vars) PROVE N!IInv'
  OBVIOUS
<1>1. CASE UNCHANGED N!vars
  BY <1>1 DEF N!vars, N!members, N!locals, N!IInv, N!TypeOK, N!RequestOK, N!TextsOK
<1> QED
  BY <1>1, NewNumberSpelloutStep, AskStep, SpelloutStep, SpellMajorStep, SpellMinorStep,
     FormatAmountStep, SpellingOtherStep DEF N!Next

(* The invariant holds throughout.                                         *)
THEOREM SpellingInvariance == N!Spec => []N!IInv
BY SpellingInitInvariant, SpellingStep, PTL DEF N!Spec

(* Every variable has its type.                                            *)
THEOREM SpellingTypeCorrect == N!Spec => []N!TypeOK
<1>1. N!IInv => N!TypeOK
  BY DEF N!IInv
<1> QED
  BY <1>1, SpellingInvariance, PTL

(* Between calls error_ tells of the code ICU left.                        *)
THEOREM SpellingReportsErrors == N!Spec => []N!ErrorsAreReported
<1>1. N!IInv => N!ErrorsAreReported
  BY DEF N!IInv, N!ErrorsAreReported
<1> QED
  BY <1>1, SpellingInvariance, PTL

(* The value of the refinement mapping at each point.                      *)
LEMMA SpellingStateCases ==
  /\ pc \in N!Steps => N!StateOf = "asked"
  /\ pc \in {"unmade", "threw", "deleted"} => N!StateOf = pc
  /\ pc = "idle" /\ error_ # N!NoError => N!StateOf = "refused"
  /\ pc = "idle" /\ error_ = N!NoError /\ request = NoRequest => N!StateOf = "made"
  /\ pc = "idle" /\ error_ = N!NoError /\ request # NoRequest => N!StateOf = "answered"
BY DEF N!StateOf, N!Steps, N!Outside

LEMMA SpellingNextStateCases ==
  /\ pc' \in N!Steps => N!StateOf' = "asked"
  /\ pc' \in {"unmade", "threw", "deleted"} => N!StateOf' = pc'
  /\ pc' = "idle" /\ error_' # N!NoError => N!StateOf' = "refused"
  /\ pc' = "idle" /\ error_' = N!NoError /\ request' = NoRequest => N!StateOf' = "made"
  /\ pc' = "idle" /\ error_' = N!NoError /\ request' # NoRequest => N!StateOf' = "answered"
BY DEF N!StateOf, N!Steps, N!Outside

(* Every step is one of the contract, or changes nothing that it sees.     *)
LEMMA SpellingRefinementStep == N!IInv /\ [N!Next]_(N!vars) => [N!Contract!Next]_(N!Contract!vars)
<1> SUFFICES ASSUME N!IInv, [N!Next]_(N!vars)
             PROVE N!Contract!Next \/ UNCHANGED N!Contract!vars
  OBVIOUS
<1> USE SpellingStateCases, SpellingNextStateCases
<1>1. CASE UNCHANGED N!vars
  BY <1>1 DEF N!vars, N!members, N!Contract!vars, N!StateOf
<1>2. CASE N!NewNumberSpellout
  <2>1. pc = "unmade" /\ pc' = "idle" /\ request' = request /\ records' = records
        /\ request = NoRequest
    BY <1>2 DEF N!NewNumberSpellout, N!IInv, N!RequestOK
  <2> QED
    BY <2>1 DEF N!Contract!Next, N!Contract!Make
<1>3. CASE N!CallSpellout \/ N!CallCurrencySpellout
  <2>1. pc = "idle" /\ pc' \in N!Steps /\ request' \in N!Requests /\ records' = records
    BY <1>3 DEF N!CallSpellout, N!CallCurrencySpellout, N!Ask, N!Steps, N!Requests
  <2> QED
    BY <2>1 DEF N!Contract!Next, N!Contract!Ask, N!Contract!Ready
<1>4. CASE N!Spellout \/ N!SpellMajor \/ N!SpellMinor \/ N!FormatAmount
  <2>1. pc \in N!Steps /\ pc' \in N!Steps \cup {"idle"} /\ request' = request
        /\ records' = records /\ request # NoRequest
    BY <1>4 DEF N!Spellout, N!SpellMajor, N!SpellMinor, N!FormatAmount, N!GoOn, N!Steps, N!IInv,
                N!RequestOK
  <2>2. CASE pc' = "idle"
    BY <2>1, <2>2 DEF N!Contract!Next, N!Contract!Reply
  <2>3. CASE pc' \in N!Steps
    BY <2>1, <2>3 DEF N!Contract!vars
  <2> QED
    BY <2>1, <2>2, <2>3
<1>5. CASE N!Throw
  <2>1. pc \in N!Steps \cup {"unmade"} /\ pc' = "threw" /\ request' = request
        /\ records' = records
    BY <1>5 DEF N!Throw
  <2> QED
    BY <2>1 DEF N!Contract!Next, N!Contract!Reply, N!Contract!Make
<1>6. CASE N!FillOutputAtUserFuncContext
  <2>1. /\ pc = "idle" /\ request # NoRequest /\ error_ = N!NoError
        /\ pc' = pc /\ request' = request /\ error_' = error_
        /\ records' = records \cup {N!Answers[request]}
    BY <1>6 DEF N!FillOutputAtUserFuncContext, N!members, N!IInv, N!TextsOK
  <2> QED
    BY <2>1 DEF N!Contract!Next, N!Contract!FillOutput
<1>7. CASE N!Delete
  <2>1. pc \in {"idle", "threw"} /\ pc' = "deleted" /\ request' = request /\ records' = records
    BY <1>7 DEF N!Delete
  <2> QED
    BY <2>1 DEF N!Contract!Next, N!Contract!Delete, N!Contract!Ready
<1> QED
  BY <1>1, <1>2, <1>3, <1>4, <1>5, <1>6, <1>7 DEF N!Next

(* What becomes a record is the whole answer to the last request, by the   *)
(* rules of the object: the class is a Utility as the driver needs it.     *)
THEOREM SpellingRefinement == N!Spec => N!ImplementsUtility
<1>1. N!Init => N!Contract!Init
  BY SpellingStateCases DEF N!Init, N!Contract!Init
<1> QED
  BY <1>1, SpellingRefinementStep, SpellingInvariance, PTL DEF N!Spec, N!ImplementsUtility,
                                                               N!Contract!Spec

-----------------------------------------------------------------------------
(* Either is what it is from the start, and its invariant holds.           *)
UtilityInv == IF Spelling THEN N!IInv ELSE IInv

LEMMA ClassStays == ~Spelling /\ Next => class' = class
BY DEF Next, NewMessageFormatter, NewNumberFormatter, CallFormat, FormatMessage, FormatNumber,
       Format, Throw, FillOutputAtUserFuncContext, Delete, made

LEMMA UtilityStep == UtilityInv /\ [UtilityNext]_utilityVars => UtilityInv'
<1> SUFFICES ASSUME UtilityInv, [UtilityNext]_utilityVars PROVE UtilityInv'
  OBVIOUS
<1>1. CASE ~Spelling /\ Next
  BY <1>1, Step, ClassStays DEF UtilityInv, Spelling
<1>2. CASE Spelling /\ N!Next /\ UNCHANGED ownMembers
  BY <1>2, SpellingStep DEF UtilityInv, Spelling, ownMembers
<1>3. CASE UNCHANGED utilityVars
  <2>1. UNCHANGED vars /\ UNCHANGED N!vars /\ class' = class
    BY <1>3 DEF utilityVars, vars, members, spellMembers, N!vars, N!members, N!locals
  <2> QED
    BY <2>1, Step, SpellingStep DEF UtilityInv, Spelling
<1> QED
  BY <1>1, <1>2, <1>3 DEF UtilityNext

(* The invariant of either holds throughout.                               *)
THEOREM UtilityInvariance == UtilitySpec => []UtilityInv
<1>1. UtilityInit => UtilityInv
  <2>1. Init => ~Spelling
    BY DEF Init, Spelling, Classes
  <2> QED
    BY <2>1, InitInvariant, SpellingInitInvariant DEF UtilityInit, UtilityInv
<1> QED
  BY <1>1, UtilityStep, PTL DEF UtilitySpec

(* Between calls error_ tells of the code that ICU left, and an object     *)
(* with an error holds no text of an earlier call.                         *)
THEOREM UtilityErrors == UtilitySpec => []UtilitiesReportErrors
<1>1. UtilityInv => UtilitiesReportErrors
  BY DEF UtilityInv, UtilitiesReportErrors, IInv, N!IInv, N!ErrorsAreReported
<1> QED
  BY <1>1, UtilityInvariance, PTL

(* An error that a NumberSpellout reported is never taken back.            *)
THEOREM KeepsErrors == UtilitySpec => ErrorsStay
<1>1. UtilityInv /\ [UtilityNext]_utilityVars
        => [Spelling /\ error_ # NoError => error_' # NoError]_utilityVars
  <2> SUFFICES ASSUME UtilityInv, UtilityNext, Spelling, error_ # NoError PROVE error_' # NoError
    OBVIOUS
  <2>1. N!Next /\ N!IInv
    BY DEF UtilityNext, UtilityInv
  <2>2. ~N!Acceptable(icu_error_code_) /\ N!NoError = NoError
    BY <2>1, SpellingCodeFacts DEF N!IInv, N!TypeOK, NoError, N!NoError
  <2>3. pc # "format"
    BY <2>1, <2>2 DEF N!IInv, N!TextsOK
  <2>4. CASE N!NewNumberSpellout
    BY <2>1, <2>2, <2>4 DEF N!NewNumberSpellout, N!IInv
  <2> QED
    BY <2>1, <2>3, <2>4 DEF N!Next, N!CallSpellout, N!CallCurrencySpellout, N!Ask, N!Spellout,
       N!SpellMajor, N!SpellMinor, N!FormatAmount, N!Throw, N!FillOutputAtUserFuncContext,
       N!Delete, N!members
<1> QED
  BY <1>1, UtilityInvariance, PTL DEF UtilitySpec, ErrorsStay

(* Once ICU failed, records are only made of formats without arguments.    *)
THEOREM FailedFormats == UtilitySpec => FailedGivesFormatsOnly
<1> DEFINE Restraint == ~Acceptable(icu_error_code_) /\ records' # records
                          => class = "MessageFormatter" /\ string_ = AsItIs(request.format)
<1>1. UtilityInv /\ [UtilityNext]_utilityVars => [Restraint]_utilityVars
  <2> SUFFICES ASSUME UtilityInv, UtilityNext, ~Acceptable(icu_error_code_), records' # records
               PROVE class = "MessageFormatter" /\ string_ = AsItIs(request.format)
    BY DEF Restraint
  <2>1. CASE Spelling
    <3>1. N!IInv /\ N!Next /\ ~N!Acceptable(icu_error_code_)
      BY <2>1 DEF UtilityInv, UtilityNext, Acceptable, N!Acceptable
    <3>2. N!FillOutputAtUserFuncContext
      BY <3>1 DEF N!Next, N!NewNumberSpellout, N!CallSpellout, N!CallCurrencySpellout, N!Ask,
                  N!Spellout, N!SpellMajor, N!SpellMinor, N!FormatAmount, N!Throw, N!Delete
    <3> QED
      BY <3>1, <3>2, SpellingCodeFacts DEF N!FillOutputAtUserFuncContext, N!IInv, N!TypeOK
  <2>2. CASE ~Spelling
    <3> IInv /\ Next
      BY <2>2 DEF UtilityInv, UtilityNext
    <3>1. FillOutputAtUserFuncContext
      BY DEF Next, NewMessageFormatter, NewNumberFormatter, CallFormat, FormatMessage,
             FormatNumber, Format, Throw, Delete
    <3>2. pc = "idle" /\ request # NoRequest /\ error_ = NoError
      BY <3>1 DEF FillOutputAtUserFuncContext
    <3>3. ErrorOf(icu_error_code_) # NoError
      BY CodeFacts DEF IInv, TypeOK
    <3>4. EchoAsked
      BY <3>2, <3>3 DEF IInv, ErrorsAreReported
    <3>5. request \in MessageRequests /\ Answers[request] = string_
      BY <3>2, <3>4 DEF IInv, RequestOK, EchoAsked
    <3> QED
      BY <3>4, <3>5, AnswersByKind DEF EchoAsked
  <2> QED
    BY <2>1, <2>2
<1> QED
  BY <1>1, UtilityInvariance, PTL DEF UtilitySpec, FailedGivesFormatsOnly

(* What one class can be asked, no other can.                              *)
LEMMA RequestsApart == Requests \cap N!Requests = {}
<1>1. \A q \in N!Requests : "rules" \in DOMAIN q
  BY DEF N!Requests, N!NumberRequests, N!CurrencyRequests
<1>2. \A q \in Requests : "rules" \notin DOMAIN q
  BY DEF Requests, MessageRequests, NumberRequests
<1> QED
  BY <1>1, <1>2

(* A step that the contract of one class allows, the contract of all does. *)
LEMMA UtilityRefinementStep ==
  UtilityInv /\ UtilityInv' /\ [UtilityNext]_utilityVars => [Utility!Next]_(Utility!vars)
<1> SUFFICES ASSUME UtilityInv, UtilityInv', [UtilityNext]_utilityVars
             PROVE  Utility!Next \/ UNCHANGED Utility!vars
  OBVIOUS
<1>1. CASE Spelling
  <2>1. N!IInv /\ [N!Next]_(N!vars) /\ Spelling'
    BY <1>1 DEF UtilityInv, UtilityNext, utilityVars, vars, members, spellMembers, ownMembers,
                Spelling, N!vars, N!members, N!locals
  <2>2. N!Contract!Next \/ UNCHANGED N!Contract!vars
    BY <2>1, SpellingRefinementStep
  <2>3. UtilityStateOf = N!StateOf /\ UtilityStateOf' = N!StateOf'
    BY <1>1, <2>1 DEF UtilityStateOf
  <2>4. N!StateOf = "answered" => request \in N!Requests
    BY <2>1, SpellingStateCases DEF N!IInv, N!TypeOK, N!StateOf, N!Outside
  <2>5. request \in N!Requests => UtilityAnswers[request] = N!Answers[request]
    BY DEF UtilityAnswers
  <2> QED
    BY <2>2, <2>3, <2>4, <2>5
       DEF N!Contract!Next, N!Contract!vars, N!Contract!Make, N!Contract!Ask, N!Contract!Reply,
           N!Contract!FillOutput, N!Contract!Delete, N!Contract!Ready, Utility!Next, Utility!vars,
           Utility!Make, Utility!Ask, Utility!Reply, Utility!FillOutput, Utility!Delete,
           Utility!Ready
<1>2. CASE ~Spelling
  <2>1. IInv /\ [Next]_vars /\ ~Spelling'
    BY <1>2, ClassStays DEF UtilityInv, UtilityNext, utilityVars, vars, Spelling
  <2>2. Contract!Next \/ UNCHANGED Contract!vars
    BY <2>1, RefinementStep
  <2>3. UtilityStateOf = StateOf /\ UtilityStateOf' = StateOf'
    BY <1>2, <2>1 DEF UtilityStateOf
  <2>4. StateOf = "answered" => request \in Requests
    BY <2>1, StateCases DEF IInv, TypeOK, StateOf
  <2>5. request \in Requests => UtilityAnswers[request] = Answers[request]
    BY RequestsApart DEF UtilityAnswers
  <2> QED
    BY <2>2, <2>3, <2>4, <2>5
       DEF Contract!Next, Contract!vars, Contract!Make, Contract!Ask, Contract!Reply,
           Contract!FillOutput, Contract!Delete, Contract!Ready, Utility!Next, Utility!vars,
           Utility!Make, Utility!Ask, Utility!Reply, Utility!FillOutput, Utility!Delete,
           Utility!Ready
<1> QED
  BY <1>1, <1>2

(* Whichever class it is of, what becomes a record is the answer to the    *)
(* last request: the driver can use the three alike.                       *)
THEOREM UtilityRefinement == UtilitySpec => UtilitiesKeepTheContract
<1>1. UtilityInit => Utility!Init
  <2>1. Init => ~Spelling
    BY DEF Init, Spelling, Classes
  <2> QED
    BY <2>1, StateCases, SpellingStateCases DEF UtilityInit, Init, N!Init, Utility!Init,
                                                UtilityStateOf
<1> QED
  BY <1>1, UtilityRefinementStep, UtilityInvariance, PTL DEF UtilitySpec,
                                                             UtilitiesKeepTheContract, Utility!Spec
=============================================================================
