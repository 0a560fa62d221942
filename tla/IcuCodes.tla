------------------------------ MODULE IcuCodes ------------------------------
(***************************************************************************)
(* UErrorCode as the ICU classes see it: no error, the two warnings about  *)
(* locales, and any failure.  A function of ICU that is given a code never *)
(* sets it back to no error.                                               *)
(***************************************************************************)
Codes == {"U_ZERO_ERROR", "U_USING_DEFAULT_WARNING", "U_USING_FALLBACK_WARNING", "failure"}

\* The test before and after each use of ICU.
Acceptable(code) == code \in {"U_ZERO_ERROR", "U_USING_DEFAULT_WARNING"}

Refused == {code \in Codes : ~Acceptable(code)}

\* What an ICU function may leave in the code it is given.
AfterIcu(code) == {code} \cup (Codes \ {"U_ZERO_ERROR"})

NoError == ""

\* What error_ says of a code.
ErrorOf(code) == IF Acceptable(code) THEN NoError ELSE code
=============================================================================
