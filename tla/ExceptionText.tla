----------------------------- MODULE ExceptionText -----------------------------
(***************************************************************************)
(* The constructor of pg::cpp::utils::Exception that takes a format: it    *)
(* prints into a buffer until the text, whose length vsnprintf tells, has  *)
(* room.  Texts are represented by their lengths, and one that vsnprintf   *)
(* cannot print by -1.                                                     *)
(***************************************************************************)
EXTENDS Integers

CONSTANTS FirstGuess,   \* the length the first buffer is made for (512)
          Lengths       \* the lengths of the texts

VARIABLES text,         \* what the format and the arguments print
          size, length, \* temp.size(), length
          printed,      \* how much of the text temp holds
          what,         \* how much of it what_ holds
          step          \* "none", "while" in the loop, then "made" or "thrown"
vars == <<text, size, length, printed, what, step>>

Init == /\ text = 0 /\ size = 0 /\ length = 0 /\ printed = 0 /\ what = 0
        /\ step = "none"

\* An exception is about to be thrown.
Construct == /\ step # "while" /\ step' = "while"
             /\ text' \in Lengths
             /\ size' = 0 /\ length' = FirstGuess /\ printed' = 0 /\ what' = 0

\* vsnprintf keeps the last byte of the buffer for the terminator.
Vsnprintf(n) == IF text < n THEN text ELSE n - 1
TooShortLess == size < length       \* fault: the terminator is not counted
TooShort     == size <= length
NextSize     == length + 1

Attempt ==
  /\ step = "while" /\ TooShort
  /\ size' = NextSize
  /\ IF text < 0
     THEN step' = "thrown" /\ UNCHANGED <<length, printed>>
     ELSE /\ printed' = Vsnprintf(NextSize) /\ length' = text
          /\ UNCHANGED step
  /\ UNCHANGED <<text, what>>
Finish ==
  /\ step = "while" /\ ~TooShort
  /\ what' = length /\ step' = "made"
  /\ UNCHANGED <<text, size, length, printed>>

Loop == Attempt \/ Finish
\* The constructor runs in the thread that throws, until it is done.
Fairness == WF_vars(Loop)
Spec == Init /\ [][Construct \/ Loop]_vars /\ Fairness

-----------------------------------------------------------------------------
(***************************************************************************)
(* An exception is made, however long its text, and carries the whole of   *)
(* what was printed, all of it written and not cut by the buffer; only a   *)
(* text that cannot be printed is thrown in place of it.                   *)
(***************************************************************************)
Whole == what = text /\ printed = text
TextIsMade ==
  (step = "while") ~> ((step = "made" /\ Whole) \/ (step = "thrown" /\ text = -1))
=============================================================================
