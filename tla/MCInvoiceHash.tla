--------------------------- MODULE MCInvoiceHash ---------------------------
(***************************************************************************)
(* Calls of InvoiceHash::Calculate, with the exceptions they throw: where  *)
(* one of the utilities' own is thrown, and in the handlers of the others, *)
(* its text is made first, and making it may itself throw.                 *)
(***************************************************************************)
EXTENDS InvoiceHash

CONSTANT FirstGuess

\* RSA keys of 512, 1024 and 2048 bits, and both sides of the sizes whose
\* signature takes 172 characters.
MCKeySizes == {64, 126, 127, 128, 129, 130, 256}
\* Texts on both sides of the first buffer, and one that cannot be printed.
SomeLengths == {-1, 0, FirstGuess - 1, FirstGuess, FirstGuess + 1, 3 * FirstGuess}

VARIABLES text, size, length, printed, what, step   \* of ExceptionText
X == INSTANCE ExceptionText WITH Lengths <- SomeLengths
hashVars == <<pc, held, live, modulus, results, records, calls, refused>>
textVars == <<text, size, length, printed, what, step>>

\* new[] and B64 throw exceptions of the standard library, the other steps
\* Exceptions of the utilities.
Standard == {"allocate", "encode"}
NoText == step' = "none" /\ UNCHANGED <<text, size, length, printed, what>>

\* A step of the call; an Exception that was caught is thrown again as it is,
\* any other becomes a new one.
HashStep ==
  /\ step # "while" /\ Next
  /\ IF (pc' = "catch" /\ pc \notin Standard) \/ (pc = "catch" /\ step # "made")
     THEN X!Construct
     ELSE IF pc' = "pkey" THEN NoText ELSE UNCHANGED textVars

MCInit == Init /\ X!Init
MCNext == HashStep \/ (X!Loop /\ UNCHANGED hashVars)
MCSpec == MCInit /\ [][MCNext]_<<hashVars, textVars>> /\ X!Fairness

\* What ExceptionText says of a text.
TextIsMade == X!TextIsMade
=============================================================================
