------------------------------- MODULE JsonText -------------------------------
(***************************************************************************)
(* Strings of the JSON library, character by character: how a writer       *)
(* quotes one (valueToQuotedStringN, and valueToQuotedString on the C      *)
(* string of a name), where the scanner ends its token (readString,        *)
(* readStringSingleQuote), and what decodeString makes of the token.       *)
(*                                                                         *)
(* Characters are bytes.  The four hexadecimal digits after "\u" are one   *)
(* element of the text, Hex(n), where they are any of the 65536, or the    *)
(* four characters that spell them.                                        *)
(***************************************************************************)
EXTENDS Integers, Sequences, SequencesExt

CONSTANTS Strings,      \* strings that are written and read back
          Tokens        \* texts that are only read, from their opening quote on

Quote     == 34
Backslash == 92
Solidus   == 47
LetterU   == 117
Hex(n)   == 256 + n
IsHex(c) == c >= 256
Named    == [c \in {8, 9, 10, 12, 13} |->         \* \b \t \n \f \r
            CASE c = 8 -> 98 [] c = 9 -> 116 [] c = 10 -> 110
              [] c = 12 -> 102 [] c = 13 -> 114]

VARIABLES string, form,     \* the string and the function that quotes it
          text,             \* what is written, and read
          pos, end,         \* characters consumed; where decoding stops
          decoded, pc

vars == <<string, form, text, pos, end, decoded, pc>>

CString(s) == IF Contains(s, 0) THEN SubSeq(s, 1, SelectInSeq(s, LAMBDA c : c = 0) - 1) ELSE s
Written    == IF form = "C" THEN CString(string) ELSE string

\* One character of the quoted form.
Escaped(c) ==
  IF c \in {Quote, Backslash} THEN <<Backslash, c>>
  ELSE IF c \in DOMAIN Named THEN <<Backslash, Named[c]>>
  ELSE IF c < 32 THEN <<Backslash, LetterU, Hex(c)>> ELSE <<c>>

(***************************************************************************)
(* codePointToUTF8, and the code point of a surrogate pair (only the first *)
(* half of the pair is looked at).                                         *)
(***************************************************************************)
Trail(n) == 128 + (n % 64)
Utf8(cp) ==
  IF cp <= 127 THEN <<cp>>
  ELSE IF cp <= 2047 THEN <<192 + cp \div 64, Trail(cp)>>
  ELSE IF cp <= 65535 THEN <<224 + cp \div 4096, Trail(cp \div 64), Trail(cp)>>
  ELSE <<240 + cp \div 262144, Trail(cp \div 4096), Trail(cp \div 64), Trail(cp)>>
HighSurrogate(n) == n \in 55296 .. 56319
PairShifted(n, m) == 65536 + (n % 1024) * 512 + (m % 1024)     \* fault: << 9 for << 10
Pair(n, m) == 65536 + (n % 1024) * 1024 + (m % 1024)

-----------------------------------------------------------------------------
Init == /\ decoded = <<>> /\ pos = 0 /\ end = 0
        /\ \/ /\ string \in Strings /\ form \in {"N", "C"}
              /\ text = <<Quote>> /\ pc = "write"
           \/ /\ text \in Tokens /\ pos = 0 /\ pc = "scan"
              /\ string = <<>> /\ form = "none"

\* The loop of valueToQuotedStringN, pos characters done.
WriteCharacter ==
  /\ pc = "write" /\ pos < Len(Written)
  /\ text' = text \o Escaped(Written[pos + 1]) /\ pos' = pos + 1
  /\ UNCHANGED <<string, form, end, decoded, pc>>
FinishWriting ==
  /\ pc = "write" /\ pos = Len(Written)
  /\ text' = Append(text, Quote) /\ pos' = 0 /\ pc' = "scan"
  /\ UNCHANGED <<string, form, end, decoded>>

(***************************************************************************)
(* readString and readStringSingleQuote: a character that follows a        *)
(* backslash is passed over (getNextChar does nothing at the end of the    *)
(* text); the token ends at the quote that opened it.                      *)
(***************************************************************************)
GetNextChar(p) == IF p = Len(text) THEN p ELSE p + 1
Start == IF pos = 0 THEN 1 ELSE pos           \* the opening quote is consumed
Passed(p) == IF text[p + 1] = Backslash THEN GetNextChar(p + 1) ELSE p + 1
Scan ==
  /\ pc = "scan" /\ Start < Len(text) /\ text[Start + 1] # text[1]
  /\ pos' = Passed(Start)
  /\ UNCHANGED <<string, form, text, end, decoded, pc>>
EndOfToken ==
  /\ pc = "scan" /\ Start < Len(text) /\ text[Start + 1] = text[1]
  /\ end' = Start /\ pos' = 1 /\ pc' = "decode"
  /\ UNCHANGED <<string, form, text, decoded>>
NoToken ==
  /\ pc = "scan" /\ Start = Len(text) /\ pc' = "refused"
  /\ UNCHANGED <<string, form, text, pos, end, decoded>>

(***************************************************************************)
(* decodeString: one iteration of its loop.                                *)
(***************************************************************************)
Rest == SubSeq(text, pos + 1, end)
Refuse == pc' = "refused" /\ UNCHANGED <<string, form, text, pos, end, decoded>>
Take(n, chars) == /\ pos' = pos + n /\ decoded' = decoded \o chars
                  /\ UNCHANGED <<string, form, text, end, pc>>
DecodePlain ==
  /\ pc = "decode" /\ pos # end /\ Rest[1] \notin {Quote, Backslash}
  /\ Take(1, <<Rest[1]>>)
DecodeEscape ==
  /\ pc = "decode" /\ pos # end /\ Rest[1] = Backslash
  /\ \/ Len(Rest) < 2 /\ Refuse        \* "Empty escape sequence in string"
     \/ /\ Len(Rest) >= 2
        /\ \/ Rest[2] \in {Quote, Backslash, Solidus} /\ Take(2, <<Rest[2]>>)
           \/ \E c \in DOMAIN Named : Rest[2] = Named[c] /\ Take(2, <<c>>)
           \/ /\ Rest[2] \notin {Quote, Backslash, Solidus, LetterU}
              /\ \A c \in DOMAIN Named : Rest[2] # Named[c]
              /\ Refuse                \* "Bad escape sequence in string"
\* decodeUnicodeEscapeSequence: the digits at i of what is left, how many
\* characters they are, and the code unit.
DigitValue == [c \in (48 .. 57) \cup (65 .. 70) \cup (97 .. 102) |->      \* 0-9 A-F a-f
                 IF c <= 57 THEN c - 48 ELSE IF c <= 70 THEN c - 55 ELSE c - 87]
Spelled(i) == Len(Rest) >= i + 3 /\ \A k \in i .. i + 3 : Rest[k] \in DOMAIN DigitValue
Digits(i)  == Len(Rest) >= i /\ (IsHex(Rest[i]) \/ Spelled(i))
Width(i)   == IF IsHex(Rest[i]) THEN 1 ELSE 4
Unit(i)    == IF IsHex(Rest[i]) THEN Rest[i] - 256
              ELSE LET d(k) == DigitValue[Rest[i + k]]
                   IN  ((d(0) * 16 + d(1)) * 16 + d(2)) * 16 + d(3)
DecodeUnicode ==
  /\ pc = "decode" /\ Len(Rest) >= 2 /\ Rest[1] = Backslash /\ Rest[2] = LetterU
  /\ \/ ~Digits(3) /\ Refuse
     \/ /\ Digits(3)
        /\ LET n == Unit(3)
               l == 2 + Width(3)           \* the length of the first escape
               second == Digits(l + 3) /\ Rest[l + 1] = Backslash /\ Rest[l + 2] = LetterU
           IN  \/ ~HighSurrogate(n) /\ Take(l, Utf8(n))
               \/ /\ HighSurrogate(n) /\ second
                  /\ Take(l + 2 + Width(l + 3), Utf8(Pair(n, Unit(l + 3))))
               \/ HighSurrogate(n) /\ ~second /\ Refuse
FinishDecoding ==
  /\ pc = "decode" /\ (pos # end => Rest[1] = Quote)
  /\ pc' = "done" /\ UNCHANGED <<string, form, text, pos, end, decoded>>

Next == \/ WriteCharacter \/ FinishWriting \/ Scan \/ EndOfToken \/ NoToken
        \/ DecodePlain \/ DecodeEscape \/ DecodeUnicode \/ FinishDecoding
Spec == Init /\ [][Next]_vars

-----------------------------------------------------------------------------
\* Nothing is read beyond the text (digits that follow no "\u" stay as they are).
TypeOK == /\ pos \in 0 .. (IF pc = "write" THEN Len(string) ELSE Len(text))
          /\ end \in 0 .. Len(text) - 1
          /\ decoded \in Seq(Nat) /\ form \in {"N", "C", "none"}
          /\ pc \in {"write", "scan", "decode", "done", "refused"}

(***************************************************************************)
(* What a writer quotes, the reader accepts and decodes to the same string *)
(* (the names of the styled writers: to the C string).                     *)
(***************************************************************************)
QuotingIsUndone ==
  (form # "none" /\ pc \in {"done", "refused"}) => pc = "done" /\ decoded = Written

\* A token never ends between a backslash and the character it escapes.
EscapesAreWhole ==
  (pc = "decode" /\ pos # end /\ Rest[1] = Backslash) => Len(Rest) >= 2

(***************************************************************************)
(* An escaped character comes out as the UTF-8 of its code point, that of  *)
(* a surrogate pair included.                                              *)
(***************************************************************************)
CodePointIn(bytes) ==
  LET six(i) == bytes[i] - 128         \* bits of a byte that is not the first
  IN  CASE Len(bytes) = 1 -> bytes[1]
        [] Len(bytes) = 2 -> (bytes[1] - 192) * 64 + six(2)
        [] Len(bytes) = 3 -> ((bytes[1] - 224) * 64 + six(2)) * 64 + six(3)
        [] Len(bytes) = 4 -> (((bytes[1] - 240) * 64 + six(2)) * 64 + six(3)) * 64 + six(4)
UnicodeAt(i) == text[i] = Backslash /\ text[i + 1] = LetterU /\ IsHex(text[i + 2])
EscapesAreDecoded ==
  pc = "done" =>
    /\ (Len(text) = 5 /\ UnicodeAt(2)) => Hex(CodePointIn(decoded)) = text[4]
    /\ (Len(text) = 8 /\ UnicodeAt(2) /\ UnicodeAt(5)
          /\ HighSurrogate(text[4] - 256) /\ text[7] - 256 \in 56320 .. 57343) =>
         CodePointIn(decoded) - 65536 = (text[4] - Hex(55296)) * 1024 + (text[7] - Hex(56320))
=============================================================================
