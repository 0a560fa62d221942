------------------------------- MODULE Base64 -------------------------------
(***************************************************************************)
(* The arithmetic of B64::Encode, and the decoding of RFC 4648 it is       *)
(* judged by.  A character is the index of k_table64_ it is read from, a   *)
(* bijection; the other values a char of the buffer can have come after.   *)
(***************************************************************************)
EXTENDS Integers

Octets   == 0..255
Alphabet == 0..63
Padding  == 64       \* '='
Nul      == 65       \* the terminator
Unset    == 66       \* what new char[] leaves in the memory
Chars    == 0..66

\* The characters of an encoded payload of n bytes, without the terminator.
EncodedSize(n) == (n \div 3) * 4 + (IF n % 3 > 0 THEN 4 ELSE 0)

\* "encode to 4": three bytes give four indexes of k_table64_, of which
\* those that hold no bit of the input give way to padding.
Sextets(i_buf) ==
  [j \in 0..3 |->
     CASE j = 0 -> i_buf[0] \div 4
       [] j = 1 -> (i_buf[0] % 4) * 16 + i_buf[1] \div 16
       [] j = 2 -> (i_buf[1] % 16) * 4 + i_buf[2] \div 64
       [] j = 3 -> i_buf[2] % 64]

Quantum4(i_buf, input_parts) ==
  [j \in 0..3 |-> IF j <= input_parts THEN Sextets(i_buf)[j] ELSE Padding]
-----------------------------------------------------------------------------
\* RFC 4648, section 4: byte j of what a text stands for.
Bits(char) == IF char = Padding THEN 0 ELSE char

DecodedByte(text, j) ==
  LET q == 4 * (j \div 3) IN
    IF j % 3 = 0      THEN text[q] * 4 + text[q + 1] \div 16
    ELSE IF j % 3 = 1 THEN (text[q + 1] % 16) * 16 + Bits(text[q + 2]) \div 4
    ELSE                   (text[q + 2] % 4) * 64 + text[q + 3]

\* The padding a payload of n bytes needs, and the shape that makes an
\* encoding canonical: alphabet, then padding, unused bits zero.
PaddingSize(n) == (3 - (n % 3)) % 3

Canonical(text, n) ==
  /\ \A i \in 0..(EncodedSize(n) - 1) :
       IF i < EncodedSize(n) - PaddingSize(n) THEN text[i] \in Alphabet
                                              ELSE text[i] = Padding
  /\ n % 3 = 1 => text[EncodedSize(n) - 3] % 16 = 0
  /\ n % 3 = 2 => text[EncodedSize(n) - 2] % 4 = 0
=============================================================================
