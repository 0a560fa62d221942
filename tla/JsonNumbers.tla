------------------------------ MODULE JsonNumbers ------------------------------
(***************************************************************************)
(* Numbers of the JSON library: decodeNumber of both readers, digit by     *)
(* digit in unsigned arithmetic that wraps, and the tests and conversions  *)
(* of Value (isInt ... asString, isConvertibleTo).                         *)
(*                                                                         *)
(* A number is counted in halves, so that there are reals between the      *)
(* integers; a real is what is left of it at the precision of a double.    *)
(***************************************************************************)
EXTENDS Integers, Sequences, SmallFloats

CONSTANTS MaxInt,       \* Value::maxInt
          MaxLong,      \* Value::maxLargestInt
          MaxDouble,    \* DBL_MAX, in halves
          Literals,     \* texts: [negative, digits, fraction]
          Values        \* values made by other means than reading

MaxUInt  == 2 * MaxInt + 1
MaxULong == 2 * MaxLong + 1
MinInt   == -MaxInt - 1
MinLong  == -MaxLong - 1

VARIABLES class, literal,       \* the reader and the text it decodes
          at, value,            \* digits consumed; the integer they make, so far
          decoded,              \* the Value: [type, n], n in halves
          pc

vars == <<class, literal, at, value, decoded, pc>>

Unset == [type |-> "null", n |-> 0]
MaxIntegerValue == IF literal.negative THEN MaxLong + 1 ELSE MaxULong
Threshold       == MaxIntegerValue \div 10
DigitAt         == literal.digits[at + 1]
IsLastDigit     == at + 1 = Len(literal.digits) /\ ~literal.fraction

Init == /\ at = 0 /\ value = 0
        /\ \/ /\ literal \in Literals /\ class \in {"Reader", "OurReader"}
              /\ decoded = Unset /\ pc = "digits"
           \/ /\ decoded \in Values /\ pc = "done" /\ class = "none"
              /\ literal = [negative |-> FALSE, digits |-> <<>>, fraction |-> FALSE]

\* One iteration of decodeNumber that goes on.
TooBigIgnoringRest == value > Threshold      \* fault: the last digit is not looked at
TooBig == \/ value > Threshold
          \/ value = Threshold /\ (~IsLastDigit \/ DigitAt > MaxIntegerValue % 10)
Digit ==
  /\ pc = "digits" /\ at < Len(literal.digits) /\ ~TooBig
  /\ value' = (value * 10 + DigitAt) % (MaxULong + 1)
  /\ at' = at + 1
  /\ UNCHANGED <<class, literal, decoded, pc>>

(***************************************************************************)
(* decodeDouble: the whole text, to the nearest double.  When that is      *)
(* beyond DBL_MAX the stream Reader uses fails ("is not a number"), and    *)
(* sscanf gives OurReader an infinity, which is the next number here.      *)
(***************************************************************************)
Magnitude[k \in 0 .. Len(literal.digits)] ==
  IF k = 0 THEN 0 ELSE 10 * Magnitude[k - 1] + literal.digits[k]
Number == LET n == 2 * Magnitude[Len(literal.digits)]
                     + (IF literal.fraction THEN 1 ELSE 0)
          IN  IF literal.negative THEN -n ELSE n
Infinity     == MaxDouble + 1
Overflows(n) == Rounded(n) \notin -MaxDouble .. MaxDouble
Nearest(n)   == IF ~Overflows(n) THEN Rounded(n) ELSE IF n > 0 THEN Infinity ELSE -Infinity
DecodeDouble ==
  /\ pc = "digits"
  /\ IF at < Len(literal.digits) THEN TooBig ELSE literal.fraction
  /\ \/ /\ class = "OurReader" \/ ~Overflows(Number)
        /\ decoded' = [type |-> "real", n |-> Nearest(Number)] /\ pc' = "done"
     \/ /\ class = "Reader" /\ Overflows(Number)
        /\ pc' = "refused" /\ UNCHANGED decoded
  /\ UNCHANGED <<class, literal, at, value>>

(***************************************************************************)
(* The end of decodeNumber.  LargestInt(value) wraps for 2^63; Reader has  *)
(* a case for it, OurReader negates it all the same.                       *)
(***************************************************************************)
Positive == IF value <= MaxInt THEN "int" ELSE "uint"
Finish ==
  /\ pc = "digits" /\ at = Len(literal.digits) /\ ~literal.fraction
  /\ decoded' = IF literal.negative THEN [type |-> "int", n |-> -2 * value]
                                    ELSE [type |-> Positive, n |-> 2 * value]
  /\ pc' = "done"
  /\ UNCHANGED <<class, literal, at, value>>

Next == Digit \/ DecodeDouble \/ Finish
Spec == Init /\ [][Next]_vars

-----------------------------------------------------------------------------
(***************************************************************************)
(* Value's tests.  A bound is compared with a real after it has itself     *)
(* become a double: 2^63 - 1 and 2^64 - 1 round up.                        *)
(***************************************************************************)
Integral(v) == v.n % 2 = 0
Between(v, min, max) == 2 * min <= v.n /\ v.n <= 2 * max
InRange(v, min, max) == Rounded(2 * min) <= v.n /\ v.n <= Rounded(2 * max)
Below(v, max) == v.n < Rounded(2 * max)
IsNumber(v) == v.type \in {"int", "uint", "real"}
IsReal(v)   == v.type = "real"
IsInt(v)  == /\ IsNumber(v)
             /\ IF IsReal(v) THEN InRange(v, MinInt, MaxInt) /\ Integral(v)
                             ELSE Between(v, MinInt, MaxInt)
IsUInt(v) == /\ IsNumber(v)
             /\ IF IsReal(v) THEN InRange(v, 0, MaxUInt) /\ Integral(v)
                             ELSE Between(v, 0, MaxUInt)
IsInt64UpToMax(v) ==                                 \* fault: <= for <
  \/ v.type = "int"
  \/ v.type = "uint" /\ Between(v, 0, MaxLong)
  \/ IsReal(v) /\ InRange(v, MinLong, MaxLong) /\ Integral(v)
IsInt64(v) ==
  \/ v.type = "int"
  \/ v.type = "uint" /\ Between(v, 0, MaxLong)
  \/ IsReal(v) /\ v.n >= Rounded(2 * MinLong) /\ Below(v, MaxLong) /\ Integral(v)
IsUInt64(v) ==
  \/ v.type = "uint"
  \/ v.type = "int" /\ v.n >= 0
  \/ IsReal(v) /\ v.n >= 0 /\ Below(v, MaxULong) /\ Integral(v)
IsIntegral(v) ==
  \/ v.type \in {"int", "uint"}
  \/ IsReal(v) /\ v.n >= Rounded(2 * MinLong) /\ Below(v, MaxULong) /\ Integral(v)

(***************************************************************************)
(* Value's conversions: what they may convert, and the number they convert *)
(* it to (a real is truncated).                                            *)
(***************************************************************************)
Trivial == {"null", "bool"}
Truncated(v) == IF v.n >= 0 THEN v.n \div 2 ELSE -((-v.n) \div 2)
AsIntAccepts(v)  == IF IsReal(v) THEN InRange(v, MinInt, MaxInt)
                                 ELSE IsInt(v) \/ v.type \in Trivial
AsUIntAccepts(v) == IF IsReal(v) THEN InRange(v, 0, MaxUInt)
                                 ELSE IsUInt(v) \/ v.type \in Trivial
AsInt64Accepts(v)  == IF IsReal(v) THEN InRange(v, MinLong, MaxLong)
                                   ELSE IsInt64(v) \/ v.type \in Trivial
AsUInt64Accepts(v) == IF IsReal(v) THEN InRange(v, 0, MaxULong)
                                   ELSE IsUInt64(v) \/ v.type \in Trivial
AsDoubleAccepts(v) == IsNumber(v) \/ v.type \in Trivial
AsBoolAccepts(v)   == v.type \in {"bool", "null", "int", "uint", "real"}
AsStringAccepts(v) == v.type \in {"null", "string", "bool", "int", "uint", "real"}

IsConvertibleTo(v, type) ==
  CASE type = "null"   -> \/ v.type = "null"     \* n: the size of what has one
                          \/ v.type \in {"int", "uint", "real", "bool", "string", "array"}
                             /\ v.n = 0
    [] type = "int"    -> \/ IsInt(v) \/ v.type \in Trivial
                          \/ IsReal(v) /\ InRange(v, MinInt, MaxInt)
    [] type = "uint"   -> \/ IsUInt(v) \/ v.type \in Trivial
                          \/ IsReal(v) /\ InRange(v, 0, MaxUInt)
    [] type = "real"   -> IsNumber(v) \/ v.type \in Trivial
    [] type = "bool"   -> IsNumber(v) \/ v.type \in Trivial
    [] type = "string" -> IsNumber(v) \/ v.type \in Trivial \cup {"string"}
    [] type = "array"  -> v.type \in {"array", "null"}

-----------------------------------------------------------------------------
\* The value decoded so far has not wrapped: its type holds it.
TypeOK == /\ class \in {"Reader", "OurReader", "none"}
          /\ at \in 0 .. Len(literal.digits) /\ value \in 0 .. MaxIntegerValue
          /\ decoded.type \in {"null", "bool", "int", "uint", "real", "string", "array"}
          /\ decoded.n \in Int /\ pc \in {"digits", "done", "refused"}

(***************************************************************************)
(* Every integer a LargestInt or LargestUInt holds is decoded as itself,   *)
(* and every other number as the double nearest to it; no number is        *)
(* refused but by Reader and for its size.                                 *)
(***************************************************************************)
NumbersAreExact ==
  (pc \in {"done", "refused"} /\ class # "none") =>
     IF Integral([n |-> Number]) /\ ~literal.fraction /\ Number >= 2 * MinLong
          /\ Number <= 2 * MaxULong
     THEN pc = "done" /\ decoded.n = Number /\ decoded.type \in {"int", "uint"}
     ELSE IF pc = "refused" THEN class = "Reader" /\ Overflows(Number)
     ELSE decoded = [type |-> "real", n |-> Nearest(Number)]

(***************************************************************************)
(* A value for which a test (isInt ...) holds is converted (asInt ...)     *)
(* without an exception, and to the very number it holds; isIntegral holds *)
(* of what one of the types holds.                                         *)
(***************************************************************************)
TestsJustifyConversions ==
  LET Exact(v, min, max) == 2 * Truncated(v) = v.n /\ Between(v, min, max)
  IN  pc = "done" =>
        /\ IsInt(decoded)    => AsIntAccepts(decoded)    /\ Exact(decoded, MinInt, MaxInt)
        /\ IsUInt(decoded)   => AsUIntAccepts(decoded)   /\ Exact(decoded, 0, MaxUInt)
        /\ IsInt64(decoded)  => AsInt64Accepts(decoded)  /\ Exact(decoded, MinLong, MaxLong)
        /\ IsUInt64(decoded) => AsUInt64Accepts(decoded) /\ Exact(decoded, 0, MaxULong)
        /\ IsIntegral(decoded) <=> IsInt64(decoded) \/ IsUInt64(decoded)

\* isConvertibleTo tells which conversions do not throw.
ConvertibleMeansConverted ==
  pc = "done" => /\ IsConvertibleTo(decoded, "int")    <=> AsIntAccepts(decoded)
                 /\ IsConvertibleTo(decoded, "uint")   <=> AsUIntAccepts(decoded)
                 /\ IsConvertibleTo(decoded, "real")   <=> AsDoubleAccepts(decoded)
                 /\ IsConvertibleTo(decoded, "bool")   <=> AsBoolAccepts(decoded)
                 /\ IsConvertibleTo(decoded, "string") <=> AsStringAccepts(decoded)

(***************************************************************************)
(* What is converted, its type holds.  Of the reals, asInt64 and asUInt64  *)
(* also accept the one just past their type, to which the bound they       *)
(* compare with is rounded: its conversion is undefined.                   *)
(***************************************************************************)
ConversionsFit ==
  (pc = "done" /\ decoded.type # "bool") =>
     LET Fits(min, max) == \/ Truncated(decoded) \in min .. max
                           \/ IsReal(decoded) /\ decoded.n = 2 * (max + 1)
     IN  /\ AsIntAccepts(decoded)    => Truncated(decoded) \in MinInt .. MaxInt
         /\ AsUIntAccepts(decoded)   => Truncated(decoded) \in 0 .. MaxUInt
         /\ AsInt64Accepts(decoded)  => Fits(MinLong, MaxLong)
         /\ AsUInt64Accepts(decoded) => Fits(0, MaxULong)
=============================================================================
