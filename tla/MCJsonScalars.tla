----------------------------- MODULE MCJsonScalars -----------------------------
(***************************************************************************)
(* The scalars of JSON: in each behaviour JsonText writes a string and     *)
(* reads it back, or reads one, or JsonNumbers reads a number, or a number *)
(* made by other means is converted.                                       *)
(***************************************************************************)
EXTENDS SmallFloats, Sequences, FiniteSets

CONSTANTS Strings, Tokens,      \* of JsonText
          MaxInt, MaxLong,      \* of JsonNumbers: 4 bits and 6 bits
          MaxDouble,            \* a double is exact for an Int only; some Literals are past it
          Literals, Scalars     \* Scalars: values made by other means

\* The widths of the integers: a LargestInt of some bits, with more than one
\* decimal digit, and a double that is exact for every UInt.
ASSUME WidthsAssumption ==
  /\ MaxInt \in Nat /\ 2 * MaxInt + 1 < Pow2[Significand]
  /\ MaxLong \in Nat /\ MaxLong >= 9 /\ MaxInt <= MaxLong
  /\ \E k \in 0 .. MaxLong : MaxLong + 1 = Pow2[k]
  /\ MaxDouble \in Nat /\ 4 * (MaxLong + 1) <= MaxDouble     \* the double past a LargestUInt
\* Strings of bytes, and texts from an opening quote on.
ASSUME StringsAssumption == Strings \subseteq Seq(Nat)
ASSUME TokensAssumption ==
  \A t \in Tokens : t \in Seq(Nat) /\ Len(t) >= 1 /\ t[1] \in {34, 39}
ASSUME LiteralsAssumption ==
  Literals \subseteq [negative : BOOLEAN, fraction : BOOLEAN, digits : Seq(0 .. 9)]
\* What the types of a Value hold; n counts halves, or the size of what has one.
ASSUME ScalarsAssumption ==
  \A v \in Scalars :
    \/ v = [type |-> "null", n |-> 0]
    \/ v \in [type : {"real", "bool", "string", "array"}, n : Int]
    \/ v \in [type : {"int"}, n : {2 * i : i \in -MaxLong - 1 .. MaxLong}]
    \/ v \in [type : {"uint"}, n : {2 * i : i \in 0 .. 2 * MaxLong + 1}]

VARIABLES part,                                  \* what a behaviour is about
          string, form, text, pos, end,          \* of JsonText
          class, literal, at, value,             \* of JsonNumbers
          decoded, pc                            \* of either
textVars   == <<string, form, text, pos, end>>
numberVars == <<class, literal, at, value>>

\* Short strings over the characters the code tells apart; tokens over both
\* quotes, the escapes and the surrogates ("\u" and its digits are two of its
\* characters: the letter, and 256 + the unit).
Hex(n)     == 256 + n
AllStrings == UNION {[1 .. n -> {0, 7, 10, 31, 32, 34, 39, 47, 92, 97, 117, 127, 195}] : n \in 0 .. 3}
Marks      == {34, 39, 92, 97, 110, 117, Hex(65)}
Units      == {0, 65, 127, 128, 2047, 2048, 55295, 55296, 56319, 56320, 57343, 57344, 65535}
Escapes    == {<<34, 92, 117, Hex(n), 34>> : n \in Units}
                \cup {<<34, 92, 117, Hex(n), 92, 117, Hex(m), 34>> : n, m \in Units}
\* \u00e9, \uD83D\uDe00 and others in characters, whole, cut off or misspelled.
Spelling   == {<<92, 117, 48, 48, 101, 57>>, <<92, 117, 68, 56, 51, 68>>,
               <<92, 117, 68, 101, 48, 48>>, <<92, 117, 48, 48, 101>>, <<92, 117, 48, 48, 103, 57>>}
Spelled    == {<<34>> \o s \o <<34>> : s \in Spelling}
                \cup {<<34>> \o s \o u \o <<34>> : s, u \in Spelling}
AllTokens  == {<<q>> \o s : q \in {34, 39}, s \in UNION {[1 .. n -> Marks] : n \in 0 .. 4}}
                \cup Escapes \cup Spelled
T == INSTANCE JsonText

ShortTexts == [negative : BOOLEAN, fraction : BOOLEAN,
               digits : UNION {[1 .. n -> 0 .. 9] : n \in 1 .. 3}]
AllScalars == LET long == 2 * MaxLong + 1
              IN  [type : {"real"}, n : Floats(4 * long)]
                    \cup [type : {"int"}, n : {2 * i : i \in -MaxLong - 1 .. MaxLong}]
                    \cup [type : {"uint"}, n : {2 * i : i \in 0 .. long}]
                    \cup [type : {"bool", "string", "array"}, n : {0, 2}]
                    \cup {[type |-> "null", n |-> 0]}
N == INSTANCE JsonNumbers WITH Values <- Scalars

-----------------------------------------------------------------------------
Idle == "idle"
TextIdle    == string = Idle /\ form = Idle /\ text = Idle /\ pos = Idle /\ end = Idle
NumbersIdle == class = Idle /\ literal = Idle /\ at = Idle /\ value = Idle
ScalarsInit == \/ part = "text"   /\ T!Init /\ NumbersIdle
               \/ part = "number" /\ N!Init /\ TextIdle
ScalarsNext == \/ part = "text"   /\ T!Next /\ UNCHANGED numberVars
               \/ part = "number" /\ N!Next /\ UNCHANGED textVars
OfText   == part = "text"
OfNumber == part = "number"

(***************************************************************************)
(* What is quoted is read back, and escapes are decoded, as JsonText says: *)
(* scanning and decoding stay in the text and agree on where it ends.      *)
(***************************************************************************)
StringsAreRead ==
  OfText => /\ T!TypeOK
            /\ T!QuotingIsUndone
            /\ T!EscapesAreWhole
            /\ T!EscapesAreDecoded
(***************************************************************************)
(* Numbers are decoded as themselves or the nearest double, and no         *)
(* unsigned arithmetic wraps on the way (JsonNumbers' TypeOK bounds it).   *)
(***************************************************************************)
NumbersAreExact == OfNumber => N!TypeOK /\ N!NumbersAreExact
(***************************************************************************)
(* The three ways Value has to say that a number converts agree: a test    *)
(* that holds justifies its conversion, isConvertibleTo foretells it, and  *)
(* what a conversion lets pass its type can hold.                          *)
(***************************************************************************)
ConversionsAreJustified ==
  OfNumber => /\ N!TestsJustifyConversions
              /\ N!ConvertibleMeansConverted
              /\ N!ConversionsFit
=============================================================================
