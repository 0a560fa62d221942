----------------------------- MODULE JsonSettings -----------------------------
(***************************************************************************)
(* CharReaderBuilder and StreamWriterBuilder: a Value of settings that the *)
(* program fills by name, tests with validate() and makes readers or       *)
(* writers from.  Table says what a builder does with each name; the       *)
(* conversions (asBool, asInt, asUInt, asString) are those of Value.       *)
(***************************************************************************)
EXTENDS Integers, FiniteSets

CONSTANTS Names,    \* the names used of a builder, valid or not
          Values    \* and values

VARIABLES builder,          \* CharReaderBuilder or StreamWriterBuilder
          settings,         \* settings_
          invalid,          \* the program's Value for what validate() reports
          made              \* what the last call gave
vars == <<builder, settings, invalid, made>>

\* Per valid name, the conversion newCharReader or newStreamWriter uses; and
\* what setDefaults() and strictMode() set.
ReaderFlags == {"allowComments", "strictRoot", "allowDroppedNullPlaceholders",
                "allowNumericKeys", "allowSingleQuotes", "failIfExtra",
                "rejectDupKeys", "allowSpecialFloats"}
None == "none"
Put(f, g) == [n \in DOMAIN f \cup DOMAIN g |-> IF n \in DOMAIN g THEN g[n] ELSE f[n]]
On(S) == [n \in ReaderFlags |-> IF n \in S THEN "true" ELSE "false"]
ReaderTable    == Put([n \in ReaderFlags \cup {"collectComments"} |-> "bool"],
                      [stackLimit |-> "int"])
ReaderDefaults == Put(On({"allowComments"}), [collectComments |-> "true", stackLimit |-> "1000"])
ReaderStrict   == Put(On({"strictRoot", "failIfExtra", "rejectDupKeys"}), [stackLimit |-> "1000"])
WriterFlags    == {"enableYAMLCompatibility", "dropNullPlaceholders", "useSpecialFloats"}
WriterTable    == Put([n \in WriterFlags |-> "bool"],
                      [indentation |-> "text", commentStyle |-> "style",
                       precision |-> "precision"])
WriterDefaults == Put([n \in WriterFlags |-> "false"],
                      [commentStyle |-> "text:All", indentation |-> "text:tab",
                       precision |-> "17"])
Table    == IF builder = "reader" THEN ReaderTable ELSE WriterTable
Defaults == IF builder = "reader" THEN ReaderDefaults ELSE WriterDefaults
Strict   == ReaderStrict

\* The settings that a const lookup finds; what is missing is null.
Lookup(n) == IF n \in DOMAIN settings THEN settings[n] ELSE "null"

(***************************************************************************)
(* What the conversion of a setting gives, "throws" when it throws.  A     *)
(* comment style must be one of two texts, a precision is cut to 17.       *)
(***************************************************************************)
Numbers == {"0", "1", "17", "18", "1000"}
AsBool(v) == CASE v \in {"null", "false", "0"}        -> "false"
               [] v \in (Numbers \ {"0"}) \cup {"true"} -> "true"
               [] OTHER                              -> "throws"
AsInt(v)  == CASE v \in {"null", "false"} -> "0"
               [] v = "true"              -> "1"
               [] v \in Numbers           -> v
               [] OTHER                   -> "throws"
AsPrecision(v) == IF AsInt(v) \in {"18", "1000"} THEN "17" ELSE AsInt(v)
AsText(v) == IF v = "null" THEN "text:" ELSE IF v = "object" THEN "throws" ELSE v
AsCommentStyle(v) == IF v \in {"text:All", "text:None"} THEN v ELSE "throws"
Convert(conversion, v) ==
  CASE conversion = "bool"  -> AsBool(v)
    [] conversion = "int"   -> AsInt(v)
    [] conversion = "precision" -> AsPrecision(v)
    [] conversion = "text"  -> AsText(v)
    [] conversion = "style" -> AsCommentStyle(v)

-----------------------------------------------------------------------------
Init == builder \in {"reader", "writer"} /\ settings = Defaults /\ invalid = {} /\ made = None

SetDefaults == settings' = Put(settings, Defaults) /\ made' = None /\ UNCHANGED <<builder, invalid>>
StrictModeLessExtra ==      \* fault: a setting is forgotten
  /\ builder = "reader"
  /\ settings' = Put(settings, [n \in DOMAIN Strict \ {"failIfExtra"} |-> Strict[n]])
  /\ made' = None /\ UNCHANGED <<builder, invalid>>
StrictMode == /\ builder = "reader" /\ settings' = Put(settings, Strict)
              /\ made' = None /\ UNCHANGED <<builder, invalid>>
\* operator[](name) inserts a null where there was nothing; the program may assign
\* to it, and remove a setting, settings_ being public.
Name(n) == /\ settings' = Put([m \in {n} |-> "null"], settings)
           /\ made' = None /\ UNCHANGED <<builder, invalid>>
Remove(n) == /\ settings' = [m \in DOMAIN settings \ {n} |-> settings[m]]
             /\ made' = None /\ UNCHANGED <<builder, invalid>>
Assign(n, v) == /\ settings' = Put(settings, [m \in {n} |-> v])
                /\ made' = None /\ UNCHANGED <<builder, invalid>>

Unknown == DOMAIN settings \ DOMAIN Table
\* validate(): with no Value of the program's, or with one that keeps what it has.
Validate == /\ made' = IF Unknown = {} THEN "valid" ELSE "invalid"
            /\ UNCHANGED <<builder, settings, invalid>>
ValidateInto == /\ invalid' = invalid \cup Unknown
                /\ made' = IF invalid' = {} THEN "valid" ELSE "invalid"
                /\ UNCHANGED <<builder, settings>>

Converted == [n \in DOMAIN Table |-> Convert(Table[n], Lookup(n))]
\* newCharReader and newStreamWriter: an object with the settings Converted.
New == /\ made' = IF \E n \in DOMAIN Table : Converted[n] = "throws"
                  THEN "thrown" ELSE "made"
       /\ UNCHANGED <<builder, settings, invalid>>

Next == \/ SetDefaults \/ StrictMode \/ Validate \/ ValidateInto \/ New
        \/ \E n \in Names[builder] : Name(n) \/ Remove(n) \/ \E v \in Values : Assign(n, v)
Spec == Init /\ [][Next]_vars

-----------------------------------------------------------------------------
\* The features of a reader, as JsonReader has them, from a builder's settings.
Features(S, limit) == [n \in ReaderFlags \cup {"stackLimit"} |->
                         IF n = "stackLimit" THEN limit ELSE IF n \in S THEN "true" ELSE "false"]
OurStrict   == Features({"strictRoot", "failIfExtra", "rejectDupKeys"}, "1000")
OurDefaults == Features({"allowComments"}, "1000")
Of(reader) == [n \in DOMAIN reader \ {"collectComments"} |-> reader[n]]

(***************************************************************************)
(* Whatever was set before, strictMode() makes the reader of strict mode   *)
(* and setDefaults() the default one; only collectComments survives strict *)
(* mode, with what it was or would throw.                                  *)
(***************************************************************************)
ModeDecides ==
  /\ SetDefaults => IF builder = "reader"
                    THEN Of(Converted') = OurDefaults /\ Converted'["collectComments"] = "true"
                    ELSE Converted' = WriterDefaults
  /\ StrictMode  => /\ Of(Converted') = OurStrict
                    /\ Converted'["collectComments"] = Converted["collectComments"]
=============================================================================
