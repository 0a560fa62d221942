------------------------------ MODULE MCJsonValues ------------------------------
(***************************************************************************)
(* What programs do with values: in each behaviour a program writes or     *)
(* reads a scalar (MCJsonScalars), works on the Values of JsonValue, twice *)
(* (a few nodes and their memory; arrays, with no memory of their own),    *)
(* makes and looks up values by a Path, sets up readers and writers, or    *)
(* compares three values.                                                  *)
(***************************************************************************)
EXTENDS MCJsonScalars, JsonValue, TLC

CONSTANTS Characters, MaxArrayIndex, Documented, Odd, Parameters, Roots,  \* of JsonPath
          SettingNames, SettingValues,                                    \* of JsonSettings
          Ordered, Nesting                                                \* of JsonOrder

VARIABLES current, in, taken, args, root, before, node, it,  \* of JsonPath, with text and pc
          builder, settings, invalid, made,                  \* of JsonSettings
          triple                                             \* the values compared
pathVars    == <<current, in, taken, args, root, before, node, it>>
settingVars == <<builder, settings, invalid, made>>
programVars == <<part, textVars, numberVars, decoded, pc, vars, pathVars, settingVars, triple>>

Sequenced(S, n) == UNION {[1 .. k -> S] : k \in 0 .. n}
AllCharacters == {".", "[", "]", "%", "a", "b"}
                   \cup {"0", "1", "2", "3", "4", "5", "6", "7", "8", "9"}
\* The elements of a path: as written, or from a parameter.
PathElements == ({"key"} \X {<<"a">>, <<"b">>}) \cup ({"index"} \X {0, 1, 10})
                  \cup {<<"key">>, <<"index">>}
DocumentedPaths == Sequenced(PathElements, 3)
OtherTexts == Sequenced({"[", "]", "%", ".", "a", "1"}, 3)
AllParameters == {<<>>, << <<"index", 1>> >>, << <<"key", <<"b">> >> >>,
                  << <<"index", 0>>, <<"key", <<"a">> >>, <<"index", 1>> >>}
AllRoots == {<<>> :> "null", <<>> :> "1",
             << <<"key", <<"a">> >> >> :> "1" @@ <<>> :> "object",
             << <<"key", <<"a">> >> >> :> "array"
               @@ << <<"key", <<"a">> >>, <<"index", 1>> >> :> "null" @@ <<>> :> "object",
             << <<"index", 1>> >> :> "null" @@ <<>> :> "array",
             << <<"index", 0>> >> :> "object"
               @@ << <<"index", 0>>, <<"key", <<"b">> >> >> :> "1" @@ <<>> :> "array"}
P == INSTANCE JsonPath
ASSUME PathsAssumption ==
  /\ {".", "[", "]", "%"} \cup ToSet(P!Digits) \subseteq Characters /\ MaxArrayIndex \in Nat
  /\ Documented \subseteq Seq(P!Elements) /\ Odd \subseteq Seq(Characters)
  /\ Parameters \subseteq Seq(P!Args) /\ \A t \in Roots : P!IsTree(t)

SomeNames  == [reader |-> {"failIfExtra", "collectComments", "stackLimit", "misspelled"},
               writer |-> {"commentStyle", "precision", "indentation", "misspelled"}]
SomeValues == {"null", "true", "18", "text:None"}
S == INSTANCE JsonSettings WITH Names <- SettingNames, Values <- SettingValues

Value(type, of) == [type |-> type, of |-> of]
NullValue == Value("null", <<>>)
SomeBytes == {<<>>, <<0>>, <<1>>, <<0, 0>>, <<1, 0>>}
Plain == {NullValue, Value("int", 1), Value("int", -1), Value("uint", 1), Value("real", 1),
          Value("boolean", 0), Value("boolean", 1)}
           \cup {Value("string", b) : b \in SomeBytes}
SomeOrdered == {NullValue, Value("int", 1), Value("string", <<1>>)}
Entry(k, v) == [key |-> k, value |-> v]
\* Arrays, some with a hole, and objects, of up to two entries.
Maps(k, l) == {<<>>} \cup {<<Entry(i, v)>> : i \in {k, l}, v \in SomeOrdered}
                \cup {<<Entry(k, v), Entry(l, w)>> : v, w \in SomeOrdered}
Containers == {Value("array", m) : m \in Maps(0, 1)}
                \cup {Value("object", m) : m \in Maps(<<1>>, <<1, 0>>)}
Nested == {Value("array", <<Entry(0, v)>>) : v \in {Value("array", <<Entry(1, NullValue)>>),
                                                    Value("object", <<>>)}}
AllOrdered == Plain \cup Containers \cup Nested
NestingOfAll == [v \in AllOrdered |-> IF v \in Plain THEN 0 ELSE IF v \in Nested THEN 2 ELSE 1]
O == INSTANCE JsonOrder
ASSUME OrderedAssumption == O!AreTrees

-----------------------------------------------------------------------------
PathIdle     == /\ current = Idle /\ in = Idle /\ taken = Idle /\ args = Idle
                /\ root = Idle /\ before = Idle /\ node = Idle /\ it = Idle
SettingsIdle == builder = Idle /\ settings = Idle /\ invalid = Idle /\ made = Idle
ScalarsIdle  == TextIdle /\ NumbersIdle /\ decoded = Idle /\ pc = Idle
ProgramInit ==
  /\ Init
  /\ \/ ScalarsInit /\ PathIdle /\ SettingsIdle /\ triple = <<>>
     \/ /\ part \in {"memory", "arrays"}
        /\ ScalarsIdle /\ PathIdle /\ SettingsIdle /\ triple = <<>>
     \/ /\ part = "path" /\ P!Init
        /\ string = Idle /\ form = Idle /\ pos = Idle /\ end = Idle
        /\ NumbersIdle /\ decoded = Idle /\ SettingsIdle /\ triple = <<>>
     \/ part = "settings" /\ S!Init /\ ScalarsIdle /\ PathIdle /\ triple = <<>>
     \/ /\ part = "order" /\ ScalarsIdle /\ PathIdle /\ SettingsIdle
        /\ triple \in Ordered \X Ordered \X Ordered
\* The Values of a part: with memory but no second element, or deep in neither.
Kept(v) == \A p \in DOMAIN v :
             IF part = "memory" THEN \A i \in DOMAIN p : p[i] \notin {Index(1), Index(2)}
                                ELSE Len(p) <= 1
ValuesNext == /\ Next
              /\ \A v \in Variables : Kept(values'[v])
              /\ part = "arrays" => heap' = {}
ScalarsStay == UNCHANGED <<textVars, numberVars, decoded, pc>>
ProgramNext ==
  /\ UNCHANGED <<part, triple>>
  /\ \/ ScalarsNext /\ UNCHANGED <<vars, pathVars, settingVars>>
     \/ /\ part \in {"memory", "arrays"} /\ ValuesNext
        /\ ScalarsStay /\ UNCHANGED <<pathVars, settingVars>>
     \/ part = "path"     /\ P!Next /\ UNCHANGED <<string, form, pos, end, numberVars, decoded,
                                                  vars, settingVars>>
     \/ part = "settings" /\ S!Next /\ ScalarsStay /\ UNCHANGED <<vars, pathVars>>
ProgramSpec == ProgramInit /\ [][ProgramNext]_programVars
\* The Values of a program are interchangeable.
Interchangeable == Permutations(Variables)

-----------------------------------------------------------------------------
\* removeIndex takes one element out of an array, and append adds one.
ArraysChangeByOne == [][part = "arrays" => TakesOne /\ AddsOne]_programVars
(***************************************************************************)
(* A path is read as the arguments it means, make() creates all of what it *)
(* names or changes nothing, and resolve() finds what there is.            *)
(***************************************************************************)
PathsAreFollowed ==
  part = "path" => /\ P!SyntaxIsRead
                   /\ P!MakeIsAllOrNothing
                   /\ P!WhatIsMadeIsFound
\* strictMode() and setDefaults() decide, whatever was set before.
ModesDecide == [][part = "settings" => S!ModeDecides]_programVars

(***************************************************************************)
(* A TOTAL ORDER.  Of two values exactly one is the smaller or they are    *)
(* equal, which is what compare() says; and the order is transitive.  (Of  *)
(* values without NaN; comments and offsets are no part of it.)            *)
(***************************************************************************)
ExactlyOne(x, y) ==
  LET holds == {r \in {"<", ">", "=="} : CASE r = "<"  -> O!Less[x][y]
                                          [] r = ">"  -> O!Less[y][x]
                                          [] r = "==" -> O!Equal[x][y]}
  IN  /\ Cardinality(holds) = 1
      /\ O!Compare(x, y) = 0 <=> x = y
      /\ O!Compare(x, y) = -O!Compare(y, x)
TotalOrder ==
  part = "order" =>
    LET x == triple[1] y == triple[2] z == triple[3]
    IN  ExactlyOne(x, y) /\ (O!Less[x][y] /\ O!Less[y][z] => O!Less[x][z])
=============================================================================
