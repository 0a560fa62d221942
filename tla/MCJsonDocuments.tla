---------------------------- MODULE MCJsonDocuments ----------------------------
(***************************************************************************)
(* JSON documents: JsonReader on texts of every kind, with a reference for *)
(* the texts it should accept, and composed with JsonWriter, on the texts  *)
(* that JsonWriter writes of a tree.                                       *)
(***************************************************************************)
EXTENDS JsonSyntax, FiniteSetsExt, TLC

CONSTANTS StackLimit,       \* "stackLimit" of the readers below
          RightMargin

W == INSTANCE JsonWriter WITH NameOrder <- <<"empty", "a", "a0", "b">>

VARIABLE source      \* [writer, tree] of a text that was written

OurDefaults == [class |-> "OurReader", allowComments |-> TRUE, strictRoot |-> FALSE,
                dropNulls |-> FALSE, numericKeys |-> FALSE, failIfExtra |-> FALSE,
                rejectDupKeys |-> FALSE, specialFloats |-> FALSE,
                stackLimit |-> StackLimit, collectComments |-> TRUE]
OurStrict == [OurDefaults EXCEPT !.allowComments = FALSE, !.strictRoot = TRUE,
                                 !.failIfExtra = TRUE, !.rejectDupKeys = TRUE]
Lenient == [OurDefaults EXCEPT !.dropNulls = TRUE, !.numericKeys = TRUE,
                               !.specialFloats = TRUE]
Reader  == [OurDefaults EXCEPT !.class = "Reader"]
ReaderNumericKeys == [Reader EXCEPT !.numericKeys = TRUE]

\* What written texts are read with.
Tolerant == [OurDefaults EXCEPT !.dropNulls = TRUE, !.failIfExtra = TRUE, !.stackLimit = 9]
All == {OurDefaults, OurStrict, Lenient, Reader, ReaderNumericKeys, Tolerant}

Texts(S, n) == UNION {[1 .. k -> S] : k \in 0 .. n}
Insert(s, i, c) == SubSeq(s, 1, i) \o c \o SubSeq(s, i + 1, Len(s))

\* Every short text over the structural lexemes.
Short == Texts({"{", "}", "[", "]", ",", ":", "1", "a"}, 5)
\* Every shorter text over the others.
Odd == Texts({"{", "[", "]", ":", "1", "empty", "?", "NUL", "\n", "open",
              "badstring", "badnumber", "NaN"}, 3)
\* Objects with two members or arrays with two elements, one of them nested.
Some == {<<"1">>, <<"[", "1", "]">>, <<"{", "}">>, <<"{", "b", ":", "1", "}">>}
Pairs == {<<"{", "a", ":">> \o v \o <<",", n, ":">> \o w \o <<"}">> :
            v, w \in Some, n \in {"a", "b", "1"}}
           \cup {<<"[">> \o v \o <<",">> \o w \o <<"]">> : v, w \in Some}
\* The same with a comment, or a comment on the next line, at every place.
Inserted(S, C) == UNION {{Insert(d, i, c) : i \in 0 .. Len(d), c \in C} : d \in S}
Commented1 == Inserted(Pairs, {<<"/**/">>, <<"//\n">>, <<"\n", "/**/">>})
Everything == Short \cup Odd \cup Pairs \cup Commented1
Again      == {<<>>, <<"[", "1", "//\n", ",", "1", "]">>, <<"{", "a", "}", "1">>}
-----------------------------------------------------------------------------
\* The trees (paths to types) a sequence of tokens denotes in JSON.
Under(k, t) == [p \in {<<k>> \o q : q \in DOMAIN t} |-> t[Tail(p)]]
Beside(t, u) ==     \* a later member replaces an earlier one of the same name
  [p \in {q \in DOMAIN t : \A r \in DOMAIN u : r[1] # q[1]} \cup DOMAIN u |->
     IF p \in DOMAIN u THEN u[p] ELSE t[p]]
RECURSIVE Json(_), Elements(_, _), Members(_)
Json(s) ==
  IF s = <<>> THEN {}
  ELSE IF Len(s) = 1
  THEN IF s[1] \in (Literals \cup Strings \cup Numbers) \ Undecodable
       THEN {<<>> :> s[1]} ELSE {}
  ELSE LET inner == SubSeq(s, 2, Len(s) - 1)
       IN CASE s[1] = "[" /\ s[Len(s)] = "]" ->
                 {(<<>> :> "array") @@ t :
                    t \in IF inner = <<>> THEN {<<>>} ELSE Elements(inner, 0)}
            [] s[1] = "{" /\ s[Len(s)] = "}" ->
                 {(<<>> :> "object") @@ t :
                    t \in IF inner = <<>> THEN {<<>>} ELSE Members(inner)}
            [] OTHER -> {}
Cuts(s, i) == {k \in i .. Len(s) : k = Len(s) \/ (k + 1 < Len(s) /\ s[k + 1] = ",")}
After(s, k) == SubSeq(s, k + 2, Len(s))
Elements(s, n) ==
  UNION {{Under(<<"index", n>>, v) @@ t : v \in Json(SubSeq(s, 1, k)),
            t \in IF k = Len(s) THEN {<<>>} ELSE Elements(After(s, k), n + 1)} :
         k \in Cuts(s, 1)}
Members(s) ==
  IF Len(s) < 3 \/ s[1] \notin Strings \ Undecodable \/ s[2] # ":" THEN {}
  ELSE UNION {{Beside(Under(<<"name", s[1]>>, v), t) : v \in Json(SubSeq(s, 3, k)),
                 t \in IF k = Len(s) THEN {<<>>} ELSE Members(After(s, k))} :
              k \in Cuts(s, 3)}

Tokens == SelectSeq(doc, LAMBDA c : c \notin Blanks \cup Comments)

(***************************************************************************)
(* AGREES WITH JSON.  On texts without comments, zero bytes or empty       *)
(* names, the strict reader accepts exactly the JSON arrays and objects    *)
(* without duplicate names (as deep as the stack allows), and what it      *)
(* builds is what the text denotes.                                        *)
(***************************************************************************)
AgreesWithJson ==
  (pc = "done" /\ conf = OurStrict /\ ~Mentions(Comments \cup {"NUL", "empty"})) =>
     LET meant == {t \in Json(Tokens) : t[<<>>] \in {"array", "object"}}
         built == [p \in DOMAIN tree |-> tree[p].type]
         repeats == \E i, j \in DOMAIN Tokens : /\ i < j /\ Tokens[i] = Tokens[j]
                                               /\ Tokens[i] \in Strings
     IN  /\ ok => built \in meant
         /\ ~ok => meant = {} \/ repeats

-----------------------------------------------------------------------------
Fast   == [class |-> "Fast", indentation |-> FALSE, comments |-> FALSE, dropNulls |-> FALSE]
Styled == [Fast EXCEPT !.class = "Styled", !.indentation = TRUE]
Stream == [Styled EXCEPT !.class = "StyledStream"]
Built  == [class |-> "Built", indentation |-> TRUE, comments |-> TRUE, dropNulls |-> FALSE]
Dense  == [Built EXCEPT !.indentation = FALSE, !.comments = FALSE]
AllWriters == {Fast, [Fast EXCEPT !.dropNulls = TRUE], Styled, Stream, Built, Dense,
               [Built EXCEPT !.comments = FALSE], [Built EXCEPT !.dropNulls = TRUE],
               [Dense EXCEPT !.dropNulls = TRUE]}

\* Values, by their types, and the ways to put comments on two of their nodes.
Leaf(type) == <<>> :> type
Array(ts) == FoldLeft(LAMBDA t, i : Under(<<"index", i - 1>>, ts[i]) @@ t,
                      Leaf("array"), [i \in DOMAIN ts |-> i])
Object(ms) == FoldLeft(LAMBDA t, m : Under(<<"name", m[1]>>, m[2]) @@ t, Leaf("object"), ms)
One == Leaf("1") Nil == Leaf("null") NoElement == Array(<<>>) NoMember == Object(<<>>)
Small == {One, Nil, NoElement, NoMember, Array(<<One>>), Object(<< <<"a", Nil>> >>)}
Holes == Under(<<"index", 1>>, One) @@ Leaf("array")
Shapes == Small \cup {Holes, Object(<< <<"empty", One>> >>), Array(<<One, Nil, One>>)}
            \cup {Array(<<v, w>>) : v \in Small, w \in {One, Array(<<One>>)}}
            \cup {Object(<< <<"a", v>>, <<"b", w>> >>) : v \in Small, w \in {One, Array(<<One>>)}}
Uncommented(t) == [p \in DOMAIN t |-> W!Uncommented(t[p])]
Befores == {<<"//">>, <<"/**/">>, <<"//", "/**/">>}
Sames   == {<<"//">>, <<"/**/">>}
Commenting(t) ==
  {t} \cup {[t EXCEPT ![p].before = c] : p \in DOMAIN t, c \in Befores}
      \cup {[t EXCEPT ![p].same = c] : p \in DOMAIN t, c \in Sames}
      \cup {[t EXCEPT ![<<>>].after = c] : c \in Befores}
OneComment == UNION {Commenting(Uncommented(t)) : t \in Shapes}
Two(S)     == UNION {Commenting(t) : t \in {u \in S : Cardinality(DOMAIN u) <= 3}}
Shown == [writer : {w \in AllWriters : ~W!Keeps(w)}, tree : OneComment]
           \cup [writer : {w \in AllWriters : W!Keeps(w)}, tree : OneComment \cup Two(OneComment)]

\* A dropped null needs something beside it to be seen.
DroppedUnseen(s) ==
  s.writer.dropNulls /\
    \E p \in DOMAIN s.tree :
      /\ s.tree[p].type = "null"
      /\ p # <<>> => Last(p)[1] = "index" /\ W!SizeAt(s.tree, Front(p)) = 1
Sound == {s \in Shown : ~DroppedUnseen(s)}

-----------------------------------------------------------------------------
NoSource == [writer |-> Fast, tree |-> [p \in {} |-> 0]]
DInit == \/ Init /\ source = NoSource
         \/ /\ source \in Sound
            /\ conf = Tolerant
            /\ doc = W!Scan(W!Document(source.writer, source.tree))
            /\ pc = "value" /\ Idle
DNext == \/ Step /\ UNCHANGED source
         \/ \E d \in Reparsed : Parse(d) /\ source' = NoSource
         \/ \E v, extra \in DOMAIN tree :
              (PushError(v) \/ PushErrorWithExtra(v, extra)) /\ UNCHANGED source
DSpec == DInit /\ [][DNext]_<<vars, source>>

\* The comments at these offsets, as the writer has them.
TextOf(i) == CASE Lex(i) \in LineComments -> IF Lex(i) = "//\n" THEN "//" ELSE Lex(i)
               [] OTHER -> Lex(i)
CommentTexts(S) == LET order == SetToSortSeq(S, <) IN [i \in DOMAIN order |-> TextOf(order[i])]

ValuesRead  == [p \in DOMAIN tree |-> tree[p].type]
CommentsRead ==
  [p \in DOMAIN tree |-> <<CommentTexts(tree[p].before), CommentTexts(tree[p].same),
                           CommentTexts(tree[p].after)>>]
\* The tree written, its holes filled with nulls.
Filled(t) == [p \in UNION {ToSet(W!Elements(t, q)) : q \in {r \in DOMAIN t : t[r].type = "array"}}
                     \cup DOMAIN t |-> W!At(t, p)]
ValuesWritten == LET t == Filled(source.tree) IN [p \in DOMAIN t |-> t[p].type]
CommentsWritten ==
  LET t == Filled(source.tree)
  IN  [p \in DOMAIN t |-> <<t[p].before, t[p].same, t[p].after>>]

(***************************************************************************)
(* READS BACK.  Whichever writer wrote it, the reader reads the same       *)
(* value, and where the writer keeps comments (and writes nulls), the same *)
(* comments in the same places.                                            *)
(***************************************************************************)
ReadsBack ==
  (pc = "done" /\ source # NoSource) =>
     /\ ok /\ ValuesRead = ValuesWritten
     /\ (W!Keeps(source.writer) /\ ~source.writer.dropNulls) => CommentsRead = CommentsWritten
=============================================================================
