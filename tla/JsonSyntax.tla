------------------------------ MODULE JsonSyntax ------------------------------
(***************************************************************************)
(* What JSON is, offset by offset, and what a JSON text denotes: the       *)
(* reference of the strict reader.  Whether a lexeme fits depends on the   *)
(* last lexeme before it that is not blank and on the bracket it is in.    *)
(* Nothing here is recursive, so that it can be reasoned about; the runs   *)
(* compare it with the grammar of MCJsonDocuments, which is.               *)
(***************************************************************************)
EXTENDS JsonReader

Openers == {"{", "["}
Enders  == {"}", "]"}
Names   == Strings \ Undecodable
Scalars == (Literals \cup Strings \cup Numbers) \ Undecodable

\* The last lexeme before p that is not blank; the bracket that p is in, which is
\* the last place where fewer brackets were open.
Prior(p)  == Max({-1} \cup {i \in 0 .. p - 1 : Lex(i) \notin Blanks})
Holder(p) == Max({-1} \cup {i \in 0 .. p - 1 : Depth(i) < Depth(p)})
At(i) == IF i = -1 THEN "none" ELSE Lex(i)
Previous(p) == At(Prior(p))
Around(p)   == At(Holder(p))

\* What comes next at p, blanks aside.
WantsName(p)  == \/ Previous(p) = "{"
                 \/ Previous(p) = "," /\ Around(p) = "{"
WantsValue(p) == \/ Previous(p) \in {"none", ":", "["}
                 \/ Previous(p) = "," /\ Around(p) = "["
IsName(i)     == Lex(i) \in Names /\ WantsName(i)
IsValue(i)    == Lex(i) \in Scalars \cup Openers /\ WantsValue(i)
WantsColon(p) == Prior(p) # -1 /\ IsName(Prior(p))
ValueEnds(p)  == Previous(p) \in Scalars \cup Enders /\ ~WantsColon(p)

Fits(p) == \/ Lex(p) \in Blanks
           \/ IsName(p) \/ IsValue(p)
           \/ Lex(p) = ":" /\ WantsColon(p)
           \/ Lex(p) = "," /\ ValueEnds(p) /\ Holder(p) # -1
           \/ Lex(p) = "}" /\ Around(p) = "{" /\ (ValueEnds(p) \/ Previous(p) = "{")
           \/ Lex(p) = "]" /\ Around(p) = "[" /\ (ValueEnds(p) \/ Previous(p) = "[")
           \/ Lex(p) = "NUL" /\ ValueEnds(p) /\ Holder(p) = -1
NamesDiffer(n) == \A i, j \in 0 .. n - 1 :
                    (IsName(i) /\ IsName(j) /\ Lex(i) = Lex(j) /\ Holder(i) = Holder(j)) => i = j

\* A JSON text whose root is an array or an object, and none of whose objects
\* has two members of one name.
IsJson == /\ \A p \in 0 .. Len(doc) : Fits(p) /\ (Lex(p) \in Scalars => Holder(p) # -1)
          /\ NamesDiffer(Len(doc))

(***************************************************************************)
(* The tree t is what the text before n denotes, but for a value that is   *)
(* still to be read.  Every value of the text is one of the tree, below    *)
(* the value of its bracket; a member has the name that comes before its   *)
(* colon; the elements of an array are numbered from 0 in their order.     *)
(***************************************************************************)
TypeAt(i) == CASE Lex(i) = "{" -> "object"
               [] Lex(i) = "[" -> "array"
               [] OTHER        -> Lex(i)
NameBefore(i) == At(Prior(Prior(i)))
Neighbour(v)  == Append(Front(v), <<"index", Last(v)[2] - 1>>)
\* The value v of the tree, of which S is read, is the one for what is at i.
Belongs(t, S, v, i) ==
  IF v = <<>> THEN Holder(i) = -1
  ELSE /\ Front(v) \in S /\ Holder(i) = t[Front(v)].start
       /\ IF Around(i) = "{" THEN Last(v) = <<"name", NameBefore(i)>>
          ELSE IF Previous(i) = "[" THEN Last(v) = <<"index", 0>>
          ELSE /\ Last(v)[1] = "index" /\ Last(v)[2] > 0
               /\ Neighbour(v) \in S /\ t[Neighbour(v)].start < i
Denotes(t, S, n) ==
  /\ \A v \in S : LET i == t[v].start
                  IN  /\ i \in 0 .. n - 1 /\ IsValue(i)
                      /\ t[v].type = TypeAt(i) /\ Belongs(t, S, v, i)
  /\ \A i \in 0 .. n - 1 : IsValue(i) => \E v \in S : t[v].start = i

(***************************************************************************)
(* ACCEPTS JSON.  On texts without comments, zero bytes or empty names, a  *)
(* strict reader (it rejects duplicate names and extra text and allows     *)
(* nothing but JSON) that is not stopped by the stack limit accepts        *)
(* exactly the JSON texts, and builds what they denote.                    *)
(***************************************************************************)
Strict == /\ conf.strictRoot /\ conf.failIfExtra /\ conf.rejectDupKeys
          /\ ~conf.allowComments /\ ~conf.dropNulls
          /\ ~conf.numericKeys /\ ~conf.specialFloats
Plain  == ~Mentions(Comments \cup {"NUL", "empty"})
AcceptsJson ==
  (pc = "done" /\ Strict /\ Plain) =>
     /\ ok <=> IsJson
     /\ ok => Denotes(tree, DOMAIN tree, Len(doc))

-----------------------------------------------------------------------------
(***************************************************************************)
(* The inductive invariant behind it, as long as nothing failed: the       *)
(* brackets that are open are those of the stack; what was read fits, and  *)
(* the reader is where the text wants what it is about to read; the tree   *)
(* is what was read; and each name read is one of the tree.                *)
(***************************************************************************)
Bracket(kind) == IF kind = "object" THEN "{" ELSE "["
BracketsOpen(t, fs, n) ==
  /\ \A q \in 0 .. n : Depth(q) >= 0
  /\ Depth(n) = Len(fs)
  /\ \A k \in DOMAIN fs :
       LET s == t[PathTo(fs, k - 1)].start
       IN  /\ s \in 0 .. n - 1 /\ Lex(s) = Bracket(fs[k].kind) /\ Depth(s) = k - 1
           /\ \A q \in s + 1 .. n : Depth(q) >= k
FitsBefore(n) == NamesDiffer(n) /\ \A p \in 0 .. n - 1 : Fits(p)
WantsWhatComes(fs, state, n) ==
  /\ state = "value" => WantsValue(n) /\ (Previous(n) = "[" => Lex(n) \notin Blanks \cup {"]"})
  /\ state = "member" => WantsName(n)
  /\ state = "return" => ValueEnds(n)
  /\ \A k \in DOMAIN fs : fs[k].key = <<"name", "empty">> <=>
                            state = "member" /\ k = Len(fs) /\ Previous(n) = "{"
Awaited(fs, state) == IF state = "value" THEN {Path(fs)} ELSE {}
Held(t, fs, state) == DOMAIN t \ Awaited(fs, state)
StartsDiffer(t, S) == \A v, w \in S : t[v].start = t[w].start => v = w
TreeDenotes(t, S, A, n) ==
  /\ Denotes(t, S, n) /\ StartsDiffer(t, S)
  /\ \A v \in A : Belongs(t, S, v, n) /\ \A w \in S : ~IsStrictPrefix(v, w)
NamesAreKeys(t, n) ==
  /\ \A i \in 0 .. n - 1 : IsName(i) =>
       \E v \in DOMAIN t \ {<<>>} : Last(v) = <<"name", Lex(i)>> /\ t[Front(v)].start = Holder(i)
  /\ \A v \in DOMAIN t \ {<<>>} : Last(v)[1] = "name" =>
       \E i \in 0 .. n - 1 : /\ IsName(i) /\ Lex(i) = Last(v)[2]
                             /\ t[Front(v)].start = Holder(i)
Parsed(t, fs, state, n) == /\ BracketsOpen(t, fs, n) /\ FitsBefore(n)
                           /\ WantsWhatComes(fs, state, n)
                           /\ TreeDenotes(t, Held(t, fs, state), Awaited(fs, state), n)
                           /\ NamesAreKeys(t, n)
SyntaxOK == (Strict /\ Plain /\ pc \in {"value", "member", "return"}) =>
              IF ok THEN Parsed(tree, frames, pc, pos) ELSE ~IsJson
SyntaxInv == PlacesInv /\ SyntaxOK /\ AcceptsJson
=============================================================================
