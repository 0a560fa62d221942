------------------------------ MODULE JsonReader ------------------------------
(***************************************************************************)
(* The JSON reader compiled into the extension (src/src/jsoncpp): class    *)
(* Reader and its successor OurReader, one recursive descent over the      *)
(* text with a stack of values under construction (nodes_), error          *)
(* recovery, comments attached to values, and source offsets.              *)
(*                                                                         *)
(* A document is a sequence of lexemes, each one offset wide: what the     *)
(* scanner does inside a lexeme is in JsonText and JsonNumbers.  "NUL" is  *)
(* the zero byte (and the end of the text), "?" a character no token       *)
(* starts with, "open" a string or comment that is never closed, "a0" a    *)
(* string that ends in a zero byte; of line comments, one ends in a blank  *)
(* and one has something after the slashes.                                *)
(***************************************************************************)
EXTENDS Integers, Sequences, FiniteSets, SequencesExt

CONSTANTS Documents,        \* texts the first parse() may be given
          Reparsed,         \* texts a later parse() on the same reader may be given
          Configurations    \* readers: the class and its features

Blanks       == {" ", "\n"}
LineComments == {"//\n", "// \n", "//more\n"}
Comments     == {"/**/", "/*\n*/"} \cup LineComments
Strings      == {"a", "b", "a0", "empty", "badstring"}
Numbers      == {"1", "badnumber"}
Undecodable  == {"badstring", "badnumber"}
Literals     == {"true", "null"}
Closers      == {",", "}", "]"}
Lexemes      == Blanks \cup Comments \cup Strings \cup Numbers \cup Literals
                  \cup Closers \cup {"{", "[", ":", "NaN", "?", "open", "NUL"}

ASSUME JsonReaderAssumption ==
  /\ Documents \cup Reparsed \subseteq Seq(Lexemes)
  /\ \A c \in Configurations : c.stackLimit \in Nat

VARIABLES conf, doc,          \* features_, [begin_, end_)
          pos,                \* current_
          frames,             \* the open readObject and readArray calls
          tree,               \* root and what is below it, by path
          lastValue, lastEnd, \* lastValue_ ({}: null pointer), lastValueEnd_
          commentsBefore,     \* commentsBefore_, as the offsets of the comments
          errors, ok, pc

vars == <<conf, doc, pos, frames, tree, lastValue, lastEnd, commentsBefore,
          errors, ok, pc>>

Collects == conf.collectComments /\ conf.allowComments
Null == [type |-> "null", start |-> 0, limit |-> 0,
         before |-> {}, same |-> {}, after |-> {}]
Lex(i) == IF i < Len(doc) THEN doc[i + 1] ELSE "NUL"
First(p, Wanted) == CHOOSE i \in p .. Len(doc) :
                       /\ Lex(i) \in Wanted
                       /\ \A j \in p .. i - 1 : Lex(j) \notin Wanted
Past(i) == IF Lex(i) = "open" \/ i = Len(doc) THEN Len(doc) ELSE i + 1

(***************************************************************************)
(* readToken: the next lexeme that is not in Skipped.                      *)
(***************************************************************************)
TokenFrom(p, Skipped) ==
  LET i == First(p, Lexemes \ Skipped)
  IN  [lex |-> IF Lex(i) = "NaN" /\ ~conf.specialFloats THEN "?" ELSE Lex(i),
       start |-> i, end |-> Past(i)]
AnyToken(p)     == TokenFrom(p, Blanks)
CommentsSkipped(p) == TokenFrom(p, Blanks \cup Comments)
ValueToken(p)   == IF conf.allowComments THEN CommentsSkipped(p) ELSE AnyToken(p)

(***************************************************************************)
(* Comments read between offsets p and q: one on the line where the last   *)
(* value ended is that value's (the later one replaces the earlier), the   *)
(* others wait for the next value.                                         *)
(***************************************************************************)
ContainsNewLine(p, q) ==
  \E i \in p .. q - 1 : Lex(i) \in {"\n", "/*\n*/"} \cup LineComments
CommentsIn(p, q) == IF Collects THEN {i \in p .. q - 1 : Lex(i) \in Comments} ELSE {}
OnSameLine(i) == /\ lastValue # {}
                 /\ ~ContainsNewLine(lastEnd, i)
                 /\ Lex(i) # "/*\n*/"
SameLine(p, q) == {i \in CommentsIn(p, q) : OnSameLine(i)}
AddComments(p, q) ==
  [v \in DOMAIN tree |->
     IF v \in lastValue /\ SameLine(p, q) # {}
     THEN [tree[v] EXCEPT !.same =
             {CHOOSE i \in SameLine(p, q) : \A j \in SameLine(p, q) : j <= i}]
     ELSE tree[v]]
Waiting(p, q) == commentsBefore \cup (CommentsIn(p, q) \ SameLine(p, q))

\* The value on top of nodes_ when a value is read, and when a container closes.
Path(fs) == [i \in DOMAIN fs |-> fs[i].key]
Container == Path(Front(frames))

\* swapPayload with a new payload: what was below the value is gone.
SwapPayload(t, v, type) ==
  [w \in {u \in DOMAIN t : ~IsStrictPrefix(v, u)} |->
     IF w = v THEN [t[w] EXCEPT !.type = type] ELSE t[w]]
\* operator[]: the member or element, created null when it is missing.
Resolve(t, v) == [w \in DOMAIN t \cup {v} |-> IF w \in DOMAIN t THEN t[w] ELSE Null]
SetStartOnly(t, v, start, limit) ==        \* fault: the end is not set
  [t EXCEPT ![v].start = start]
SetOffsets(t, v, start, limit) ==
  [t EXCEPT ![v].start = start, ![v].limit = limit]

AddError(token) == errors' = Append(errors, [start |-> token.start, limit |-> token.end])

\* The end of readValue for the value v, at offset e.
Return(t, v, e, success) ==
  /\ tree' = t /\ pos' = e /\ ok' = success /\ pc' = "return"
  /\ lastValue' = IF Collects THEN {v} ELSE lastValue
  /\ lastEnd'   = IF Collects THEN e ELSE lastEnd
  /\ UNCHANGED <<conf, doc>>

\* readObject or readArray returns to the readValue that called it.
CloseContainerKeepingLast(t, e, success) ==     \* fault: lastValue_ not moved
  /\ tree' = [t EXCEPT ![Container].limit = e]
  /\ pos' = e /\ ok' = success /\ pc' = "return" /\ frames' = Front(frames)
  /\ UNCHANGED <<conf, doc, lastValue, lastEnd>>
CloseContainer(t, e, success) ==
  /\ Return([t EXCEPT ![Container].limit = e], Container, e, success)
  /\ frames' = Front(frames)

(***************************************************************************)
(* recoverFromError: skip to the closing token of the container or to the  *)
(* end, reading comments on the way (from is where this handler began).    *)
(***************************************************************************)
Closer == IF Last(frames).kind = "object" THEN "}" ELSE "]"
RecoverAndGoOn(from, p) ==                 \* fault: the failure is forgotten
  LET at == First(p, {Closer, "NUL", "open"})
  IN  /\ CloseContainer(AddComments(from, at), Past(at), TRUE)
      /\ commentsBefore' = Waiting(from, at)
RecoverToCloser(from, p) ==                \* fault: at the end of the text it looks again
  LET at == First(p, {Closer, "NUL", "open"})
  IN  /\ Return([AddComments(from, at) EXCEPT ![Container].limit = Past(at)],
                Container, Past(at), FALSE)
      /\ frames' = IF Lex(at) = Closer THEN Front(frames) ELSE frames
      /\ commentsBefore' = Waiting(from, at)
RecoverFromError(from, p) ==
  LET at == First(p, {Closer, "NUL", "open"})
  IN  /\ CloseContainer(AddComments(from, at), Past(at), FALSE)
      /\ commentsBefore' = Waiting(from, at)

-----------------------------------------------------------------------------
Idle == /\ pos = 0 /\ frames = <<>> /\ tree = [v \in {<<>>} |-> Null]
        /\ lastValue = {} /\ lastEnd = 0 /\ commentsBefore = {}
        /\ errors = <<>> /\ ok = TRUE

\* parse() has been called on a new root for the first time.
Init == /\ conf \in Configurations
        /\ doc \in Documents \cup Reparsed
        /\ pc = "value" /\ Idle

\* A later parse(), on another root: what the last call left behind is reset.
Parse(d) ==
  /\ pc \in {"done", "pushed", "thrown"}
  /\ doc' = d /\ pc' = "value"
  /\ pos' = 0 /\ frames' = <<>> /\ tree' = [v \in {<<>>} |-> Null]
  /\ lastValue' = {} /\ lastEnd' = 0 /\ commentsBefore' = {}
  /\ errors' = <<>> /\ ok' = TRUE
  /\ UNCHANGED conf

\* readValue when nodes_ is deeper than the limit: throwRuntimeError.
ExceedStackLimit ==
  /\ pc = "value" /\ Len(frames) + 1 > conf.stackLimit
  /\ pc' = "thrown"
  /\ UNCHANGED <<conf, doc, pos, frames, tree, lastValue, lastEnd,
                 commentsBefore, errors, ok>>

(***************************************************************************)
(* readValue up to its switch: the token, and the tree once the comments   *)
(* before the token have been placed.                                      *)
(***************************************************************************)
Token == ValueToken(pos)
Commented ==
  LET waiting == Waiting(pos, Token.start) t == AddComments(pos, Token.start)
  IN  IF waiting = {} THEN t ELSE [t EXCEPT ![Path(frames)].before = waiting]
ReadValue == /\ pc = "value" /\ Len(frames) + 1 <= conf.stackLimit
             /\ commentsBefore' = {}

ReadScalar ==
  /\ ReadValue
  /\ Token.lex \in Literals \cup Strings \cup Numbers \cup {"NaN"}
  /\ LET v == Path(frames)
         bad == Token.lex \in Undecodable
     IN  /\ IF bad THEN AddError(Token) ELSE UNCHANGED errors
         /\ Return(IF bad THEN Commented
                   ELSE SetOffsets(SwapPayload(Commented, v, Token.lex), v,
                                   Token.start, Token.end),
                   v, Token.end, ~bad)
  /\ UNCHANGED frames

\* readObject up to its loop.
BeginObject ==
  /\ ReadValue /\ Token.lex = "{"
  /\ tree' = [SwapPayload(Commented, Path(frames), "object")
                EXCEPT ![Path(frames)].start = Token.start]
  /\ frames' = Append(frames, [kind |-> "object", key |-> <<"name", "empty">>])
  /\ pos' = Token.end /\ pc' = "member"
  /\ UNCHANGED <<conf, doc, lastValue, lastEnd, errors, ok>>

\* readArray up to its first element, or the whole of it on "[]".
BeginArray ==
  /\ ReadValue /\ Token.lex = "["
  /\ LET v == Path(frames)
         t == [SwapPayload(Commented, v, "array") EXCEPT ![v].start = Token.start]
         next == AnyToken(Token.end)
     IN  \/ /\ next.lex = "]"
            /\ Return([t EXCEPT ![v].limit = next.end], v, next.end, TRUE)
            /\ UNCHANGED frames
         \/ /\ next.lex # "]"
            /\ tree' = Resolve(t, Append(v, <<"index", 0>>))
            /\ frames' = Append(frames, [kind |-> "array", key |-> <<"index", 0>>])
            /\ pos' = next.start /\ pc' = "value"
            /\ UNCHANGED <<conf, doc, lastValue, lastEnd, ok>>
  /\ UNCHANGED errors

\* A token that ends or separates values stands for a null and is read again.
DropNull ==
  /\ ReadValue /\ Token.lex \in Closers /\ conf.dropNulls
  /\ LET v == Path(frames)
     IN  Return(SetOffsets(SwapPayload(Commented, v, "null"), v,
                           Token.start - 1, Token.start),
                v, Token.start, TRUE)
  /\ UNCHANGED <<frames, errors>>

\* "Syntax error: value, object or array expected."
SyntaxError ==
  /\ ReadValue
  /\ \/ Token.lex \in {":", "?", "open", "NUL"} \cup Comments
     \/ Token.lex \in Closers /\ ~conf.dropNulls
  /\ tree' = SetOffsets(Commented, Path(frames), Token.start, Token.end)
  /\ pos' = Token.end /\ ok' = FALSE /\ pc' = "return"
  /\ AddError(Token)
  /\ UNCHANGED <<conf, doc, frames, lastValue, lastEnd>>

(***************************************************************************)
(* The loop of readObject: a name, a colon, and the member to read into;   *)
(* a '}' where a name is expected closes the object while the last name    *)
(* is empty.                                                               *)
(***************************************************************************)
ReadMember ==
  /\ pc = "member"
  /\ LET name  == CommentsSkipped(pos)
         colon == AnyToken(name.end)
         IsName == \/ name.lex \in Strings
                   \/ name.lex \in Numbers /\ conf.numericKeys
         member == Append(Container, <<"name", name.lex>>)
         duplicate == conf.rejectDupKeys /\ member \in DOMAIN tree
     IN  \/ /\ name.lex = "}" /\ Last(frames).key = <<"name", "empty">>
            /\ CloseContainer(AddComments(pos, name.start), name.end, TRUE)
            /\ commentsBefore' = Waiting(pos, name.start)
            /\ UNCHANGED errors
         \/ /\ ~IsName /\ (name.lex = "}" => Last(frames).key # <<"name", "empty">>)
            /\ AddError(name) /\ RecoverFromError(pos, name.end)
         \/ /\ IsName /\ name.lex \in Numbers /\ conf.class = "Reader"
            /\ name.lex \notin Undecodable
            /\ pc' = "thrown"            \* asCString() of a number
            /\ UNCHANGED <<conf, doc, pos, frames, tree, lastValue, lastEnd,
                           commentsBefore, errors, ok>>
         \/ /\ IsName /\ name.lex \in Undecodable
            /\ AddError(name) /\ RecoverFromError(pos, name.end)
         \/ /\ IsName /\ name.lex \notin Undecodable
            /\ name.lex \in Numbers => conf.class # "Reader"
            /\ \/ /\ colon.lex # ":"
                  /\ AddError(colon) /\ RecoverFromError(pos, colon.end)
               \/ /\ colon.lex = ":" /\ duplicate
                  /\ AddError(name) /\ RecoverFromError(pos, colon.end)
               \/ /\ colon.lex = ":" /\ ~duplicate
                  /\ tree' = Resolve(AddComments(pos, name.start), member)
                  /\ commentsBefore' = Waiting(pos, name.start)
                  /\ frames' = [frames EXCEPT ![Len(frames)].key = <<"name", name.lex>>]
                  /\ pos' = colon.end /\ pc' = "value"
                  /\ UNCHANGED <<conf, doc, lastValue, lastEnd, errors, ok>>

(***************************************************************************)
(* After a member: '}' or ','.  Only the first token is checked: what      *)
(* follows a comment is taken for the comma whatever it is.                *)
(***************************************************************************)
AfterMember ==
  /\ pc = "return" /\ frames # <<>> /\ ok /\ Last(frames).kind = "object"
  /\ LET first == AnyToken(pos)
         comma == CommentsSkipped(pos)
         t     == AddComments(pos, comma.start)
     IN  \/ /\ first.lex \notin {"}", ","} \cup Comments
            /\ AddError(first) /\ RecoverFromError(pos, first.end)
         \/ /\ comma.lex = "}"
            /\ CloseContainer(t, comma.end, TRUE)
            /\ commentsBefore' = Waiting(pos, comma.start)
            /\ UNCHANGED errors
         \/ /\ first.lex \in {","} \cup Comments /\ comma.lex # "}"
            /\ tree' = t /\ pos' = comma.end /\ pc' = "member"
            /\ commentsBefore' = Waiting(pos, comma.start)
            /\ UNCHANGED <<conf, doc, frames, lastValue, lastEnd, errors, ok>>

\* After an element: ']' or ',' and the next element.
AfterElement ==
  /\ pc = "return" /\ frames # <<>> /\ ok /\ Last(frames).kind = "array"
  /\ LET token == CommentsSkipped(pos)
         t     == AddComments(pos, token.start)
         next  == <<"index", Last(frames).key[2] + 1>>
     IN  \/ /\ token.lex = "]"
            /\ CloseContainer(t, token.end, TRUE)
            /\ commentsBefore' = Waiting(pos, token.start)
            /\ UNCHANGED errors
         \/ /\ token.lex = ","
            /\ tree' = Resolve(t, Append(Container, next))
            /\ frames' = [frames EXCEPT ![Len(frames)].key = next]
            /\ pos' = token.end /\ pc' = "value"
            /\ commentsBefore' = Waiting(pos, token.start)
            /\ UNCHANGED <<conf, doc, lastValue, lastEnd, errors, ok>>
         \/ /\ token.lex \notin {"]", ","}
            /\ AddError(token) /\ RecoverFromError(pos, token.end)

\* A member or an element failed ("error already set").
AfterFailure ==
  /\ pc = "return" /\ frames # <<>> /\ ~ok
  /\ RecoverFromError(pos, pos)
  /\ UNCHANGED errors

(***************************************************************************)
(* The rest of parse(): extra text, the comment after the root, and the    *)
(* type of the root.                                                       *)
(***************************************************************************)
TrailingTextIfStrict(token) ==             \* fault: || written as &&
  conf.failIfExtra /\ conf.strictRoot /\ token.lex \notin {"NUL", "?", "open"}
TrailingText(token) == /\ conf.failIfExtra
                       /\ conf.strictRoot \/ token.lex \notin {"?", "open"}
                       /\ token.lex # "NUL"
FinishParse ==
  /\ pc = "return" /\ frames = <<>>
  /\ LET token   == ValueToken(pos)
         t       == AddComments(pos, token.start)
         waiting == Waiting(pos, token.start)
         extra   == TrailingText(token)
         badRoot == conf.strictRoot /\ t[<<>>].type \notin {"array", "object"}
     IN  /\ tree' = IF extra \/ waiting = {} THEN t
                    ELSE [t EXCEPT ![<<>>].after = waiting]
         /\ errors' = IF extra \/ badRoot
                      THEN Append(errors, IF extra THEN [start |-> token.start, limit |-> token.end]
                                          ELSE [start |-> 0, limit |-> Len(doc)])
                      ELSE errors
         /\ ok' = (ok /\ ~extra /\ ~badRoot)
         /\ pos' = token.end /\ pc' = "done" /\ commentsBefore' = waiting
  /\ UNCHANGED <<conf, doc, frames, lastValue, lastEnd>>

\* pushError: the caller reports a value of the tree as wrong (once per parse,
\* a bound of the model); the overload with an extra value computes the end of
\* the range from the beginning of the text, the other from its end.
PushErrorToken(v, limit) ==
  /\ pc = "done"
  /\ tree[v].start <= Len(doc) /\ tree[v].limit <= Len(doc)
  /\ errors' = Append(errors, [start |-> tree[v].start, limit |-> limit])
  /\ pc' = "pushed"
  /\ UNCHANGED <<conf, doc, pos, frames, tree, lastValue, lastEnd,
                 commentsBefore, ok>>
PushError(v) == PushErrorToken(v, Len(doc) + tree[v].limit)
PushErrorWithExtra(v, extra) ==
  /\ tree[extra].limit <= Len(doc)
  /\ PushErrorToken(v, tree[v].limit)

Step == \/ ExceedStackLimit \/ ReadScalar \/ BeginObject \/ BeginArray
        \/ DropNull \/ SyntaxError \/ ReadMember \/ AfterMember
        \/ AfterElement \/ AfterFailure \/ FinishParse
Next == \/ \E d \in Reparsed : Parse(d)
        \/ \E v, extra \in DOMAIN tree : PushError(v) \/ PushErrorWithExtra(v, extra)
        \/ Step

Spec == Init /\ [][Next]_vars

-----------------------------------------------------------------------------
Keys  == ({"name"} \X Lexemes) \cup ({"index"} \X Nat)
Nodes == [type : Lexemes \cup {"object", "array"}, start : Int, limit : Int,
          before : SUBSET Nat, same : SUBSET Nat, after : SUBSET Nat]

\* What the reader's state may hold; the text is never read past its end.
TypeOK ==
  /\ conf \in Configurations /\ doc \in Seq(Lexemes)
  /\ pos \in 0 .. Len(doc) /\ lastEnd \in 0 .. Len(doc)
  /\ frames \in Seq([kind : {"object", "array"}, key : Keys])
  /\ Len(frames) <= conf.stackLimit
  /\ DOMAIN tree \subseteq Seq(Keys) /\ tree \in [DOMAIN tree -> Nodes]
  /\ lastValue \subseteq Seq(Keys) /\ Cardinality(lastValue) <= 1
  /\ commentsBefore \subseteq Nat
  /\ errors \in Seq([start : Int, limit : Int]) /\ ok \in BOOLEAN
  /\ pc \in {"value", "member", "return", "done", "pushed", "thrown"}

(***************************************************************************)
(* The last value, which a comment on its line is attached to, is a value  *)
(* of the tree: not one that a duplicate name has replaced meanwhile       *)
(* (lastValue_ is a plain pointer).                                        *)
(***************************************************************************)
LastValueIsLive == lastValue \subseteq DOMAIN tree

(***************************************************************************)
(* parse() returns false exactly when it has an error to report, and the   *)
(* structured errors it reports lie in the text.                           *)
(***************************************************************************)
FailureIsReported ==
  pc = "done" => /\ ok <=> errors = <<>>
                 /\ \A i \in DOMAIN errors :
                      /\ 0 <= errors[i].start /\ errors[i].start <= errors[i].limit
                      /\ errors[i].limit <= Len(doc)

Mentions(S) == \E i \in DOMAIN doc : doc[i] \in S
(***************************************************************************)
(* The stack of values mirrors the text: the brackets open where a value   *)
(* is expected are the containers being read.  (On texts without comments: *)
(* after a member and a comment the reader takes any token for a comma.)   *)
(***************************************************************************)
Count(S, p) == Cardinality({i \in 1 .. p : doc[i] \in S})
Depth(p) == Count({"{", "["}, p) - Count({"}", "]"}, p)
StackMirrorsText == (pc = "value" /\ ~Mentions(Comments)) => Len(frames) = Depth(pos)

(***************************************************************************)
(* The [start, limit) ranges of an accepted document nest as its values    *)
(* do, and the elements of an array do not overlap.                        *)
(***************************************************************************)
Accepted == pc = "done" /\ ok
Below    == DOMAIN tree \ {<<>>}
Precedes(v, w) == Front(w) = Front(v) /\ Last(v)[1] = "index" /\ Last(v)[2] < Last(w)[2]
RangesNest ==
  Accepted =>
    \A v \in Below :
      LET up == tree[Front(v)] IN
      /\ up.start <= tree[v].start /\ tree[v].start <= tree[v].limit
      /\ tree[v].limit <= up.limit
      /\ \A w \in Below : Precedes(v, w) => tree[v].limit <= tree[w].start

(***************************************************************************)
(* Where no name repeats, a comment kept "before" a value is before it,    *)
(* and one kept "after, on the same line" follows it on its line.  (Of     *)
(* values that are in the text: a dropped null has a range of its own.)    *)
(***************************************************************************)
NameAt(i) == Lex(i) \in Strings \cup Numbers /\ AnyToken(i + 1).lex = ":"
NoNameRepeats == \A i, j \in 0 .. Len(doc) - 1 :
                    (NameAt(i) /\ NameAt(j) /\ Lex(i) = Lex(j)) => i = j
InText(v) == tree[v].type = "null" => tree[v].start >= 0 /\ Lex(tree[v].start) = "null"
CommentsNear(v) ==
  /\ InText(v) => \A i \in tree[v].before : i < tree[v].start
  /\ \A i \in tree[v].same : tree[v].limit <= i /\ ~ContainsNewLine(tree[v].limit, i)
CommentsAreNear == (Accepted /\ NoNameRepeats) => \A v \in DOMAIN tree : CommentsNear(v)

(***************************************************************************)
(* Places in the text are kept right: of what is open while it is read,    *)
(* and of the values and the comments of what was accepted.                *)
(***************************************************************************)
PlacesAreRight == StackMirrorsText /\ RangesNest /\ CommentsAreNear

(***************************************************************************)
(* Reading comes to an end, error recovery included: every step goes on in *)
(* the text, or returns from a container, or else from a value or parse(). *)
(***************************************************************************)
Rank(p) == CASE p \in {"value", "member"} -> 2
             [] p = "return"             -> 1
             [] OTHER                    -> 0
Advances == \/ pos < pos'
            \/ pos' = pos /\ Len(frames') < Len(frames)
            \/ pos' = pos /\ frames' = frames /\ Rank(pc') < Rank(pc)
ReadingAdvances == [][Step => Advances]_vars

-----------------------------------------------------------------------------
(***************************************************************************)
(* The inductive invariant behind these.  The containers being read, and   *)
(* outside readObject's loop the value being read too, are in the tree     *)
(* under the keys on the stack; the last value is no deeper than the       *)
(* stack, so reading a value over again never removes it; and nothing is   *)
(* read after a failure.                                                   *)
(***************************************************************************)
PathTo(fs, k) == [i \in 1 .. k |-> fs[i].key]
FramesOK ==
  /\ \A i \in DOMAIN frames :
       frames[i].kind = "array" => frames[i].key \in {"index"} \X Nat
  /\ pc = "member" => frames # <<>> /\ Last(frames).kind = "object"
OpenValuesOK ==
  /\ \A k \in 0 .. Len(frames) - 1 : PathTo(frames, k) \in DOMAIN tree
  /\ pc \in {"value", "return"} => PathTo(frames, Len(frames)) \in DOMAIN tree
LastValueOK ==
  /\ \A v \in lastValue : v \in DOMAIN tree /\ Len(v) <= Len(frames)
  /\ \A v, w \in lastValue : v = w
  /\ ~Collects => lastValue = {}
Within(range) == range.start \in 0 .. Len(doc) /\ range.limit \in range.start .. Len(doc)
ErrorsOK ==
  /\ pc # "pushed" => \A i \in DOMAIN errors : Within(errors[i])
  /\ pc \in {"value", "member"} => ok
  /\ pc \in {"value", "member", "return", "done"} => (ok <=> errors = <<>>)
IInv == TypeOK /\ FramesOK /\ OpenValuesOK /\ LastValueOK /\ ErrorsOK

(***************************************************************************)
(* And the one behind the places, as long as nothing failed.  A value of   *)
(* the tree is open while its container is read, stale where a value is    *)
(* about to be read into it, and closed otherwise.                         *)
(***************************************************************************)
Open(v)   == Len(v) < Len(frames) /\ v = PathTo(frames, Len(v))
Stale(v)  == pc = "value" /\ IsPrefix(Path(frames), v)
Complete(v) == ~Open(v) /\ ~Stale(v)
KindOf(key) == IF key[1] = "index" THEN "array" ELSE "object"
KindsOK ==
  /\ \A k \in DOMAIN frames : /\ frames[k].kind = KindOf(frames[k].key)
                              /\ tree[PathTo(frames, k - 1)].type = frames[k].kind
  /\ \A v \in Below : Front(v) \in DOMAIN tree /\ tree[Front(v)].type = KindOf(Last(v))
\* What was read lies before what is read next, and in its container.
RangesOK ==
  /\ \A v \in DOMAIN tree : Open(v) => tree[v].start < pos
  /\ \A v \in DOMAIN tree : Complete(v) => /\ tree[v].start <= tree[v].limit
                                         /\ tree[v].limit <= IF pc = "value" THEN pos - 1 ELSE pos
  /\ \A v \in Below : ~Stale(v) => /\ tree[Front(v)].start <= tree[v].start
                                   /\ Complete(Front(v)) => tree[v].limit <= tree[Front(v)].limit
ElementsOK ==
  /\ \A v, w \in Below : (~Stale(v) /\ ~Stale(w) /\ Precedes(v, w))
                          => tree[v].limit <= tree[w].start
  /\ \A k \in DOMAIN frames, v \in Below :
       (frames[k].kind = "array" /\ Front(v) = PathTo(frames, k - 1))
          => Last(v)[2] <= frames[k].key[2]
\* A name in the tree is one of the text; so if none repeats, a value is read
\* into a new one, and the last value is where it was.
CommentsOK ==
  /\ lastEnd <= pos
  /\ \A i \in commentsBefore : i < pos /\ Lex(i) \in Comments
  /\ \A v \in Below : Last(v)[1] = "name" =>
       \E i \in 0 .. pos - 1 : NameAt(i) /\ Lex(i) = Last(v)[2]
  /\ NoNameRepeats =>
       /\ pc = "value" => tree[Path(frames)] = Null
       /\ \A v \in lastValue : Complete(v) /\ tree[v].limit = lastEnd
       /\ \A v \in DOMAIN tree : CommentsNear(v) /\ (~Complete(v) => tree[v].same = {})
PlacesOK ==
  (ok /\ pc \in {"value", "member", "return"}) =>
     /\ ~Mentions(Comments) => Len(frames) = Depth(pos)
     /\ KindsOK /\ RangesOK /\ ElementsOK /\ CommentsOK
PlacesInv == IInv /\ PlacesOK /\ PlacesAreRight
=============================================================================
