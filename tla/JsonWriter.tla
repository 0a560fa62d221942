------------------------------ MODULE JsonWriter ------------------------------
(***************************************************************************)
(* The four writers of JSON (src/src/jsoncpp): FastWriter, StyledWriter,   *)
(* StyledStreamWriter and the BuiltStyledStreamWriter that                 *)
(* StreamWriterBuilder makes.  They lay out a tree of values: line breaks, *)
(* indentation and comments.                                               *)
(*                                                                         *)
(* A tree maps paths to [type, before, same, after]; a comment is a        *)
(* sequence of comment texts, "//" being a line comment without its line   *)
(* break and "// " one that ends in a blank.  What is written is a         *)
(* sequence of lexemes as JsonReader reads them, except for such comments, *)
(* which Scan closes.                                                      *)
(***************************************************************************)
EXTENDS Integers, Sequences, FiniteSets, SequencesExt, FiniteSetsExt

CONSTANTS RightMargin,      \* rightMargin_, counting lexemes
          NameOrder         \* the names of members, in their order

\* A writer: its class, whether indentation_ is not empty, whether comments are
\* kept (cs_ of the built writer), and dropNullPlaceholders_ or an empty nullSymbol_.
Writers == [class : {"Fast", "Styled", "StyledStream", "Built"},
            indentation : BOOLEAN, comments : BOOLEAN, dropNulls : BOOLEAN]

Uncommented(type) == [type |-> type, before |-> <<>>, same |-> <<>>, after |-> <<>>]
\* value[index] of an array with holes.
At(t, p) == IF p \in DOMAIN t THEN t[p] ELSE Uncommented("null")
Below(t, p) == {q \in DOMAIN t : Len(q) = Len(p) + 1 /\ IsPrefix(p, q)}
Members(t, p) == [i \in 1 .. Cardinality(Below(t, p)) |->
                    SelectSeq(NameOrder, LAMBDA n : Append(p, <<"name", n>>) \in DOMAIN t)[i]]
SizeAt(t, p) == IF Below(t, p) = {} THEN 0
                ELSE IF At(t, p).type = "object" THEN Cardinality(Below(t, p))
                ELSE Max({q[Len(q)][2] : q \in Below(t, p)}) + 1
Elements(t, p) == [i \in 1 .. SizeAt(t, p) |-> Append(p, <<"index", i - 1>>)]

\* What is on the line so far: the text, indented_, and the length of indentString_.
Blank == [out |-> <<>>, indented |-> TRUE, level |-> 0]
Emit(s, x) == [s EXCEPT !.out = @ \o x]
Indent(s)   == [s EXCEPT !.level = @ + 1]
Unindent(s) == [s EXCEPT !.level = @ - 1]
IndentString(w, s) == IF w.indentation /\ s.level > 0 THEN <<" ">> ELSE <<>>

WriteIndent(w, s) ==
  LET last == IF s.out = <<>> THEN "\n" ELSE s.out[Len(s.out)]
  IN  IF w.class = "Styled"
      THEN IF last \in {" ", "// "} THEN s     \* "already indented"
           ELSE Emit(s, (IF last = "\n" THEN <<>> ELSE <<"\n">>) \o IndentString(w, s))
      ELSE IF w.class = "StyledStream" \/ w.indentation
           THEN Emit(s, <<"\n">> \o IndentString(w, s))
           ELSE s
IndentOnce(w, s) == IF w.class # "Styled" /\ s.indented THEN s ELSE WriteIndent(w, s)
WriteWithIndent(w, s, x) == [Emit(IndentOnce(w, s), x) EXCEPT !.indented = FALSE]

\* Comments one after the other, the last without its line break: with what is
\* written at the start of each line, or as they are.
Lines(comments, start) ==
  FlattenSeq([i \in DOMAIN comments |->
    <<comments[i]>> \o IF comments[i] \in {"//", "// "} /\ i < Len(comments)
                       THEN <<"\n">> \o start ELSE <<>>])
Written(w, s, comments) == Lines(comments, IndentString(w, s))
Copied(comments)        == Lines(comments, <<>>)
Keeps(w) == w.class \in {"Styled", "StyledStream"} \/ (w.class = "Built" /\ w.comments)
HasComment(v) == v.before # <<>> \/ v.same # <<>> \/ v.after # <<>>
CommentBeforeOnLine(w, s, v) ==            \* fault: no line break before the value
  IF ~Keeps(w) \/ v.before = <<>> THEN s
  ELSE [Emit(IndentOnce(w, s), Written(w, s, v.before)) EXCEPT !.indented = TRUE]
WriteCommentBeforeValue(w, s, v) ==
  IF ~Keeps(w) \/ v.before = <<>> THEN s
  ELSE IF w.class = "Styled"
  THEN Emit(WriteIndent(w, Emit(s, <<"\n">>)), Written(w, s, v.before) \o <<"\n">>)
  ELSE [Emit(IndentOnce(w, s), Written(w, s, v.before)) EXCEPT !.indented = FALSE]
WriteCommentAfterValueOnSameLine(w, s, v) ==
  LET same == IF v.same = <<>> THEN s ELSE Emit(s, <<" ">> \o Copied(v.same))
      text == Copied(v.after)
      both == IF v.after = <<>> THEN same
              ELSE IF w.class = "Styled" THEN Emit(same, <<"\n">> \o text \o <<"\n">>)
              ELSE Emit(WriteIndent(w, same), text)
  IN  IF ~Keeps(w) THEN s
      ELSE IF w.class = "StyledStream" THEN [both EXCEPT !.indented = FALSE] ELSE both

\* StyledWriter and StyledStreamWriter quote a name as far as its first zero byte.
QuotedName(w, n) == IF w.class \in {"Styled", "StyledStream"} /\ n = "a0" THEN "a" ELSE n
Colon(w) == IF w.class = "Fast" \/ (w.class = "Built" /\ ~w.indentation)
            THEN <<":">> ELSE <<" ", ":", " ">>
\* Whether an array on one line has blanks in it.
Padding(w) == IF w.class = "Built" /\ ~w.indentation THEN <<>> ELSE <<" ">>

\* A value without line breaks: a scalar, or an empty array or object.
Scalar(w, t, p) ==
  LET type == At(t, p).type
  IN  CASE type = "array"  -> <<"[", "]">>
        [] type = "object" -> <<"{", "}">>
        [] type = "null" /\ w.dropNulls -> <<>>
        [] OTHER -> <<type>>
Simple(t, p) == SizeAt(t, p) = 0

(***************************************************************************)
(* isMultineArray: long, or with something below an element, or with a     *)
(* comment on one; it leaves the texts of the elements in childValues_     *)
(* unless one of the first two already decided.                            *)
(***************************************************************************)
KeepsChildValues(w, t, p) ==
  /\ ~(w.class = "Built" /\ w.comments)
  /\ 3 * SizeAt(t, p) < RightMargin
  /\ \A i \in 1 .. SizeAt(t, p) : Simple(t, Elements(t, p)[i])
LineLength(w, t, p) ==
  4 + 2 * (SizeAt(t, p) - 1)
    + FoldLeft(LAMBDA n, q : n + Len(Scalar(w, t, q)), 0, Elements(t, p))
IsMultiline(w, t, p) ==
  \/ ~KeepsChildValues(w, t, p)
  \/ \E i \in 1 .. SizeAt(t, p) : HasComment(At(t, Elements(t, p)[i]))
  \/ LineLength(w, t, p) >= RightMargin

Joined(texts, separator) ==
  FlattenSeq([i \in DOMAIN texts |-> (IF i > 1 THEN separator ELSE <<>>) \o texts[i]])
WriteOnOneLine(w, s, t, p) ==
  LET pad   == Padding(w)
      texts == [i \in 1 .. SizeAt(t, p) |-> Scalar(w, t, Elements(t, p)[i])]
  IN  Emit(s, <<"[">> \o pad \o Joined(texts, <<",">> \o pad) \o pad \o <<"]">>)

RECURSIVE WriteValue(_, _, _, _), FastValue(_, _, _)
\* FastWriter::writeValue.
FastValue(w, t, p) ==
  IF Simple(t, p) THEN Scalar(w, t, p)
  ELSE IF At(t, p).type = "array"
  THEN <<"[">> \o Joined([i \in 1 .. SizeAt(t, p) |->
                            FastValue(w, t, Elements(t, p)[i])], <<",">>) \o <<"]">>
  ELSE LET names == Members(t, p)
       IN <<"{">> \o Joined([i \in DOMAIN names |->
                               <<names[i], ":">> \o FastValue(w, t, Append(p, <<"name", names[i]>>))],
                            <<",">>) \o <<"}">>

\* A member or an element and the comma and comments after it.
WriteEnd(w, s, t, q, last) ==
  WriteCommentAfterValueOnSameLine(w, IF last THEN s ELSE Emit(s, <<",">>), At(t, q))
WriteMember(w, s, t, p, n, last) ==
  LET q == Append(p, <<"name", n>>)
      before == WriteCommentBeforeValue(w, s, At(t, q))
      named  == Emit(WriteWithIndent(w, before, <<QuotedName(w, n)>>), Colon(w))
  IN  WriteEnd(w, WriteValue(w, named, t, q), t, q, last)
WriteElement(w, s, t, q, kept, last) ==
  LET before == WriteCommentBeforeValue(w, s, At(t, q))
      value  == IF kept THEN WriteWithIndent(w, before, Scalar(w, t, q))
                ELSE [WriteValue(w, [IndentOnce(w, before) EXCEPT !.indented = TRUE], t, q)
                        EXCEPT !.indented = FALSE]
  IN  WriteEnd(w, value, t, q, last)
\* writeValue and writeArrayValue of the other writers.
WriteValue(w, s, t, p) ==
  LET names == Members(t, p)
      elements == Elements(t, p)
      kept == KeepsChildValues(w, t, p)
  IN  IF Simple(t, p) THEN Emit(s, Scalar(w, t, p))
      ELSE IF At(t, p).type = "object"
      THEN WriteWithIndent(w, Unindent(
             FoldLeftDomain(LAMBDA r, i : WriteMember(w, r, t, p, names[i], i = Len(names)),
                            Indent(WriteWithIndent(w, s, <<"{">>)), names)), <<"}">>)
      ELSE IF IsMultiline(w, t, p)
      THEN WriteWithIndent(w, Unindent(
             FoldLeftDomain(LAMBDA r, i :
                              WriteElement(w, r, t, elements[i], kept, i = Len(elements)),
                            Indent(WriteWithIndent(w, s, <<"[">>)), elements)), <<"]">>)
      ELSE WriteOnOneLine(w, s, t, p)

\* write(): the document.
Document(w, t) ==
  LET before == WriteCommentBeforeValue(w, Blank, t[<<>>])
      begun  == IF w.class = "Styled" THEN before
                ELSE [IndentOnce(w, before) EXCEPT !.indented = TRUE]
      ended  == WriteCommentAfterValueOnSameLine(w, WriteValue(w, begun, t, <<>>), t[<<>>])
  IN  CASE w.class = "Fast"  -> FastValue(w, t, <<>>) \o <<"\n">>
        [] w.class = "Built" -> ended.out
        [] OTHER             -> ended.out \o <<"\n">>

\* A line comment takes what follows up to the line break, or to the end.
Scan(out) ==
  LET Close(r) == IF r.more THEN "//more\n" ELSE r.comment \o "\n"
      Next(r, x) ==
        IF r.comment = ""
        THEN IF x \in {"//", "// "} THEN [r EXCEPT !.comment = x]
             ELSE [r EXCEPT !.text = Append(@, x)]
        ELSE IF x = "\n" THEN [text |-> Append(r.text, Close(r)), comment |-> "", more |-> FALSE]
             ELSE [r EXCEPT !.more = TRUE]
      end == FoldLeft(Next, [text |-> <<>>, comment |-> "", more |-> FALSE], out)
  IN  IF end.comment = "" THEN end.text ELSE Append(end.text, Close(end))
=============================================================================
