--------------------------- MODULE JsonReaderProofs ---------------------------
(***************************************************************************)
(* What holds of the JSON reader on every text, with every configuration,  *)
(* however often it is used again.                                         *)
(***************************************************************************)
EXTENDS JsonSyntax, TLAPS, WellFoundedInduction, SequenceTheorems,
        FiniteSetTheorems

-----------------------------------------------------------------------------
(* Numbers, sequences.                                                     *)

\* The first and the last of some numbers of a range.
LEMMA Least ==
  ASSUME NEW T \in SUBSET Nat, T # {}
  PROVE  \E x \in T : \A y \in T : x <= y
<1>1. PICK x \in T : \A y \in T : ~(<<y, x>> \in OpToRel(<, Nat))
  BY NatLessThanWellFounded, WFMin, Zenon
<1>2. ASSUME NEW y \in T PROVE x <= y
  <2>1. ~(y < x)
    BY <1>1 DEF OpToRel
  <2> QED BY <2>1
<1> QED BY <1>2

LEMMA Greatest ==
  ASSUME NEW n \in Nat, NEW T \in SUBSET (0 .. n), T # {}
  PROVE  \E x \in T : \A y \in T : y <= x
<1> DEFINE S == {n - y : y \in T}
<1>0. \A y \in T : y \in 0 .. n /\ n - y \in Nat
  OBVIOUS
<1>1. S \in SUBSET Nat /\ S # {}
  BY <1>0
<1>2. PICK s \in S : \A r \in S : s <= r
  BY <1>1, Least
<1>3. PICK x \in T : s = n - x
  BY <1>2
<1>4. ASSUME NEW y \in T PROVE y <= x
  <2>1. n - x <= n - y
    BY <1>2, <1>3
  <2> QED BY <2>1
<1> QED BY <1>4

\* A sequence extends none that is not shorter.
LEMMA NotExtended ==
  ASSUME NEW S, NEW u \in Seq(S), NEW v \in Seq(S), Len(u) <= Len(v)
  PROVE  ~IsStrictPrefix(v, u)
<1> SUFFICES ASSUME IsStrictPrefix(v, u) PROVE FALSE
  OBVIOUS
<1>1. Len(v) <= Len(u) /\ SubSeq(v, 1, Len(v)) = SubSeq(u, 1, Len(v)) /\ v # u
  BY DEF IsStrictPrefix, IsPrefix
<1>2. Len(v) = Len(u)
  BY <1>1, LenProperties
<1>3. SubSeq(v, 1, Len(v)) = v /\ SubSeq(u, 1, Len(u)) = u
  OBVIOUS
<1> QED BY <1>1, <1>2, <1>3

-----------------------------------------------------------------------------
(* Tokens.                                                                 *)

LEMMA FirstIs ==
  ASSUME doc \in Seq(Lexemes), NEW p \in 0 .. Len(doc), NEW Wanted, "NUL" \in Wanted
  PROVE  /\ First(p, Wanted) \in p .. Len(doc)
         /\ Lex(First(p, Wanted)) \in Wanted
         /\ \A j \in p .. First(p, Wanted) - 1 : Lex(j) \notin Wanted
<1> DEFINE
  T == {i \in p .. Len(doc) : Lex(i) \in Wanted}
  Is(i) == i \in p .. Len(doc) /\ Lex(i) \in Wanted /\ \A j \in p .. i - 1 : Lex(j) \notin Wanted
<1>0. Len(doc) \in Nat /\ p \in Nat
  BY LenProperties
<1>1. Lex(Len(doc)) = "NUL"
  BY <1>0 DEF Lex
<1>2. Len(doc) \in T /\ T \in SUBSET Nat
  BY <1>0, <1>1
<1>3. PICK i \in T : \A j \in T : i <= j
  BY <1>2, Least
<1>4. ASSUME NEW j \in p .. i - 1 PROVE Lex(j) \notin Wanted
  <2>1. j \in p .. Len(doc) /\ ~(i <= j)
    BY <1>0
  <2> QED BY <2>1, <1>3
<1>5. Is(i)
  BY <1>3, <1>4
<1>6. First(p, Wanted) = CHOOSE k \in p .. Len(doc) :
                            Lex(k) \in Wanted /\ \A j \in p .. k - 1 : Lex(j) \notin Wanted
  BY DEF First
<1> QED BY <1>5, <1>6

LEMMA LexIs ==
  ASSUME doc \in Seq(Lexemes), NEW i \in Nat
  PROVE  Lex(i) \in Lexemes
<1>1. Len(doc) \in Nat /\ (i < Len(doc) => i + 1 \in 1 .. Len(doc))
  BY LenProperties
<1>2. i < Len(doc) => doc[i + 1] \in Lexemes
  BY <1>1
<1>3. "NUL" \in Lexemes
  BY DEF Lexemes
<1> QED BY <1>2, <1>3 DEF Lex

LEMMA PastIs ==
  ASSUME doc \in Seq(Lexemes), NEW i \in 0 .. Len(doc)
  PROVE  /\ Past(i) \in i .. Len(doc)
         /\ Lex(i) \notin {"open", "NUL"} => Past(i) > i
<1>1. Len(doc) \in Nat
  BY LenProperties
<1>2. i = Len(doc) => Lex(i) = "NUL"
  BY <1>1 DEF Lex
<1> QED BY <1>1, <1>2 DEF Past

TokenAt(t, p) ==
  /\ t.start \in p .. Len(doc) /\ t.end \in t.start .. Len(doc)
  /\ t.lex \in Lexemes
  /\ t.lex \notin {"open", "NUL", "?"} => t.end > t.start

LEMMA TokenEnds ==
  ASSUME NEW t, NEW p \in Nat, Len(doc) \in Nat, TokenAt(t, p)
  PROVE  /\ t.start \in Nat /\ t.end \in Nat
         /\ t.start \in p .. Len(doc) /\ t.end \in p .. Len(doc)
         /\ t.start \in 0 .. Len(doc) /\ t.end \in 0 .. Len(doc)
         /\ t.lex \notin {"open", "NUL", "?"} => t.end # p
BY DEF TokenAt

LEMMA TokenFromIs ==
  ASSUME doc \in Seq(Lexemes), NEW p \in 0 .. Len(doc),
         NEW S, S \subseteq Blanks \cup Comments
  PROVE  /\ TokenAt(TokenFrom(p, S), p)
         /\ TokenFrom(p, S).lex \notin S
<1> DEFINE i == First(p, Lexemes \ S)
           t == TokenFrom(p, S)
<1>1. "NUL" \in Lexemes \ S /\ "?" \in Lexemes \ S
  BY DEF Lexemes, Blanks, Comments, LineComments
<1>2. i \in p .. Len(doc) /\ Lex(i) \in Lexemes \ S
  BY <1>1, FirstIs
<1> HIDE DEF i
<1>3. t.lex = (IF Lex(i) = "NaN" /\ ~conf.specialFloats THEN "?" ELSE Lex(i))
      /\ t.start = i /\ t.end = Past(i)
  BY DEF TokenFrom, i
<1> HIDE DEF t
<1>4. t.lex \in Lexemes \ S
  BY <1>1, <1>2, <1>3
<1>5. i \in 0 .. Len(doc)
  BY <1>2
<1>6. /\ Past(i) \in i .. Len(doc)
      /\ Lex(i) \notin {"open", "NUL"} => Past(i) > i
  BY <1>5, PastIs
<1>7. t.lex \notin {"open", "NUL", "?"} => Lex(i) \notin {"open", "NUL"}
  BY <1>3
<1> QED BY <1>2, <1>3, <1>4, <1>6, <1>7 DEF TokenAt, t

LEMMA TokensAre ==
  ASSUME doc \in Seq(Lexemes), NEW p \in 0 .. Len(doc)
  PROVE  /\ TokenAt(AnyToken(p), p)
         /\ TokenAt(CommentsSkipped(p), p)
         /\ TokenAt(ValueToken(p), p)
<1>1. TokenAt(AnyToken(p), p)
  BY TokenFromIs DEF AnyToken
<1>2. TokenAt(CommentsSkipped(p), p)
  BY TokenFromIs DEF CommentsSkipped
<1> QED BY <1>1, <1>2 DEF ValueToken

-----------------------------------------------------------------------------
(* The tree.                                                               *)

TreeOK(t) == DOMAIN t \subseteq Seq(Keys) /\ t \in [DOMAIN t -> Nodes]

LEMMA NullIsNode == Null \in Nodes
BY DEF Null, Nodes, Lexemes, Literals

LEMMA CommentsAreNats ==
  ASSUME NEW p \in Nat, NEW q \in Nat
  PROVE  CommentsIn(p, q) \subseteq p .. q - 1
BY DEF CommentsIn

LEMMA WaitingIs ==
  ASSUME commentsBefore \subseteq Nat, NEW p \in Nat, NEW q \in Nat
  PROVE  Waiting(p, q) \subseteq Nat
<1>1. p .. q - 1 \subseteq Nat
  OBVIOUS
<1> QED BY <1>1, CommentsAreNats DEF Waiting

LEMMA AddCommentsIs ==
  ASSUME TreeOK(tree), NEW p \in Nat, NEW q \in Nat
  PROVE  /\ TreeOK(AddComments(p, q))
         /\ DOMAIN AddComments(p, q) = DOMAIN tree
<1> DEFINE
  S == SameLine(p, q)
  last == CHOOSE i \in S : \A j \in S : j <= i
  node(v) == IF v \in lastValue /\ S # {}
             THEN [tree[v] EXCEPT !.same = {last}] ELSE tree[v]
<1>1. AddComments(p, q) = [v \in DOMAIN tree |-> node(v)]
  BY DEF AddComments
<1>2. S \in SUBSET (0 .. q)
  <2>1. p .. q - 1 \subseteq 0 .. q
    OBVIOUS
  <2> QED BY <2>1, CommentsAreNats DEF SameLine
<1>3. S # {} => last \in Nat
  <2> SUFFICES ASSUME S # {} PROVE last \in Nat
    OBVIOUS
  <2> HIDE DEF S
  <2>1. \E i \in S : \A j \in S : j <= i
    BY <1>2, Greatest
  <2>2. last \in S
    BY <2>1
  <2>3. S \subseteq Nat
    BY <1>2
  <2> HIDE DEF last
  <2> QED BY <2>2, <2>3
<1> HIDE DEF S, last
<1>4. ASSUME NEW v \in DOMAIN tree PROVE node(v) \in Nodes
  <2>1. tree[v] \in Nodes
    BY DEF TreeOK
  <2>2. ASSUME S # {} PROVE [tree[v] EXCEPT !.same = {last}] \in Nodes
    <3>1. {last} \in SUBSET Nat
      BY <1>3, <2>2
    <3> QED BY <2>1, <3>1 DEF Nodes
  <2> QED BY <2>1, <2>2
<1> HIDE DEF node
<1> QED BY <1>1, <1>4 DEF TreeOK

LEMMA SwapPayloadIs ==
  ASSUME NEW t, TreeOK(t), NEW v \in DOMAIN t,
         NEW type \in Lexemes \cup {"object", "array"}
  PROVE  /\ TreeOK(SwapPayload(t, v, type))
         /\ DOMAIN SwapPayload(t, v, type) \subseteq DOMAIN t
         /\ \A u \in DOMAIN t : Len(u) <= Len(v) => u \in DOMAIN SwapPayload(t, v, type)
<1> DEFINE
  node(w) == IF w = v THEN [t[w] EXCEPT !.type = type] ELSE t[w]
  rest == {u \in DOMAIN t : ~IsStrictPrefix(v, u)}
<1>1. SwapPayload(t, v, type) = [w \in rest |-> node(w)]
  BY DEF SwapPayload
<1>2. ASSUME NEW w \in DOMAIN t PROVE node(w) \in Nodes
  <2>1. t[w] \in Nodes
    BY DEF TreeOK
  <2>2. [t[w] EXCEPT !.type = type] \in Nodes
    BY <2>1 DEF Nodes
  <2> QED BY <2>1, <2>2
<1>3. ASSUME NEW u \in DOMAIN t, Len(u) <= Len(v) PROVE u \in rest
  <2>1. u \in Seq(Keys) /\ v \in Seq(Keys)
    BY DEF TreeOK
  <2> QED BY <2>1, <1>3, NotExtended
<1>4. rest \subseteq DOMAIN t
  OBVIOUS
<1> HIDE DEF node, rest
<1> QED BY <1>1, <1>2, <1>3, <1>4 DEF TreeOK

LEMMA ResolveIs ==
  ASSUME NEW t, TreeOK(t), NEW v \in Seq(Keys)
  PROVE  /\ TreeOK(Resolve(t, v))
         /\ DOMAIN Resolve(t, v) = DOMAIN t \cup {v}
<1> DEFINE node(w) == IF w \in DOMAIN t THEN t[w] ELSE Null
<1>1. Resolve(t, v) = [w \in DOMAIN t \cup {v} |-> node(w)]
  BY DEF Resolve
<1>2. \A w : node(w) \in Nodes
  BY NullIsNode DEF TreeOK
<1> HIDE DEF node
<1> QED BY <1>1, <1>2 DEF TreeOK

\* A node changed where it is.
LEMMA ChangedIs ==
  ASSUME NEW t, TreeOK(t), NEW v \in DOMAIN t, NEW node \in Nodes
  PROVE  /\ TreeOK([t EXCEPT ![v] = node])
         /\ DOMAIN [t EXCEPT ![v] = node] = DOMAIN t
BY DEF TreeOK

LEMMA SetOffsetsIs ==
  ASSUME NEW t, TreeOK(t), NEW v \in DOMAIN t, NEW start \in Int, NEW limit \in Int
  PROVE  /\ TreeOK(SetOffsets(t, v, start, limit))
         /\ DOMAIN SetOffsets(t, v, start, limit) = DOMAIN t
<1> DEFINE node == [[t[v] EXCEPT !.start = start] EXCEPT !.limit = limit]
<1>1. t[v] \in Nodes
  BY DEF TreeOK
<1>2. node \in Nodes
  BY <1>1 DEF Nodes
<1>3. SetOffsets(t, v, start, limit) = [t EXCEPT ![v] = node]
  BY DEF SetOffsets, TreeOK
<1> HIDE DEF node
<1>4. /\ TreeOK([t EXCEPT ![v] = node])
      /\ DOMAIN [t EXCEPT ![v] = node] = DOMAIN t
  BY <1>2, ChangedIs
<1> QED BY <1>3, <1>4, Zenon

LEMMA SetLimitIs ==
  ASSUME NEW t, TreeOK(t), NEW v \in DOMAIN t, NEW limit \in Int
  PROVE  /\ TreeOK([t EXCEPT ![v].limit = limit])
         /\ DOMAIN [t EXCEPT ![v].limit = limit] = DOMAIN t
<1> DEFINE node == [t[v] EXCEPT !.limit = limit]
<1>1. t[v] \in Nodes
  BY DEF TreeOK
<1>2. node \in Nodes
  BY <1>1 DEF Nodes
<1>3. [t EXCEPT ![v].limit = limit] = [t EXCEPT ![v] = node]
  OBVIOUS
<1> HIDE DEF node
<1> QED BY <1>2, <1>3, ChangedIs

LEMMA SetStartIs ==
  ASSUME NEW t, TreeOK(t), NEW v \in DOMAIN t, NEW start \in Int
  PROVE  /\ TreeOK([t EXCEPT ![v].start = start])
         /\ DOMAIN [t EXCEPT ![v].start = start] = DOMAIN t
<1> DEFINE node == [t[v] EXCEPT !.start = start]
<1>1. t[v] \in Nodes
  BY DEF TreeOK
<1>2. node \in Nodes
  BY <1>1 DEF Nodes
<1>3. [t EXCEPT ![v].start = start] = [t EXCEPT ![v] = node]
  OBVIOUS
<1> HIDE DEF node
<1> QED BY <1>2, <1>3, ChangedIs

LEMMA BeforeIs ==
  ASSUME NEW t, TreeOK(t), NEW v \in DOMAIN t, NEW before \in SUBSET Nat
  PROVE  /\ TreeOK([t EXCEPT ![v].before = before])
         /\ DOMAIN [t EXCEPT ![v].before = before] = DOMAIN t
<1> DEFINE node == [t[v] EXCEPT !.before = before]
<1>1. t[v] \in Nodes
  BY DEF TreeOK
<1>2. node \in Nodes
  BY <1>1 DEF Nodes
<1>3. [t EXCEPT ![v].before = before] = [t EXCEPT ![v] = node]
  OBVIOUS
<1> HIDE DEF node
<1> QED BY <1>2, <1>3, ChangedIs

LEMMA AfterIs ==
  ASSUME NEW t, TreeOK(t), NEW v \in DOMAIN t, NEW after \in SUBSET Nat
  PROVE  /\ TreeOK([t EXCEPT ![v].after = after])
         /\ DOMAIN [t EXCEPT ![v].after = after] = DOMAIN t
<1> DEFINE node == [t[v] EXCEPT !.after = after]
<1>1. t[v] \in Nodes
  BY DEF TreeOK
<1>2. node \in Nodes
  BY <1>1 DEF Nodes
<1>3. [t EXCEPT ![v].after = after] = [t EXCEPT ![v] = node]
  OBVIOUS
<1> HIDE DEF node
<1> QED BY <1>2, <1>3, ChangedIs

-----------------------------------------------------------------------------
(* The stack.                                                              *)

Frame == [kind : {"object", "array"}, key : Keys]

LEMMA PathsAre ==
  ASSUME NEW fs \in Seq(Frame), NEW k \in 0 .. Len(fs)
  PROVE  /\ PathTo(fs, k) \in Seq(Keys) /\ Len(PathTo(fs, k)) = k
         /\ Path(fs) = PathTo(fs, Len(fs))
<1>1. Len(fs) \in Nat /\ DOMAIN fs = 1 .. Len(fs)
  BY LenProperties
<1>2. \A i \in 1 .. k : fs[i] \in Frame
  BY <1>1
<1>3. \A i \in 1 .. k : fs[i].key \in Keys
  BY <1>2 DEF Frame
<1>4. PathTo(fs, k) \in [1 .. k -> Keys]
  BY <1>3 DEF PathTo
<1>5. k \in Nat
  BY <1>1
<1>6. PathTo(fs, k) \in Seq(Keys)
  BY <1>4, <1>5
<1>7. Len(PathTo(fs, k)) = k
  BY <1>4, <1>5
<1>8. Path(fs) = PathTo(fs, Len(fs))
  BY <1>1 DEF Path, PathTo
<1> QED BY <1>6, <1>7, <1>8

\* Two stacks with the same keys below give the same paths.
LEMMA SamePaths ==
  ASSUME NEW fs, NEW gs, NEW k \in Nat, \A i \in 1 .. k : fs[i].key = gs[i].key
  PROVE  PathTo(fs, k) = PathTo(gs, k)
BY DEF PathTo

LEMMA Pushed ==
  ASSUME NEW fs \in Seq(Frame), NEW f \in Frame, NEW gs, gs = Append(fs, f)
  PROVE  /\ gs \in Seq(Frame) /\ Len(gs) = Len(fs) + 1
         /\ gs[Len(gs)] = f
         /\ \A i \in 1 .. Len(fs) : gs[i] = fs[i]
         /\ \A k \in 0 .. Len(fs) : PathTo(gs, k) = PathTo(fs, k)
         /\ Path(gs) = Append(Path(fs), f.key)
<1>0. Len(fs) \in Nat
  BY LenProperties
<1>1. gs \in Seq(Frame) /\ Len(gs) = Len(fs) + 1 /\ gs[Len(gs)] = f
      /\ \A i \in 1 .. Len(fs) : gs[i] = fs[i]
  BY AppendProperties
<1>2. ASSUME NEW k \in 0 .. Len(fs) PROVE PathTo(gs, k) = PathTo(fs, k)
  <2>1. k \in Nat /\ \A i \in 1 .. k : gs[i].key = fs[i].key
    BY <1>0, <1>1
  <2> QED BY <2>1, SamePaths
<1>3. Path(gs) = Append(Path(fs), f.key)
  <2>1. DOMAIN gs = 1 .. Len(fs) + 1 /\ DOMAIN fs = 1 .. Len(fs)
    BY <1>0, <1>1, LenProperties
  <2>2. Len(Path(fs)) = Len(fs) /\ Path(fs) \in Seq(Keys)
    BY <1>0, PathsAre
  <2>3. DOMAIN Path(fs) = 1 .. Len(fs) /\ DOMAIN Path(gs) = 1 .. Len(fs) + 1
    BY <2>1 DEF Path
  <2>4. /\ \A i \in 1 .. Len(fs) : Path(gs)[i] = Path(fs)[i]
        /\ Path(gs)[Len(fs) + 1] = f.key
    BY <1>0, <1>1, <2>1 DEF Path
  <2>5. Append(Path(fs), f.key) =
          [i \in 1 .. Len(fs) + 1 |-> IF i = Len(fs) + 1 THEN f.key ELSE Path(fs)[i]]
    <3>1. f.key \in Keys
      BY DEF Frame
    <3>2. /\ DOMAIN Append(Path(fs), f.key) = 1 .. Len(fs) + 1
          /\ \A i \in 1 .. Len(fs) : Append(Path(fs), f.key)[i] = Path(fs)[i]
          /\ Append(Path(fs), f.key)[Len(fs) + 1] = f.key
      BY <2>2, <3>1, AppendProperties, LenProperties
    <3>3. Append(Path(fs), f.key) \in Seq(Keys)
      BY <2>2, <3>1, AppendProperties
    <3>4. ASSUME NEW i \in 1 .. Len(fs) + 1
          PROVE  Append(Path(fs), f.key)[i] =
                   IF i = Len(fs) + 1 THEN f.key ELSE Path(fs)[i]
      BY <3>2, <1>0
    <3>5. Append(Path(fs), f.key) =
            [i \in DOMAIN Append(Path(fs), f.key) |-> Append(Path(fs), f.key)[i]]
      BY <3>3
    <3> QED BY <3>2, <3>4, <3>5, Zenon
  <2>6. Path(gs) = [i \in 1 .. Len(fs) + 1 |-> IF i = Len(fs) + 1 THEN f.key ELSE Path(fs)[i]]
    <3>1. ASSUME NEW i \in 1 .. Len(fs) + 1
          PROVE  gs[i].key = IF i = Len(fs) + 1 THEN f.key ELSE Path(fs)[i]
      <4>1. Path(gs)[i] = gs[i].key
        BY <2>1 DEF Path
      <4> QED BY <4>1, <2>4, <1>0
    <3> QED BY <3>1, <2>1 DEF Path
  <2> QED BY <2>5, <2>6
<1> QED BY <1>1, <1>2, <1>3

LEMMA Popped ==
  ASSUME NEW fs \in Seq(Frame), fs # <<>>
  PROVE  /\ Front(fs) \in Seq(Frame) /\ Len(Front(fs)) = Len(fs) - 1
         /\ Len(fs) - 1 \in Nat
         /\ \A i \in 1 .. Len(fs) - 1 : Front(fs)[i] = fs[i]
         /\ \A k \in 0 .. Len(fs) - 1 : PathTo(Front(fs), k) = PathTo(fs, k)
         /\ Path(Front(fs)) = PathTo(fs, Len(fs) - 1)
<1>1. Len(fs) \in Nat /\ Len(fs) # 0
  BY LenProperties, EmptySeq
<1>2. /\ Front(fs) \in Seq(Frame) /\ Len(Front(fs)) = Len(fs) - 1
      /\ \A i \in 1 .. Len(fs) - 1 : Front(fs)[i] = fs[i]
  <2>1. Len(fs) - 1 \in 0 .. Len(fs) /\ 1 \in 1 .. Len(fs) + 1 /\ Len(fs) - 1 \in Nat
    BY <1>1
  <2>2. \A i \in 1 .. Len(fs) - 1 : fs[i] \in Frame
    BY <1>1
  <2> HIDE DEF Frame
  <2>3. SubSeq(fs, 1, Len(fs) - 1) = [i \in 1 .. Len(fs) - 1 |-> fs[i]]
    BY <1>1
  <2>4. [i \in 1 .. Len(fs) - 1 |-> fs[i]] \in Seq(Frame)
    BY <2>1, <2>2
  <2>5. Len([i \in 1 .. Len(fs) - 1 |-> fs[i]]) = Len(fs) - 1
    BY <2>1
  <2> QED BY <2>3, <2>4, <2>5 DEF Front
<1>3. ASSUME NEW k \in 0 .. Len(fs) - 1 PROVE PathTo(Front(fs), k) = PathTo(fs, k)
  <2>1. k \in Nat /\ \A i \in 1 .. k : Front(fs)[i].key = fs[i].key
    BY <1>1, <1>2
  <2> QED BY <2>1, SamePaths
<1>4. Path(Front(fs)) = PathTo(Front(fs), Len(fs) - 1)
  BY <1>1, <1>2, PathsAre
<1>5. Len(fs) - 1 \in 0 .. Len(fs) - 1
  BY <1>1
<1> QED BY <1>1, <1>2, <1>3, <1>4, <1>5

LEMMA Rekeyed ==
  ASSUME NEW fs \in Seq(Frame), fs # <<>>, NEW key \in Keys,
         NEW gs, gs = [fs EXCEPT ![Len(fs)].key = key]
  PROVE  /\ gs \in Seq(Frame) /\ Len(gs) = Len(fs)
         /\ \A i \in 1 .. Len(fs) : gs[i].kind = fs[i].kind
         /\ \A i \in 1 .. Len(fs) - 1 : gs[i] = fs[i]
         /\ gs[Len(fs)].key = key
         /\ \A k \in 0 .. Len(fs) - 1 : PathTo(gs, k) = PathTo(fs, k)
         /\ Path(gs) = Append(Path(Front(fs)), key)
<1>1. Len(fs) \in Nat /\ Len(fs) # 0 /\ DOMAIN fs = 1 .. Len(fs)
  BY LenProperties, EmptySeq
<1> DEFINE f == [fs[Len(fs)] EXCEPT !.key = key]
<1>2. gs = [fs EXCEPT ![Len(fs)] = f]
  OBVIOUS
<1>3. f \in Frame /\ f.key = key /\ f.kind = fs[Len(fs)].kind
  <2>1. fs[Len(fs)] \in Frame
    BY <1>1
  <2> QED BY <2>1 DEF Frame
<1> HIDE DEF f
<1>4. gs \in Seq(Frame) /\ Len(gs) = Len(fs) /\ DOMAIN gs = 1 .. Len(fs)
      /\ gs[Len(fs)] = f /\ \A i \in 1 .. Len(fs) - 1 : gs[i] = fs[i]
  BY <1>1, <1>2, <1>3
<1>5. ASSUME NEW i \in 1 .. Len(fs) PROVE gs[i].kind = fs[i].kind
  BY <1>1, <1>3, <1>4
<1>6. ASSUME NEW k \in 0 .. Len(fs) - 1 PROVE PathTo(gs, k) = PathTo(fs, k)
  <2>1. k \in Nat /\ 1 .. k \subseteq 1 .. Len(fs) - 1
    BY <1>1
  <2>2. \A i \in 1 .. k : gs[i].key = fs[i].key
    BY <1>4, <2>1, Zenon
  <2> QED BY <2>1, <2>2, SamePaths
<1>7. Path(gs) = Append(Path(Front(fs)), key)
  <2>1. /\ Front(fs) \in Seq(Frame) /\ Len(Front(fs)) = Len(fs) - 1
        /\ \A i \in 1 .. Len(fs) - 1 : Front(fs)[i] = fs[i]
    BY Popped
  <2> DEFINE hs == Append(Front(fs), f)
  <2>2. /\ Len(hs) = Len(fs) /\ hs[Len(fs)] = f
        /\ \A i \in 1 .. Len(fs) - 1 : hs[i] = Front(fs)[i]
        /\ Path(hs) = Append(Path(Front(fs)), f.key) /\ hs \in Seq(Frame)
    <3>1. /\ hs \in Seq(Frame) /\ Len(hs) = Len(Front(fs)) + 1
          /\ hs[Len(hs)] = f
          /\ \A i \in 1 .. Len(Front(fs)) : hs[i] = Front(fs)[i]
          /\ Path(hs) = Append(Path(Front(fs)), f.key)
      <4>1. hs = Append(Front(fs), f) /\ f \in Frame /\ Front(fs) \in Seq(Frame)
        BY <1>3, <2>1
      <4> HIDE DEF hs
      <4>2. hs \in Seq(Frame)
        BY <4>1, Pushed
      <4>3. Len(hs) = Len(Front(fs)) + 1
        BY <4>1, Pushed
      <4>4. hs[Len(hs)] = f
        BY <4>1, Pushed
      <4>5. \A i \in 1 .. Len(Front(fs)) : hs[i] = Front(fs)[i]
        BY <4>1, Pushed
      <4>6. Path(hs) = Append(Path(Front(fs)), f.key)
        BY <4>1, Pushed
      <4> QED BY <4>2, <4>3, <4>4, <4>5, <4>6
    <3>2. Len(Front(fs)) + 1 = Len(fs)
      BY <1>1, <2>1
    <3> HIDE DEF hs
    <3> QED BY <3>1, <3>2, <2>1
  <2> HIDE DEF hs
  <2>3. ASSUME NEW i \in 1 .. Len(fs) PROVE gs[i].key = hs[i].key
    <3>1. i = Len(fs) \/ i \in 1 .. Len(fs) - 1
      BY <1>1
    <3> QED BY <3>1, <1>4, <2>1, <2>2
  <2>4. PathTo(gs, Len(fs)) = PathTo(hs, Len(fs))
    BY <1>1, <2>3, SamePaths
  <2>5. Path(gs) = PathTo(gs, Len(fs)) /\ Path(hs) = PathTo(hs, Len(fs))
    <3>1. 0 \in 0 .. Len(fs)
      BY <1>1
    <3> QED BY <3>1, <1>4, <2>2, PathsAre
  <2> QED BY <1>3, <2>2, <2>4, <2>5
<1> QED BY <1>3, <1>4, <1>5, <1>6, <1>7

-----------------------------------------------------------------------------
(* The inductive invariant, in parts.                                      *)

Simple ==
  /\ conf \in Configurations /\ doc \in Seq(Lexemes)
  /\ pos \in 0 .. Len(doc) /\ lastEnd \in 0 .. Len(doc)
  /\ commentsBefore \subseteq Nat /\ ok \in BOOLEAN
  /\ pc \in {"value", "member", "return", "done", "pushed", "thrown"}
FramesTyped == frames \in Seq(Frame) /\ Len(frames) <= conf.stackLimit
ErrorsTyped == errors \in Seq([start : Int, limit : Int])

LEMMA AtMostOne ==
  ASSUME NEW S, \A v, w \in S : v = w
  PROVE  Cardinality(S) <= 1
<1>1. CASE S = {}
  BY <1>1, FS_EmptySet
<1>2. CASE S # {}
  <2>1. PICK v \in S : TRUE
    BY <1>2
  <2>2. S = {v}
    BY <2>1
  <2> QED BY <2>2, FS_Singleton
<1> QED BY <1>1, <1>2

LEMMA ToParts ==
  ASSUME IInv
  PROVE  /\ Simple /\ FramesTyped /\ FramesOK /\ TreeOK(tree)
         /\ OpenValuesOK /\ LastValueOK /\ ErrorsTyped /\ ErrorsOK
BY DEF IInv, TypeOK, Simple, FramesTyped, Frame, TreeOK, ErrorsTyped

LEMMA FromParts ==
  ASSUME Simple /\ FramesTyped /\ FramesOK /\ TreeOK(tree),
         OpenValuesOK /\ LastValueOK /\ ErrorsTyped /\ ErrorsOK
  PROVE  IInv
<1>1. lastValue \subseteq Seq(Keys)
  BY DEF LastValueOK, TreeOK
<1>2. Cardinality(lastValue) <= 1
  BY AtMostOne DEF LastValueOK
<1> QED BY <1>1, <1>2
        DEF IInv, TypeOK, Simple, FramesTyped, Frame, TreeOK, ErrorsTyped

LEMMA FromPartsPrimed ==
  ASSUME Simple' /\ FramesTyped' /\ FramesOK' /\ TreeOK(tree'),
         OpenValuesOK' /\ LastValueOK' /\ ErrorsTyped' /\ ErrorsOK'
  PROVE  IInv'
<1>1. lastValue' \subseteq Seq(Keys)
  BY DEF LastValueOK, TreeOK
<1>2. Cardinality(lastValue') <= 1
  BY AtMostOne DEF LastValueOK
<1> QED BY <1>1, <1>2
        DEF IInv, TypeOK, Simple, FramesTyped, Frame, TreeOK, ErrorsTyped

\* What a step may use of the state it starts from.
LEMMA Facts ==
  ASSUME IInv
  PROVE  /\ Len(doc) \in Nat /\ pos \in Nat /\ pos \in 0 .. Len(doc)
         /\ TokenAt(AnyToken(pos), pos)
         /\ TokenAt(CommentsSkipped(pos), pos)
         /\ TokenAt(ValueToken(pos), pos)
         /\ Len(frames) \in Nat
         /\ Path(frames) \in Seq(Keys) /\ Len(Path(frames)) = Len(frames)
         /\ Path(frames) = PathTo(frames, Len(frames))
<1>1. Simple /\ FramesTyped
  BY ToParts
<1>2. doc \in Seq(Lexemes) /\ pos \in 0 .. Len(doc) /\ frames \in Seq(Frame)
  BY <1>1 DEF Simple, FramesTyped
<1>3. Len(doc) \in Nat /\ Len(frames) \in Nat
  BY <1>2, LenProperties
<1>4. pos \in Nat /\ Len(frames) \in 0 .. Len(frames)
  BY <1>2, <1>3
<1> QED BY <1>2, <1>3, <1>4, TokensAre, PathsAre

\* The container being read is in the tree.
LEMMA ContainerIs ==
  ASSUME IInv, frames # <<>>
  PROVE  /\ Container \in DOMAIN tree /\ Container \in Seq(Keys)
         /\ Len(Container) = Len(frames) - 1
         /\ Container = PathTo(frames, Len(frames) - 1)
         /\ Len(frames) - 1 \in Nat
<1>1. frames \in Seq(Frame) /\ OpenValuesOK
  BY ToParts DEF FramesTyped
<1>2. Len(frames) - 1 \in Nat /\ Container = PathTo(frames, Len(frames) - 1)
  BY <1>1, Popped DEF Container
<1>3. Len(frames) - 1 \in 0 .. Len(frames) - 1 /\ Len(frames) - 1 \in 0 .. Len(frames)
  BY <1>2
<1>4. PathTo(frames, Len(frames) - 1) \in DOMAIN tree
  BY <1>1, <1>3 DEF OpenValuesOK
<1> QED BY <1>1, <1>2, <1>3, <1>4, PathsAre

\* The tree once comments have been placed.
LEMMA CommentedIs ==
  ASSUME IInv, pc = "value"
  PROVE  /\ TreeOK(Commented) /\ DOMAIN Commented = DOMAIN tree
         /\ Path(frames) \in DOMAIN tree
<1> DEFINE
  t == AddComments(pos, Token.start)
  waiting == Waiting(pos, Token.start)
<1>1. TreeOK(tree) /\ commentsBefore \subseteq Nat
  BY ToParts DEF Simple
<1>2. Path(frames) \in DOMAIN tree
  BY ToParts, Facts DEF OpenValuesOK
<1>3. Token.start \in Nat /\ pos \in Nat
  BY Facts DEF Token, TokenAt
<1>4. TreeOK(t) /\ DOMAIN t = DOMAIN tree
  BY <1>1, <1>3, AddCommentsIs
<1>5. waiting \in SUBSET Nat
  BY <1>1, <1>3, WaitingIs
<1>6. Commented = IF waiting = {} THEN t ELSE [t EXCEPT ![Path(frames)].before = waiting]
  BY DEF Commented
<1> HIDE DEF t, waiting
<1>7. /\ TreeOK([t EXCEPT ![Path(frames)].before = waiting])
      /\ DOMAIN [t EXCEPT ![Path(frames)].before = waiting] = DOMAIN t
  BY <1>2, <1>4, <1>5, BeforeIs
<1> QED BY <1>2, <1>4, <1>6, <1>7

-----------------------------------------------------------------------------
(* What the ways a step may end preserve.                                  *)

LEMMA OpensPrimed ==
  ASSUME frames' \in Seq(Frame),
         \A k \in 0 .. Len(frames') - 1 : PathTo(frames', k) \in DOMAIN tree',
         pc' \in {"value", "return"} => Path(frames') \in DOMAIN tree'
  PROVE  OpenValuesOK'
<1>1. Len(frames') \in 0 .. Len(frames')
  BY LenProperties
<1>2. Path(frames') = PathTo(frames', Len(frames'))
  BY <1>1, PathsAre
<1> QED BY <1>2 DEF OpenValuesOK

\* The stack stays, and the tree keeps what is no deeper.
LEMMA OpensKept ==
  ASSUME IInv, NEW t, \A u \in DOMAIN tree : Len(u) <= Len(frames) => u \in DOMAIN t
  PROVE  /\ \A k \in 0 .. Len(frames) - 1 : PathTo(frames, k) \in DOMAIN t
         /\ pc \in {"value", "return"} => Path(frames) \in DOMAIN t
<1>1. OpenValuesOK /\ frames \in Seq(Frame) /\ Len(frames) \in Nat
  BY ToParts, Facts DEF FramesTyped
<1>2. ASSUME NEW k \in 0 .. Len(frames) - 1 PROVE PathTo(frames, k) \in DOMAIN t
  <2>1. PathTo(frames, k) \in DOMAIN tree
    BY <1>1 DEF OpenValuesOK
  <2>2. k \in 0 .. Len(frames) /\ k <= Len(frames)
    BY <1>1
  <2>3. Len(PathTo(frames, k)) = k
    BY <1>1, <2>2, PathsAre
  <2> QED BY <2>1, <2>2, <2>3
<1>3. ASSUME pc \in {"value", "return"} PROVE Path(frames) \in DOMAIN t
  <2>1. Path(frames) \in DOMAIN tree /\ Len(Path(frames)) = Len(frames)
    BY <1>1, <1>3, Facts DEF OpenValuesOK
  <2> QED BY <2>1, <1>1
<1> QED BY <1>2, <1>3

LEMMA ReturnIs ==
  ASSUME IInv, NEW t, TreeOK(t), NEW v \in DOMAIN t, NEW e \in 0 .. Len(doc),
         NEW success \in BOOLEAN, Return(t, v, e, success),
         Len(v) <= Len(frames'), commentsBefore' \subseteq Nat
  PROVE  Simple' /\ TreeOK(tree') /\ LastValueOK'
<1>1. Simple /\ LastValueOK
  BY ToParts
<1>2. /\ tree' = t /\ pos' = e /\ ok' = success /\ pc' = "return"
      /\ lastValue' = (IF Collects THEN {v} ELSE lastValue)
      /\ lastEnd'   = (IF Collects THEN e ELSE lastEnd)
      /\ conf' = conf /\ doc' = doc
  BY DEF Return
<1>3. Simple'
  BY <1>1, <1>2 DEF Simple
<1>4. LastValueOK'
  <2>1. Collects' = Collects
    BY <1>2 DEF Collects
  <2>2. lastValue' = IF Collects THEN {v} ELSE {}
    BY <1>1, <1>2 DEF LastValueOK
  <2> QED BY <1>2, <2>1, <2>2 DEF LastValueOK
<1> QED BY <1>2, <1>3, <1>4

LEMMA CloseContainerIs ==
  ASSUME IInv, frames # <<>>, NEW t, TreeOK(t), DOMAIN t = DOMAIN tree,
         NEW e \in 0 .. Len(doc), NEW success \in BOOLEAN,
         CloseContainer(t, e, success), commentsBefore' \subseteq Nat
  PROVE  /\ Simple' /\ FramesTyped' /\ FramesOK' /\ TreeOK(tree')
         /\ OpenValuesOK' /\ LastValueOK'
         /\ doc' = doc /\ pos' = e /\ ok' = success /\ pc' = "return"
         /\ Len(frames') < Len(frames)
<1> DEFINE u == [t EXCEPT ![Container].limit = e]
<1>1. Return(u, Container, e, success) /\ frames' = Front(frames)
  BY DEF CloseContainer
<1>2. /\ Container \in DOMAIN tree /\ Len(Container) = Len(frames) - 1
      /\ Container = PathTo(frames, Len(frames) - 1) /\ Len(frames) - 1 \in Nat
  BY ContainerIs
<1>3. e \in Int
  BY Facts
<1>4. TreeOK(u) /\ DOMAIN u = DOMAIN tree
  BY <1>2, <1>3, SetLimitIs
<1> HIDE DEF u
<1>5. /\ frames \in Seq(Frame) /\ Len(frames) <= conf.stackLimit
      /\ FramesOK /\ OpenValuesOK
  BY ToParts DEF FramesTyped
<1>6. /\ frames' \in Seq(Frame) /\ Len(frames') = Len(frames) - 1
      /\ \A i \in 1 .. Len(frames) - 1 : frames'[i] = frames[i]
      /\ \A k \in 0 .. Len(frames) - 1 : PathTo(frames', k) = PathTo(frames, k)
      /\ Path(frames') = PathTo(frames, Len(frames) - 1)
  <2>1. Front(frames) \in Seq(Frame) /\ Len(Front(frames)) = Len(frames) - 1
    BY <1>5, Popped
  <2>2. \A i \in 1 .. Len(frames) - 1 : Front(frames)[i] = frames[i]
    BY <1>5, Popped
  <2>3. \A k \in 0 .. Len(frames) - 1 : PathTo(Front(frames), k) = PathTo(frames, k)
    BY <1>5, Popped
  <2>4. Path(Front(frames)) = PathTo(frames, Len(frames) - 1)
    BY <1>5, Popped
  <2> QED BY <1>1, <2>1, <2>2, <2>3, <2>4
<1>7. Simple' /\ TreeOK(tree') /\ LastValueOK'
  <2>1. Container \in DOMAIN u /\ Len(Container) <= Len(frames')
    BY <1>2, <1>4, <1>6
  <2> QED BY <1>1, <1>4, <2>1, ReturnIs
<1>8. doc' = doc /\ pos' = e /\ ok' = success /\ pc' = "return" /\ tree' = u /\ conf' = conf
  BY <1>1 DEF Return
<1>9. conf.stackLimit \in Nat
  BY JsonReaderAssumption, ToParts DEF Simple
<1>10. FramesTyped'
  <2>1. Len(frames) - 1 <= conf.stackLimit
    BY <1>2, <1>5, <1>9
  <2> QED BY <2>1, <1>6, <1>8 DEF FramesTyped
<1>11. FramesOK'
  <2>1. ASSUME NEW i \in DOMAIN frames', frames'[i].kind = "array"
        PROVE  frames'[i].key \in {"index"} \X Nat
    <3>1. i \in 1 .. Len(frames) - 1
      BY <1>6, LenProperties
    <3>2. i \in DOMAIN frames
      BY <3>1, <1>2, <1>5, LenProperties
    <3> QED BY <3>1, <3>2, <2>1, <1>5, <1>6 DEF FramesOK
  <2> QED BY <2>1, <1>8 DEF FramesOK
<1>12. OpenValuesOK'
  <2>1. ASSUME NEW k \in 0 .. Len(frames') - 1 PROVE PathTo(frames', k) \in DOMAIN tree'
    <3>1. k \in 0 .. Len(frames) - 1
      BY <1>2, <1>6
    <3>2. PathTo(frames, k) \in DOMAIN tree
      BY <3>1, <1>5 DEF OpenValuesOK
    <3> QED BY <3>1, <3>2, <1>4, <1>6, <1>8
  <2>2. Path(frames') \in DOMAIN tree'
    BY <1>2, <1>4, <1>6, <1>8
  <2> QED BY <2>1, <2>2, <1>6, OpensPrimed
<1>13. Len(frames') < Len(frames)
  BY <1>2, <1>6
<1> QED BY <1>7, <1>8, <1>10, <1>11, <1>12, <1>13

LEMMA RecoverFromErrorIs ==
  ASSUME IInv, frames # <<>>, NEW p \in pos .. Len(doc), RecoverFromError(pos, p)
  PROVE  /\ Simple' /\ FramesTyped' /\ FramesOK' /\ TreeOK(tree')
         /\ OpenValuesOK' /\ LastValueOK'
         /\ doc' = doc /\ pos' \in pos .. Len(doc) /\ ok' = FALSE /\ pc' = "return"
         /\ Len(frames') < Len(frames)
<1> DEFINE at == First(p, {Closer, "NUL", "open"})
<1>1. /\ CloseContainer(AddComments(pos, at), Past(at), FALSE)
      /\ commentsBefore' = Waiting(pos, at)
  BY DEF RecoverFromError
<1>2. doc \in Seq(Lexemes) /\ commentsBefore \subseteq Nat /\ TreeOK(tree)
  BY ToParts DEF Simple
<1>3. Len(doc) \in Nat /\ pos \in Nat /\ p \in 0 .. Len(doc)
  BY Facts
<1>4. at \in p .. Len(doc)
  BY <1>2, <1>3, FirstIs
<1> HIDE DEF at
<1>5. at \in 0 .. Len(doc) /\ at \in Nat
  BY <1>3, <1>4
<1>6. Past(at) \in at .. Len(doc)
  BY <1>2, <1>5, PastIs
<1>7. Past(at) \in 0 .. Len(doc) /\ Past(at) \in pos .. Len(doc)
  BY <1>3, <1>4, <1>6
<1>8. TreeOK(AddComments(pos, at)) /\ DOMAIN AddComments(pos, at) = DOMAIN tree
  BY <1>2, <1>3, <1>5, AddCommentsIs
<1>9. commentsBefore' \subseteq Nat
  BY <1>1, <1>2, <1>3, <1>5, WaitingIs
<1> QED BY <1>1, <1>7, <1>8, <1>9, CloseContainerIs

LEMMA AddErrorIs ==
  ASSUME IInv, pc \in {"value", "member", "return"}, NEW token, TokenAt(token, pos),
         AddError(token), doc' = doc, ok' = FALSE, pc' = "return"
  PROVE  ErrorsTyped' /\ ErrorsOK'
<1> DEFINE error == [start |-> token.start, limit |-> token.end]
<1>1. errors' = Append(errors, error)
  BY DEF AddError
<1>2. pos \in Nat /\ Len(doc) \in Nat
  BY Facts
<1>3. token.start \in 0 .. Len(doc) /\ token.end \in token.start .. Len(doc)
  BY <1>2 DEF TokenAt
<1>4. error \in [start : Int, limit : Int] /\ Within(error)
  <2>1. token.start \in Int /\ token.end \in Int
    BY <1>2, <1>3
  <2> QED BY <2>1, <1>3 DEF Within
<1> HIDE DEF error
<1>5. errors \in Seq([start : Int, limit : Int]) /\ \A i \in DOMAIN errors : Within(errors[i])
  BY ToParts DEF ErrorsTyped, ErrorsOK
<1>6. /\ errors' \in Seq([start : Int, limit : Int]) /\ errors' # <<>>
      /\ \A i \in DOMAIN errors' : errors'[i] = error \/ (i \in DOMAIN errors /\ errors'[i] = errors[i])
  BY <1>1, <1>4, <1>5, AppendProperties
<1>7. ASSUME NEW i \in DOMAIN errors' PROVE Within(errors[i])'
  <2>1. Within(errors'[i])
    BY <1>4, <1>5, <1>6
  <2> QED BY <2>1 DEF Within
<1> QED BY <1>6, <1>7 DEF ErrorsTyped, ErrorsOK

LEMMA ErrorsKept ==
  ASSUME IInv, pc \in {"value", "member", "return"}, errors' = errors, doc' = doc, ok' = ok,
         pc' \in {"value", "member"} => ok
  PROVE  ErrorsTyped' /\ ErrorsOK'
<1>1. ErrorsTyped /\ ErrorsOK
  BY ToParts
<1>2. ASSUME NEW i \in DOMAIN errors' PROVE Within(errors[i])'
  BY <1>1 DEF Within, ErrorsOK
<1> QED BY <1>1, <1>2 DEF ErrorsTyped, ErrorsOK

LEMMA FailedBefore ==
  ASSUME IInv, pc \in {"value", "member"}
  PROVE  ok
BY ToParts DEF ErrorsOK

LEMMA Shorter ==
  ASSUME IInv, pos' \in pos .. Len(doc), Len(frames') < Len(frames)
  PROVE  Advances
BY Facts DEF Advances

LEMMA Returned ==
  ASSUME IInv, pos' \in pos .. Len(doc), frames' = frames,
         \/ pc \in {"value", "member"} /\ pc' \in {"return", "thrown"}
         \/ pc = "return" /\ pc' = "done"
  PROVE  Advances
<1>1. Rank(pc') < Rank(pc)
  BY DEF Rank
<1> QED BY <1>1, Facts DEF Advances

-----------------------------------------------------------------------------
(* The steps of readValue.                                                 *)

LEMMA Threw ==
  ASSUME IInv, pc \in {"value", "member"}, pc' = "thrown",
         UNCHANGED <<conf, doc, pos, frames, tree, lastValue, lastEnd,
                     commentsBefore, errors, ok>>
  PROVE  IInv' /\ Advances
<1>1. /\ Simple /\ FramesTyped /\ FramesOK /\ TreeOK(tree)
      /\ OpenValuesOK /\ LastValueOK
  BY ToParts
<1>2. Simple'
  BY <1>1 DEF Simple
<1>3. FramesTyped' /\ FramesOK'
  BY <1>1 DEF FramesTyped, FramesOK
<1>4. TreeOK(tree')
  BY <1>1
<1>5. OpenValuesOK'
  BY <1>1 DEF OpenValuesOK
<1>6. LastValueOK'
  BY <1>1 DEF LastValueOK, Collects
<1>7. ErrorsTyped' /\ ErrorsOK'
  BY ErrorsKept
<1>8. IInv'
  BY <1>2, <1>3, <1>4, <1>5, <1>6, <1>7, FromPartsPrimed
<1>9. pos' \in pos .. Len(doc)
  BY Facts
<1> QED BY <1>8, <1>9, Returned

LEMMA FramesKept ==
  ASSUME IInv, frames' = frames, conf' = conf, pc' # "member"
  PROVE  FramesTyped' /\ FramesOK' /\ frames' \in Seq(Frame)
BY ToParts DEF FramesTyped, FramesOK

\* readValue returns, the stack as it was.
LEMMA ValueReturned ==
  ASSUME IInv, pc = "value", NEW t, TreeOK(t),
         \A u \in DOMAIN tree : Len(u) <= Len(frames) => u \in DOMAIN t,
         NEW e \in pos .. Len(doc), NEW success \in BOOLEAN,
         Return(t, Path(frames), e, success), frames' = frames, commentsBefore' = {}
  PROVE  /\ Simple' /\ FramesTyped' /\ FramesOK' /\ TreeOK(tree')
         /\ OpenValuesOK' /\ LastValueOK' /\ Advances
<1>1. Path(frames) \in DOMAIN t /\ \A k \in 0 .. Len(frames) - 1 : PathTo(frames, k) \in DOMAIN t
  BY OpensKept
<1>2. Len(Path(frames)) <= Len(frames') /\ e \in 0 .. Len(doc)
  BY Facts
<1>3. Simple' /\ TreeOK(tree') /\ LastValueOK'
  BY <1>1, <1>2, ReturnIs
<1>4. tree' = t /\ pos' = e /\ pc' = "return" /\ conf' = conf
  BY DEF Return
<1>5. FramesTyped' /\ FramesOK' /\ frames' \in Seq(Frame)
  BY <1>4, FramesKept
<1>6. OpenValuesOK'
  BY <1>1, <1>4, <1>5, OpensPrimed
<1>7. Advances
  BY <1>4, Returned
<1> QED BY <1>3, <1>5, <1>6, <1>7

LEMMA ReadScalarIs ==
  ASSUME IInv, ReadScalar
  PROVE  IInv' /\ Advances
<1> DEFINE
  v    == Path(frames)
  bad  == Token.lex \in Undecodable
  read == SetOffsets(SwapPayload(Commented, v, Token.lex), v, Token.start, Token.end)
  t    == IF bad THEN Commented ELSE read
<1>1. /\ pc = "value" /\ commentsBefore' = {} /\ frames' = frames
      /\ IF bad THEN AddError(Token) ELSE errors' = errors
      /\ Return(t, v, Token.end, ~bad)
  BY DEF ReadScalar, ReadValue
<1>2. TokenAt(Token, pos)
  BY Facts DEF Token
<1>3. /\ Token.start \in Int /\ Token.end \in Int /\ Token.end \in pos .. Len(doc)
      /\ Token.lex \in Lexemes
  BY <1>2, Facts DEF TokenAt
<1>4. TreeOK(Commented) /\ DOMAIN Commented = DOMAIN tree /\ v \in DOMAIN tree
  BY <1>1, CommentedIs
<1> DEFINE swapped == SwapPayload(Commented, v, Token.lex)
<1> HIDE DEF v
<1>5. /\ TreeOK(swapped)
      /\ \A u \in DOMAIN tree : Len(u) <= Len(v) => u \in DOMAIN swapped
  BY <1>3, <1>4, SwapPayloadIs
<1>6. v \in DOMAIN swapped
  <2>1. v \in Seq(Keys)
    BY Facts DEF v
  <2>2. Len(v) <= Len(v)
    BY <2>1, LenProperties
  <2> HIDE DEF swapped
  <2> QED BY <1>4, <1>5, <2>2
<1> HIDE DEF swapped
<1>7. TreeOK(read) /\ DOMAIN read = DOMAIN swapped
  BY <1>3, <1>5, <1>6, SetOffsetsIs DEF swapped
<1> HIDE DEF read
<1>8. Len(v) = Len(frames)
  BY Facts DEF v
<1>9. /\ TreeOK(t)
      /\ \A u \in DOMAIN tree : Len(u) <= Len(frames) => u \in DOMAIN t
  BY <1>4, <1>5, <1>7, <1>8
<1> HIDE DEF t
<1>10. /\ Simple' /\ FramesTyped' /\ FramesOK' /\ TreeOK(tree')
       /\ OpenValuesOK' /\ LastValueOK' /\ Advances
  <2>1. (~bad) \in BOOLEAN
    <3>1. CASE bad
      <4>1. (~bad) = FALSE
        BY <3>1
      <4> QED BY <4>1
    <3>2. CASE ~bad
      <4>1. (~bad) = TRUE
        BY <3>2
      <4> QED BY <4>1
    <3> QED BY <3>1, <3>2
  <2>2. Return(t, Path(frames), Token.end, ~bad)
    BY <1>1 DEF v
  <2> QED BY <1>1, <1>3, <1>9, <2>1, <2>2, ValueReturned
<1>11. ErrorsTyped' /\ ErrorsOK'
  <2>1. doc' = doc /\ ok' = ~bad /\ pc' = "return"
    BY <1>1 DEF Return
  <2>2. CASE bad
    BY <1>1, <1>2, <2>1, <2>2, AddErrorIs
  <2>3. CASE ~bad
    <3>1. ok' = ok
      BY <1>1, <2>1, <2>3, FailedBefore, ToParts DEF Simple
    <3> QED BY <1>1, <2>1, <2>3, <3>1, ErrorsKept
  <2> QED BY <2>2, <2>3
<1> QED BY <1>10, <1>11, FromPartsPrimed

LEMMA DropNullIs ==
  ASSUME IInv, DropNull
  PROVE  IInv' /\ Advances
<1> DEFINE
  v == Path(frames)
  swapped == SwapPayload(Commented, v, "null")
  t == SetOffsets(swapped, v, Token.start - 1, Token.start)
<1>1. /\ pc = "value" /\ commentsBefore' = {} /\ frames' = frames /\ errors' = errors
      /\ Return(t, v, Token.start, TRUE)
  BY DEF DropNull, ReadValue
<1>2. TokenAt(Token, pos)
  BY Facts DEF Token
<1>3. Token.start \in Int /\ Token.start - 1 \in Int /\ Token.start \in pos .. Len(doc)
  BY <1>2, Facts DEF TokenAt
<1>4. TreeOK(Commented) /\ DOMAIN Commented = DOMAIN tree /\ v \in DOMAIN tree
  BY <1>1, CommentedIs
<1> HIDE DEF v
<1>5. /\ TreeOK(swapped)
      /\ \A u \in DOMAIN tree : Len(u) <= Len(v) => u \in DOMAIN swapped
  <2>1. "null" \in Lexemes
    BY DEF Lexemes, Literals
  <2> QED BY <2>1, <1>4, SwapPayloadIs
<1>6. v \in DOMAIN swapped
  <2>1. Len(v) <= Len(v)
    BY Facts DEF v
  <2> HIDE DEF swapped
  <2> QED BY <1>4, <1>5, <2>1
<1> HIDE DEF swapped
<1>7. TreeOK(t) /\ DOMAIN t = DOMAIN swapped
  BY <1>3, <1>5, <1>6, SetOffsetsIs
<1> HIDE DEF t
<1>8. Len(v) = Len(frames)
  BY Facts DEF v
<1>9. \A u \in DOMAIN tree : Len(u) <= Len(frames) => u \in DOMAIN t
  BY <1>5, <1>7, <1>8
<1>10. /\ Simple' /\ FramesTyped' /\ FramesOK' /\ TreeOK(tree')
       /\ OpenValuesOK' /\ LastValueOK' /\ Advances
  BY <1>1, <1>3, <1>7, <1>9, ValueReturned DEF v
<1>11. ErrorsTyped' /\ ErrorsOK'
  <2>1. doc' = doc /\ ok' = TRUE /\ pc' = "return"
    BY <1>1 DEF Return
  <2>2. ok' = ok
    BY <1>1, <2>1, FailedBefore, ToParts DEF Simple
  <2> QED BY <1>1, <2>1, <2>2, ErrorsKept
<1> QED BY <1>10, <1>11, FromPartsPrimed

LEMMA SyntaxErrorIs ==
  ASSUME IInv, SyntaxError
  PROVE  IInv' /\ Advances
<1> DEFINE t == SetOffsets(Commented, Path(frames), Token.start, Token.end)
<1>1. /\ pc = "value" /\ commentsBefore' = {} /\ AddError(Token)
      /\ tree' = t /\ pos' = Token.end /\ ok' = FALSE /\ pc' = "return"
      /\ conf' = conf /\ doc' = doc /\ frames' = frames
      /\ lastValue' = lastValue /\ lastEnd' = lastEnd
  BY DEF SyntaxError, ReadValue
<1>2. TokenAt(Token, pos)
  BY Facts DEF Token
<1>3. Token.start \in Int /\ Token.end \in Int /\ Token.end \in pos .. Len(doc)
  BY <1>2, Facts DEF TokenAt
<1>4. TreeOK(t) /\ DOMAIN t = DOMAIN tree
  BY <1>1, <1>3, CommentedIs, SetOffsetsIs
<1> HIDE DEF t
<1>5. Simple /\ LastValueOK
  BY ToParts
<1>6. Simple'
  <2>1. Token.end \in 0 .. Len(doc)
    BY <1>3, Facts
  <2> QED BY <1>1, <1>5, <2>1 DEF Simple
<1>7. FramesTyped' /\ FramesOK' /\ frames' \in Seq(Frame)
  BY <1>1, FramesKept
<1>8. OpenValuesOK'
  <2>1. \A u \in DOMAIN tree : Len(u) <= Len(frames) => u \in DOMAIN t
    BY <1>4
  <2>2. Path(frames) \in DOMAIN t /\ \A k \in 0 .. Len(frames) - 1 : PathTo(frames, k) \in DOMAIN t
    BY <1>1, <2>1, OpensKept
  <2> QED BY <1>1, <1>7, <2>2, OpensPrimed
<1>9. LastValueOK'
  BY <1>1, <1>4, <1>5 DEF LastValueOK, Collects
<1>10. ErrorsTyped' /\ ErrorsOK'
  BY <1>1, <1>2, AddErrorIs
<1>11. IInv'
  BY <1>1, <1>4, <1>6, <1>7, <1>8, <1>9, <1>10, FromPartsPrimed
<1> QED BY <1>1, <1>3, <1>11, Returned

\* A container is opened: its node is there, and its first name or element.
LEMMA Opened ==
  ASSUME IInv, pc = "value", Len(frames) + 1 <= conf.stackLimit, commentsBefore' = {},
         NEW t, TreeOK(t), tree' = t,
         \A u \in DOMAIN tree : Len(u) <= Len(frames) => u \in DOMAIN t,
         NEW f \in Frame, frames' = Append(frames, f),
         f.kind = "array" => f.key \in {"index"} \X Nat,
         pc' = "member" => f.kind = "object",
         pc' \in {"member", "value"},
         pc' = "value" => Append(Path(frames), f.key) \in DOMAIN t,
         pos' \in pos .. Len(doc), pos' # pos,
         UNCHANGED <<conf, doc, lastValue, lastEnd, errors, ok>>
  PROVE  IInv' /\ Advances
<1>1. /\ Simple /\ LastValueOK /\ FramesOK /\ frames \in Seq(Frame)
      /\ conf.stackLimit \in Nat
  BY ToParts, JsonReaderAssumption DEF FramesTyped, Simple
<1>2. Len(frames) \in Nat /\ pos \in Nat /\ Len(doc) \in Nat
  BY Facts
<1>3. /\ frames' \in Seq(Frame) /\ Len(frames') = Len(frames) + 1
      /\ frames'[Len(frames')] = f
  BY <1>1, Pushed
<1>4. \A i \in 1 .. Len(frames) : frames'[i] = frames[i]
  BY <1>1, Pushed
<1>5. \A k \in 0 .. Len(frames) : PathTo(frames', k) = PathTo(frames, k)
  <2>1. ASSUME NEW k \in 0 .. Len(frames) PROVE PathTo(frames', k) = PathTo(frames, k)
    <3>1. k \in Nat /\ \A i \in 1 .. k : frames'[i].key = frames[i].key
      BY <1>2, <1>4
    <3> QED BY <3>1, SamePaths
  <2> QED BY <2>1
<1>6. Path(frames') = Append(Path(frames), f.key)
  BY <1>1, Pushed
<1>7. Simple'
  <2>1. pos' \in 0 .. Len(doc)
    BY <1>2
  <2> QED BY <1>1, <2>1 DEF Simple
<1>8. FramesTyped'
  BY <1>3 DEF FramesTyped
<1>9. FramesOK'
  <2>1. DOMAIN frames' = 1 .. Len(frames) + 1 /\ DOMAIN frames = 1 .. Len(frames)
    BY <1>1, <1>3, LenProperties
  <2>2. ASSUME NEW i \in DOMAIN frames', frames'[i].kind = "array"
        PROVE  frames'[i].key \in {"index"} \X Nat
    <3>1. CASE i = Len(frames) + 1
      BY <3>1, <2>2, <1>3
    <3>2. CASE i \in 1 .. Len(frames)
      <4>1. frames'[i] = frames[i] /\ i \in DOMAIN frames
        BY <3>2, <2>1, <1>4
      <4> QED BY <4>1, <2>2, <1>1 DEF FramesOK
    <3> QED BY <2>1, <3>1, <3>2, <1>2
  <2>3. frames' # <<>> /\ Last(frames') = f
    BY <1>2, <1>3, EmptySeq DEF Last
  <2> QED BY <2>2, <2>3 DEF FramesOK
<1>10. OpenValuesOK'
  <2>1. Path(frames) \in DOMAIN t /\ \A k \in 0 .. Len(frames) - 1 : PathTo(frames, k) \in DOMAIN t
    BY OpensKept
  <2>2. ASSUME NEW k \in 0 .. Len(frames') - 1 PROVE PathTo(frames', k) \in DOMAIN tree'
    <3>1. k \in 0 .. Len(frames) /\ (k = Len(frames) \/ k \in 0 .. Len(frames) - 1)
      BY <1>2, <1>3
    <3>2. PathTo(frames, k) \in DOMAIN t
      BY <2>1, <3>1, Facts
    <3> QED BY <3>1, <3>2, <1>5
  <2>3. pc' \in {"value", "return"} => Path(frames') \in DOMAIN tree'
    BY <1>6
  <2> QED BY <1>3, <2>2, <2>3, OpensPrimed
<1>11. LastValueOK'
  <2>1. ASSUME NEW w \in lastValue PROVE w \in DOMAIN tree' /\ Len(w) <= Len(frames')
    <3>1. w \in DOMAIN tree /\ Len(w) <= Len(frames) /\ w \in Seq(Keys)
      BY <1>1, ToParts DEF LastValueOK, TreeOK
    <3>2. Len(w) \in Nat
      BY <3>1, LenProperties
    <3> QED BY <3>1, <3>2, <1>2, <1>3
  <2> QED BY <2>1, <1>1 DEF LastValueOK, Collects
<1>12. ErrorsTyped' /\ ErrorsOK'
  BY FailedBefore, ErrorsKept
<1>13. IInv'
  BY <1>7, <1>8, <1>9, <1>10, <1>11, <1>12, FromPartsPrimed
<1>14. Advances
  BY <1>2 DEF Advances
<1> QED BY <1>13, <1>14

LEMMA StartedIs ==
  ASSUME IInv, pc = "value", NEW type \in {"object", "array"}, NEW t,
         t = [SwapPayload(Commented, Path(frames), type)
                EXCEPT ![Path(frames)].start = Token.start]
  PROVE  /\ TreeOK(t) /\ Path(frames) \in DOMAIN t
         /\ \A u \in DOMAIN tree : Len(u) <= Len(frames) => u \in DOMAIN t
<1> DEFINE v == Path(frames)
           swapped == SwapPayload(Commented, v, type)
<1>1. Token.start \in Int
  BY Facts DEF Token, TokenAt
<1>2. TreeOK(Commented) /\ DOMAIN Commented = DOMAIN tree /\ v \in DOMAIN tree
  BY CommentedIs
<1>3. Len(v) = Len(frames) /\ Len(v) <= Len(v)
  BY Facts
<1> HIDE DEF v
<1>4. /\ TreeOK(swapped)
      /\ \A u \in DOMAIN tree : Len(u) <= Len(v) => u \in DOMAIN swapped
  BY <1>2, SwapPayloadIs
<1> HIDE DEF swapped
<1>5. v \in DOMAIN swapped
  BY <1>2, <1>3, <1>4
<1>6. t = [swapped EXCEPT ![v].start = Token.start]
  BY DEF swapped, v
<1>7. TreeOK(t) /\ DOMAIN t = DOMAIN swapped
  <2>1. /\ TreeOK([swapped EXCEPT ![v].start = Token.start])
        /\ DOMAIN [swapped EXCEPT ![v].start = Token.start] = DOMAIN swapped
    BY <1>1, <1>4, <1>5, SetStartIs
  <2> QED BY <1>6, <2>1, Zenon
<1> QED BY <1>3, <1>4, <1>5, <1>7 DEF v

LEMMA BeginObjectIs ==
  ASSUME IInv, BeginObject
  PROVE  IInv' /\ Advances
<1> DEFINE
  t == [SwapPayload(Commented, Path(frames), "object")
          EXCEPT ![Path(frames)].start = Token.start]
  f == [kind |-> "object", key |-> <<"name", "empty">>]
<1>1. /\ pc = "value" /\ Len(frames) + 1 <= conf.stackLimit /\ commentsBefore' = {}
      /\ Token.lex = "{" /\ tree' = t /\ frames' = Append(frames, f)
      /\ pos' = Token.end /\ pc' = "member"
      /\ UNCHANGED <<conf, doc, lastValue, lastEnd, errors, ok>>
  BY DEF BeginObject, ReadValue
<1>2. /\ TreeOK(t)
      /\ \A u \in DOMAIN tree : Len(u) <= Len(frames) => u \in DOMAIN t
  BY <1>1, StartedIs
<1>3. f \in Frame /\ f.kind = "object"
  <2>1. <<"name", "empty">> \in Keys
    BY DEF Keys, Lexemes, Strings
  <2> QED BY <2>1 DEF Frame
<1>4. pos' \in pos .. Len(doc) /\ pos' # pos
  <2>1. TokenAt(Token, pos) /\ pos \in Nat /\ Len(doc) \in Nat
    BY Facts DEF Token
  <2>2. Token.lex = "{" /\ pos' = Token.end
    BY <1>1
  <2>3. Token.end \in pos .. Len(doc) /\ Token.end # pos
    BY <2>1, <2>2, TokenEnds
  <2> QED BY <2>2, <2>3, Zenon
<1> HIDE DEF t, f
<1>5. f.kind # "array"
  BY <1>3
<1> QED BY <1>1, <1>2, <1>3, <1>4, <1>5, Opened

LEMMA BeginArrayIs ==
  ASSUME IInv, BeginArray
  PROVE  IInv' /\ Advances
<1> DEFINE
  v == Path(frames)
  t == [SwapPayload(Commented, v, "array") EXCEPT ![v].start = Token.start]
  next == AnyToken(Token.end)
  f == [kind |-> "array", key |-> <<"index", 0>>]
<1>1. /\ pc = "value" /\ Len(frames) + 1 <= conf.stackLimit /\ commentsBefore' = {}
      /\ Token.lex = "[" /\ errors' = errors
  BY DEF BeginArray, ReadValue
<1>2. \/ /\ Return([t EXCEPT ![v].limit = next.end], v, next.end, TRUE)
         /\ frames' = frames
      \/ /\ tree' = Resolve(t, Append(v, f.key)) /\ frames' = Append(frames, f)
         /\ pos' = next.start /\ pc' = "value"
         /\ UNCHANGED <<conf, doc, lastValue, lastEnd, ok>>
  BY DEF BeginArray
<1>3. TokenAt(Token, pos) /\ pos \in Nat /\ Len(doc) \in Nat
  BY Facts DEF Token
<1>4. Token.end \in 0 .. Len(doc) /\ Token.end > pos
  BY <1>1, <1>3 DEF TokenAt
<1>5. TokenAt(next, Token.end)
  BY <1>4, TokensAre, ToParts DEF Simple
<1> HIDE DEF next
<1>6. /\ next.start \in pos .. Len(doc) /\ next.start # pos
      /\ next.end \in pos .. Len(doc) /\ next.end \in Int
  BY <1>3, <1>4, <1>5 DEF TokenAt
<1>7. TreeOK(t) /\ v \in DOMAIN t
  BY <1>1, StartedIs
<1>8. \A u \in DOMAIN tree : Len(u) <= Len(frames) => u \in DOMAIN t
  BY <1>1, StartedIs
<1> HIDE DEF t
<1>9. CASE Return([t EXCEPT ![v].limit = next.end], v, next.end, TRUE) /\ frames' = frames
  <2> DEFINE u == [t EXCEPT ![v].limit = next.end]
  <2>1. TreeOK(u) /\ DOMAIN u = DOMAIN t
    BY <1>6, <1>7, SetLimitIs
  <2>2. Return(u, Path(frames), next.end, TRUE)
    BY <1>9
  <2> HIDE DEF u
  <2>3. /\ Simple' /\ FramesTyped' /\ FramesOK' /\ TreeOK(tree')
        /\ OpenValuesOK' /\ LastValueOK' /\ Advances
    BY <1>1, <1>6, <1>8, <1>9, <2>1, <2>2, ValueReturned
  <2>4. doc' = doc /\ pc' = "return" /\ ok' = TRUE
    BY <2>2 DEF Return
  <2>5. ok' = ok
    BY <1>1, <2>4, FailedBefore, ToParts DEF Simple
  <2>6. ErrorsTyped' /\ ErrorsOK'
    BY <1>1, <2>4, <2>5, ErrorsKept
  <2> QED BY <2>3, <2>6, FromPartsPrimed
<1>10. CASE /\ tree' = Resolve(t, Append(v, f.key)) /\ frames' = Append(frames, f)
            /\ pos' = next.start /\ pc' = "value"
            /\ UNCHANGED <<conf, doc, lastValue, lastEnd, ok>>
  <2> DEFINE w == Append(v, f.key)
             u == Resolve(t, w)
  <2>1. f \in Frame /\ f.key \in {"index"} \X Nat /\ f.kind = "array" /\ f.key \in Keys
    <3>1. <<"index", 0>> \in {"index"} \X Nat /\ <<"index", 0>> \in Keys
      BY DEF Keys
    <3> QED BY <3>1 DEF Frame
  <2> HIDE DEF f
  <2>2. w \in Seq(Keys)
    BY <2>1, Facts, AppendProperties
  <2> HIDE DEF w
  <2>3. TreeOK(u) /\ DOMAIN u = DOMAIN t \cup {w}
    BY <1>7, <2>2, ResolveIs
  <2>4. tree' = u /\ w = Append(Path(frames), f.key)
    BY <1>10 DEF w
  <2> HIDE DEF u
  <2>5. \A r \in DOMAIN tree : Len(r) <= Len(frames) => r \in DOMAIN u
    BY <1>8, <2>3
  <2>6. Append(Path(frames), f.key) \in DOMAIN u
    BY <2>3, <2>4
  <2>7. pos' \in pos .. Len(doc) /\ pos' # pos
    BY <1>6, <1>10
  <2> QED BY <1>1, <1>10, <2>1, <2>3, <2>4, <2>5, <2>6, <2>7, Opened
<1> QED BY <1>2, <1>9, <1>10

-----------------------------------------------------------------------------
(* The steps of readObject, readArray and parse().                         *)

\* On to the next member or element.
Rekey(fs, key) == [fs EXCEPT ![Len(fs)].key = key]

LEMMA RekeyedPath ==
  ASSUME NEW fs \in Seq(Frame), fs # <<>>, NEW key \in Keys
  PROVE  Path(Rekey(fs, key)) = Append(Path(Front(fs)), key)
<1>1. PICK gs : gs = [fs EXCEPT ![Len(fs)].key = key]
  OBVIOUS
<1>2. Path(gs) = Append(Path(Front(fs)), key)
  BY <1>1, Rekeyed, Zenon
<1> QED BY <1>1, <1>2, Zenon DEF Rekey

LEMMA Moved ==
  ASSUME IInv, pc \in {"member", "return"}, frames # <<>>, ok,
         NEW t, TreeOK(t), DOMAIN t = DOMAIN tree,
         NEW key \in Keys, Last(frames).kind = "array" => key \in {"index"} \X Nat,
         frames' = Rekey(frames, key),
         tree' = Resolve(t, Append(Container, key)), pc' = "value",
         commentsBefore' \subseteq Nat, pos' \in pos .. Len(doc), pos' # pos,
         UNCHANGED <<conf, doc, lastValue, lastEnd, errors, ok>>
  PROVE  IInv' /\ Advances
<1> DEFINE w == Append(Container, key)
<1>1. /\ Simple /\ LastValueOK /\ FramesOK /\ OpenValuesOK
      /\ frames \in Seq(Frame) /\ Len(frames) <= conf.stackLimit
  BY ToParts DEF FramesTyped
<1>2. Len(frames) \in Nat /\ pos \in Nat /\ Len(doc) \in Nat
  BY Facts
<1>3. w \in Seq(Keys)
  BY ContainerIs, AppendProperties
<1>4. TreeOK(tree') /\ DOMAIN tree' = DOMAIN tree \cup {w}
  BY <1>3, ResolveIs
<1>5. frames' \in Seq(Frame) /\ Len(frames') = Len(frames)
  BY <1>1, Rekeyed DEF Rekey
<1>6. \A i \in 1 .. Len(frames) : frames'[i].kind = frames[i].kind
  BY <1>1, Rekeyed DEF Rekey
<1>7. \A i \in 1 .. Len(frames) - 1 : frames'[i] = frames[i]
  BY <1>1, Rekeyed DEF Rekey
<1>8. frames'[Len(frames)].key = key
  BY <1>1, Rekeyed DEF Rekey
<1>9. ASSUME NEW k \in 0 .. Len(frames) - 1 PROVE PathTo(frames', k) = PathTo(frames, k)
  <2>1. k \in Nat /\ \A i \in 1 .. k : frames'[i].key = frames[i].key
    BY <1>2, <1>7
  <2> QED BY <2>1, SamePaths
<1>10. Path(frames') = w
  BY <1>1, RekeyedPath DEF Container
<1> HIDE DEF w
<1>11. Simple'
  <2>1. pos' \in 0 .. Len(doc)
    BY <1>2
  <2> QED BY <1>1, <2>1 DEF Simple
<1>12. FramesTyped'
  BY <1>1, <1>5 DEF FramesTyped
<1>13. FramesOK'
  <2>1. DOMAIN frames' = 1 .. Len(frames) /\ DOMAIN frames = 1 .. Len(frames)
    BY <1>1, <1>5, LenProperties
  <2>2. ASSUME NEW i \in DOMAIN frames', frames'[i].kind = "array"
        PROVE  frames'[i].key \in {"index"} \X Nat
    <3>1. CASE i = Len(frames)
      BY <3>1, <2>1, <2>2, <1>6, <1>8 DEF Last
    <3>2. CASE i \in 1 .. Len(frames) - 1
      BY <3>2, <2>1, <2>2, <1>1, <1>7 DEF FramesOK
    <3> QED BY <2>1, <3>1, <3>2, <1>2
  <2> QED BY <2>2 DEF FramesOK
<1>14. OpenValuesOK'
  <2>1. ASSUME NEW k \in 0 .. Len(frames') - 1 PROVE PathTo(frames', k) \in DOMAIN tree'
    <3>1. k \in 0 .. Len(frames) - 1
      BY <1>5
    <3>2. PathTo(frames, k) \in DOMAIN tree
      BY <1>1, <3>1 DEF OpenValuesOK
    <3> QED BY <3>1, <3>2, <1>4, <1>9
  <2>2. Path(frames') \in DOMAIN tree'
    BY <1>4, <1>10
  <2> QED BY <2>1, <2>2, <1>5, OpensPrimed
<1>15. LastValueOK'
  BY <1>1, <1>4, <1>5 DEF LastValueOK, Collects
<1>16. ErrorsTyped' /\ ErrorsOK'
  BY ErrorsKept
<1>17. IInv'
  BY <1>4, <1>11, <1>12, <1>13, <1>14, <1>15, <1>16, FromPartsPrimed
<1>18. Advances
  BY <1>2 DEF Advances
<1> QED BY <1>17, <1>18

\* An error is noted, and the container given up.
LEMMA GivenUp ==
  ASSUME IInv, pc \in {"member", "return"}, frames # <<>>,
         NEW token, TokenAt(token, pos), AddError(token),
         NEW p \in pos .. Len(doc), RecoverFromError(pos, p)
  PROVE  IInv' /\ Advances
<1>1. /\ Simple' /\ FramesTyped' /\ FramesOK' /\ TreeOK(tree')
      /\ OpenValuesOK' /\ LastValueOK'
      /\ doc' = doc /\ pos' \in pos .. Len(doc) /\ ok' = FALSE /\ pc' = "return"
      /\ Len(frames') < Len(frames)
  BY RecoverFromErrorIs
<1>2. ErrorsTyped' /\ ErrorsOK'
  BY <1>1, AddErrorIs
<1>3. Advances
  BY <1>1, Shorter
<1> QED BY <1>1, <1>2, <1>3, FromPartsPrimed

\* The container is closed by the token that ends it.
LEMMA Closed ==
  ASSUME IInv, pc \in {"member", "return"}, ok, frames # <<>>,
         NEW token, TokenAt(token, pos),
         CloseContainer(AddComments(pos, token.start), token.end, TRUE),
         commentsBefore' = Waiting(pos, token.start), errors' = errors
  PROVE  IInv' /\ Advances
<1>1. commentsBefore \subseteq Nat /\ TreeOK(tree) /\ ok \in BOOLEAN
  BY ToParts DEF Simple
<1>2. /\ pos \in Nat /\ token.start \in Nat
      /\ token.end \in 0 .. Len(doc) /\ token.end \in pos .. Len(doc)
  BY Facts DEF TokenAt
<1>3. TreeOK(AddComments(pos, token.start)) /\ DOMAIN AddComments(pos, token.start) = DOMAIN tree
  BY <1>1, <1>2, AddCommentsIs
<1>4. commentsBefore' \subseteq Nat
  BY <1>1, <1>2, WaitingIs
<1>5. /\ Simple' /\ FramesTyped' /\ FramesOK' /\ TreeOK(tree')
      /\ OpenValuesOK' /\ LastValueOK'
      /\ doc' = doc /\ pos' = token.end /\ ok' = TRUE /\ pc' = "return"
      /\ Len(frames') < Len(frames)
  BY <1>2, <1>3, <1>4, CloseContainerIs
<1>6. ok' = ok
  BY <1>1, <1>5
<1>7. ErrorsTyped' /\ ErrorsOK'
  BY <1>5, <1>6, ErrorsKept
<1>8. Advances
  BY <1>2, <1>5, Shorter
<1> QED BY <1>5, <1>7, <1>8, FromPartsPrimed

\* A second token, read where the first ended.
LEMMA NextToken ==
  ASSUME IInv, NEW token, TokenAt(token, pos)
  PROVE  TokenAt(AnyToken(token.end), pos)
<1>1. pos \in Nat /\ Len(doc) \in Nat /\ doc \in Seq(Lexemes)
  BY Facts, ToParts DEF Simple
<1>2. token.end \in 0 .. Len(doc) /\ token.end \in pos .. Len(doc)
  BY <1>1, TokenEnds
<1> DEFINE next == AnyToken(token.end)
<1>3. TokenAt(next, token.end)
  BY <1>1, <1>2, TokensAre
<1> HIDE DEF next
<1>4. next.start \in pos .. Len(doc)
  BY <1>1, <1>2, <1>3 DEF TokenAt
<1>5. TokenAt(next, pos)
  BY <1>3, <1>4 DEF TokenAt
<1> QED BY <1>5 DEF next

LEMMA ReadMemberIs ==
  ASSUME IInv, ReadMember
  PROVE  IInv' /\ Advances
<1> DEFINE
  name  == CommentsSkipped(pos)
  colon == AnyToken(name.end)
  key   == <<"name", name.lex>>
<1>1. pc = "member" /\ frames # <<>> /\ Last(frames).kind = "object" /\ ok
  BY FailedBefore, ToParts DEF ReadMember, FramesOK
<1>2. TokenAt(name, pos) /\ pos \in Nat /\ Len(doc) \in Nat
  BY Facts
<1> HIDE DEF name
<1>3. TokenAt(colon, pos)
  BY <1>2, NextToken
<1> HIDE DEF colon
<1>4. /\ name.start \in Nat /\ name.end \in pos .. Len(doc)
      /\ colon.end \in pos .. Len(doc)
  BY <1>2, <1>3, TokenEnds
<1>5. \/ /\ CloseContainer(AddComments(pos, name.start), name.end, TRUE)
         /\ commentsBefore' = Waiting(pos, name.start) /\ errors' = errors
      \/ AddError(name) /\ RecoverFromError(pos, name.end)
      \/ /\ pc' = "thrown"
         /\ UNCHANGED <<conf, doc, pos, frames, tree, lastValue, lastEnd,
                        commentsBefore, errors, ok>>
      \/ AddError(colon) /\ RecoverFromError(pos, colon.end)
      \/ AddError(name) /\ RecoverFromError(pos, colon.end)
      \/ /\ tree' = Resolve(AddComments(pos, name.start), Append(Container, key))
         /\ commentsBefore' = Waiting(pos, name.start)
         /\ frames' = [frames EXCEPT ![Len(frames)].key = key]
         /\ pos' = colon.end /\ pc' = "value" /\ colon.lex = ":"
         /\ UNCHANGED <<conf, doc, lastValue, lastEnd, errors, ok>>
  BY DEF ReadMember, name, colon
<1>6. CASE /\ CloseContainer(AddComments(pos, name.start), name.end, TRUE)
           /\ commentsBefore' = Waiting(pos, name.start) /\ errors' = errors
  BY <1>1, <1>2, <1>6, Closed
<1>7. CASE AddError(name) /\ RecoverFromError(pos, name.end)
  BY <1>1, <1>2, <1>4, <1>7, GivenUp
<1>8. CASE /\ pc' = "thrown"
           /\ UNCHANGED <<conf, doc, pos, frames, tree, lastValue, lastEnd,
                          commentsBefore, errors, ok>>
  BY <1>1, <1>8, Threw
<1>9. CASE AddError(colon) /\ RecoverFromError(pos, colon.end)
  BY <1>1, <1>3, <1>4, <1>9, GivenUp
<1>10. CASE AddError(name) /\ RecoverFromError(pos, colon.end)
  BY <1>1, <1>2, <1>4, <1>10, GivenUp
<1>11. CASE /\ tree' = Resolve(AddComments(pos, name.start), Append(Container, key))
            /\ commentsBefore' = Waiting(pos, name.start)
            /\ frames' = [frames EXCEPT ![Len(frames)].key = key]
            /\ pos' = colon.end /\ pc' = "value" /\ colon.lex = ":"
            /\ UNCHANGED <<conf, doc, lastValue, lastEnd, errors, ok>>
  <2>1. key \in Keys
    BY <1>2 DEF Keys, TokenAt
  <2> HIDE DEF key
  <2>2. Last(frames).kind = "array" => key \in {"index"} \X Nat
    BY <1>1
  <2>3. frames' = Rekey(frames, key)
    BY <1>11 DEF Rekey
  <2>4. commentsBefore \subseteq Nat /\ TreeOK(tree)
    BY ToParts DEF Simple
  <2>5. /\ TreeOK(AddComments(pos, name.start))
        /\ DOMAIN AddComments(pos, name.start) = DOMAIN tree
    BY <1>2, <1>4, <2>4, AddCommentsIs
  <2>6. Waiting(pos, name.start) \subseteq Nat
    BY <1>2, <1>4, <2>4, WaitingIs
  <2>7. colon.end # pos
    BY <1>2, <1>3, <1>11, TokenEnds
  <2>8. /\ tree' = Resolve(AddComments(pos, name.start), Append(Container, key))
        /\ commentsBefore' \subseteq Nat
        /\ pos' \in pos .. Len(doc) /\ pos' # pos /\ pc' = "value"
        /\ UNCHANGED <<conf, doc, lastValue, lastEnd, errors, ok>>
    <3>1. pos' = colon.end
      BY <1>11
    <3>2. pos' \in pos .. Len(doc) /\ pos' # pos
      BY <1>4, <2>7, <3>1, Zenon
    <3>3. commentsBefore' \subseteq Nat
      BY <1>11, <2>6, Zenon
    <3> QED BY <1>11, <3>2, <3>3, Zenon
  <2> QED BY <1>1, <2>1, <2>2, <2>3, <2>5, <2>8, Moved
<1> QED BY <1>5, <1>6, <1>7, <1>8, <1>9, <1>10, <1>11

\* From a member that was read to the name of the next.
LEMMA NameNext ==
  ASSUME IInv, pc = "return", ok, frames # <<>>, Last(frames).kind = "object",
         NEW token, TokenAt(token, pos), token.end # pos,
         tree' = AddComments(pos, token.start), pos' = token.end, pc' = "member",
         commentsBefore' = Waiting(pos, token.start),
         UNCHANGED <<conf, doc, frames, lastValue, lastEnd, errors, ok>>
  PROVE  IInv' /\ Advances
<1>1. /\ Simple /\ FramesTyped /\ FramesOK /\ TreeOK(tree)
      /\ OpenValuesOK /\ LastValueOK
  BY ToParts
<1>2. /\ pos \in Nat /\ Len(doc) \in Nat /\ token.start \in Nat
      /\ token.end \in 0 .. Len(doc) /\ token.end \in pos .. Len(doc)
  BY Facts, TokenEnds
<1>3. TreeOK(tree') /\ DOMAIN tree' = DOMAIN tree
  BY <1>1, <1>2, AddCommentsIs
<1>4. commentsBefore' \subseteq Nat
  BY <1>1, <1>2, WaitingIs DEF Simple
<1>5. Simple'
  BY <1>1, <1>2, <1>4 DEF Simple
<1>6. FramesTyped' /\ FramesOK' /\ frames' \in Seq(Frame)
  BY <1>1 DEF FramesTyped, FramesOK
<1>7. OpenValuesOK'
  BY <1>1, <1>3 DEF OpenValuesOK
<1>8. LastValueOK'
  BY <1>1, <1>3 DEF LastValueOK, Collects
<1>9. ErrorsTyped' /\ ErrorsOK'
  BY ErrorsKept
<1>10. Advances
  BY <1>2 DEF Advances
<1> QED BY <1>3, <1>5, <1>6, <1>7, <1>8, <1>9, <1>10, FromPartsPrimed

LEMMA Later ==
  ASSUME NEW p \in Nat, NEW n \in Nat, NEW i \in p .. n, NEW j \in p .. n,
         j \notin p .. i - 1, NEW e \in j .. n, j = i => e > j
  PROVE  e # p
OBVIOUS

LEMMA PastFrom ==
  ASSUME doc \in Seq(Lexemes), NEW p \in Nat, NEW i \in p .. Len(doc)
  PROVE  /\ Past(i) \in i .. Len(doc)
         /\ Lex(i) \notin {"open", "NUL"} => Past(i) > i
<1>1. i \in 0 .. Len(doc)
  BY LenProperties
<1> QED BY <1>1, PastIs

\* The token after a comment or a comma is further on.
LEMMA CommaEnds ==
  ASSUME IInv, AnyToken(pos).lex \in {","} \cup Comments
  PROVE  CommentsSkipped(pos).end # pos
<1> DEFINE
  i == First(pos, Lexemes \ Blanks)
  j == First(pos, Lexemes \ (Blanks \cup Comments))
  first == AnyToken(pos)
  comma == CommentsSkipped(pos)
<1>1. doc \in Seq(Lexemes) /\ pos \in 0 .. Len(doc) /\ pos \in Nat /\ Len(doc) \in Nat
  BY Facts, ToParts DEF Simple
<1>2. "NUL" \in Lexemes \ Blanks /\ "NUL" \in Lexemes \ (Blanks \cup Comments)
  BY DEF Lexemes, Blanks, Comments, LineComments
<1>3. /\ i \in pos .. Len(doc)
      /\ \A k \in pos .. i - 1 : Lex(k) \notin Lexemes \ Blanks
  BY <1>1, <1>2, FirstIs
<1>4. j \in pos .. Len(doc) /\ Lex(j) \in Lexemes \ (Blanks \cup Comments)
  BY <1>1, <1>2, FirstIs
<1>5. /\ first.start = i /\ comma.start = j /\ comma.end = Past(j)
      /\ first.lex = IF Lex(i) = "NaN" /\ ~conf.specialFloats THEN "?" ELSE Lex(i)
  BY DEF AnyToken, CommentsSkipped, TokenFrom
<1> HIDE DEF i, j, first, comma
<1>6. Lex(i) \in {","} \cup Comments
  <2>1. first.lex \in {","} \cup Comments
    BY DEF first
  <2>2. "?" \notin {","} \cup Comments
    BY DEF Comments, LineComments
  <2> QED BY <1>5, <2>1, <2>2
<1>7. /\ pos \in Nat /\ Len(doc) \in Nat
      /\ i \in pos .. Len(doc) /\ j \in pos .. Len(doc)
  BY <1>1, <1>3, <1>4
<1>8. j \notin pos .. i - 1
  BY <1>3, <1>4
<1>9. Past(j) \in j .. Len(doc) /\ (Lex(j) \notin {"open", "NUL"} => Past(j) > j)
  BY <1>1, <1>7, PastFrom
<1>10. j = i => Past(j) > j
  <2>1. j = i => Lex(j) = ","
    BY <1>4, <1>6
  <2> QED BY <1>9, <2>1
<1>11. Past(j) # pos
  BY <1>7, <1>8, <1>9, <1>10, Later
<1> QED BY <1>5, <1>11 DEF comma

LEMMA AfterMemberIs ==
  ASSUME IInv, AfterMember
  PROVE  IInv' /\ Advances
<1> DEFINE
  first == AnyToken(pos)
  comma == CommentsSkipped(pos)
<1>1. pc = "return" /\ frames # <<>> /\ ok /\ Last(frames).kind = "object"
  BY DEF AfterMember
<1>2. TokenAt(first, pos) /\ TokenAt(comma, pos) /\ pos \in Nat /\ Len(doc) \in Nat
  BY Facts
<1>3. \/ AddError(first) /\ RecoverFromError(pos, first.end)
      \/ /\ CloseContainer(AddComments(pos, comma.start), comma.end, TRUE)
         /\ commentsBefore' = Waiting(pos, comma.start) /\ errors' = errors
      \/ /\ first.lex \in {","} \cup Comments
         /\ tree' = AddComments(pos, comma.start) /\ pos' = comma.end /\ pc' = "member"
         /\ commentsBefore' = Waiting(pos, comma.start)
         /\ UNCHANGED <<conf, doc, frames, lastValue, lastEnd, errors, ok>>
  BY DEF AfterMember
<1>4. first.lex \in {","} \cup Comments => comma.end # pos
  BY CommaEnds
<1> HIDE DEF first, comma
<1>5. first.end \in pos .. Len(doc)
  BY <1>2, TokenEnds
<1>6. CASE AddError(first) /\ RecoverFromError(pos, first.end)
  BY <1>1, <1>2, <1>5, <1>6, GivenUp
<1>7. CASE /\ CloseContainer(AddComments(pos, comma.start), comma.end, TRUE)
           /\ commentsBefore' = Waiting(pos, comma.start) /\ errors' = errors
  BY <1>1, <1>2, <1>7, Closed
<1>8. CASE /\ first.lex \in {","} \cup Comments
           /\ tree' = AddComments(pos, comma.start) /\ pos' = comma.end /\ pc' = "member"
           /\ commentsBefore' = Waiting(pos, comma.start)
           /\ UNCHANGED <<conf, doc, frames, lastValue, lastEnd, errors, ok>>
  BY <1>1, <1>2, <1>4, <1>8, NameNext
<1> QED BY <1>3, <1>6, <1>7, <1>8

LEMMA AfterElementIs ==
  ASSUME IInv, AfterElement
  PROVE  IInv' /\ Advances
<1> DEFINE
  token == CommentsSkipped(pos)
  next  == <<"index", Last(frames).key[2] + 1>>
<1>1. pc = "return" /\ frames # <<>> /\ ok /\ Last(frames).kind = "array"
  BY DEF AfterElement
<1>2. TokenAt(token, pos) /\ pos \in Nat /\ Len(doc) \in Nat
  BY Facts
<1>3. \/ /\ CloseContainer(AddComments(pos, token.start), token.end, TRUE)
         /\ commentsBefore' = Waiting(pos, token.start) /\ errors' = errors
      \/ /\ token.lex = ","
         /\ tree' = Resolve(AddComments(pos, token.start), Append(Container, next))
         /\ frames' = [frames EXCEPT ![Len(frames)].key = next]
         /\ pos' = token.end /\ pc' = "value"
         /\ commentsBefore' = Waiting(pos, token.start)
         /\ UNCHANGED <<conf, doc, lastValue, lastEnd, errors, ok>>
      \/ AddError(token) /\ RecoverFromError(pos, token.end)
  BY DEF AfterElement
<1> HIDE DEF token
<1>4. token.start \in Nat /\ token.end \in pos .. Len(doc)
  BY <1>2, TokenEnds
<1>5. CASE /\ CloseContainer(AddComments(pos, token.start), token.end, TRUE)
           /\ commentsBefore' = Waiting(pos, token.start) /\ errors' = errors
  BY <1>1, <1>2, <1>5, Closed
<1>6. CASE AddError(token) /\ RecoverFromError(pos, token.end)
  BY <1>1, <1>2, <1>4, <1>6, GivenUp
<1>7. CASE /\ token.lex = ","
           /\ tree' = Resolve(AddComments(pos, token.start), Append(Container, next))
           /\ frames' = [frames EXCEPT ![Len(frames)].key = next]
           /\ pos' = token.end /\ pc' = "value"
           /\ commentsBefore' = Waiting(pos, token.start)
           /\ UNCHANGED <<conf, doc, lastValue, lastEnd, errors, ok>>
  <2>1. next \in {"index"} \X Nat /\ next \in Keys
    <3>1. frames \in Seq(Frame) /\ FramesOK /\ Len(frames) \in Nat
      BY ToParts, Facts DEF FramesTyped
    <3>2. Len(frames) \in DOMAIN frames
      BY <1>1, <3>1, LenProperties, EmptySeq
    <3>3. Last(frames).key \in {"index"} \X Nat
      BY <1>1, <3>1, <3>2 DEF FramesOK, Last
    <3>4. Last(frames).key[2] + 1 \in Nat
      BY <3>3
    <3> QED BY <3>4 DEF Keys
  <2> HIDE DEF next
  <2>2. frames' = Rekey(frames, next)
    BY <1>7 DEF Rekey
  <2>3. commentsBefore \subseteq Nat /\ TreeOK(tree)
    BY ToParts DEF Simple
  <2>4. /\ TreeOK(AddComments(pos, token.start))
        /\ DOMAIN AddComments(pos, token.start) = DOMAIN tree
    BY <1>2, <1>4, <2>3, AddCommentsIs
  <2>5. Waiting(pos, token.start) \subseteq Nat
    BY <1>2, <1>4, <2>3, WaitingIs
  <2>6. token.end # pos
    BY <1>2, <1>7, TokenEnds
  <2>7. /\ tree' = Resolve(AddComments(pos, token.start), Append(Container, next))
        /\ commentsBefore' \subseteq Nat
        /\ pos' \in pos .. Len(doc) /\ pos' # pos /\ pc' = "value"
        /\ UNCHANGED <<conf, doc, lastValue, lastEnd, errors, ok>>
    <3>1. pos' = token.end
      BY <1>7
    <3>2. pos' \in pos .. Len(doc) /\ pos' # pos
      BY <1>4, <2>6, <3>1, Zenon
    <3>3. commentsBefore' \subseteq Nat
      BY <1>7, <2>5, Zenon
    <3> QED BY <1>7, <3>2, <3>3, Zenon
  <2> QED BY <1>1, <2>1, <2>2, <2>4, <2>7, Moved
<1> QED BY <1>3, <1>5, <1>6, <1>7

LEMMA AfterFailureIs ==
  ASSUME IInv, AfterFailure
  PROVE  IInv' /\ Advances
<1>1. pc = "return" /\ frames # <<>> /\ ~ok /\ RecoverFromError(pos, pos) /\ errors' = errors
  BY DEF AfterFailure
<1>2. pos \in pos .. Len(doc)
  BY Facts
<1>3. /\ Simple' /\ FramesTyped' /\ FramesOK' /\ TreeOK(tree')
      /\ OpenValuesOK' /\ LastValueOK'
      /\ doc' = doc /\ pos' \in pos .. Len(doc) /\ ok' = FALSE /\ pc' = "return"
      /\ Len(frames') < Len(frames)
  BY <1>1, <1>2, RecoverFromErrorIs
<1>4. ok' = ok
  BY <1>1, <1>3, ToParts DEF Simple
<1>5. ErrorsTyped' /\ ErrorsOK'
  BY <1>1, <1>3, <1>4, ErrorsKept
<1> QED BY <1>3, <1>5, Shorter, FromPartsPrimed

LEMMA FinishParseIs ==
  ASSUME IInv, FinishParse
  PROVE  IInv' /\ Advances
<1> DEFINE
  token   == ValueToken(pos)
  t       == AddComments(pos, token.start)
  waiting == Waiting(pos, token.start)
  extra   == TrailingText(token)
  badRoot == conf.strictRoot /\ t[<<>>].type \notin {"array", "object"}
  errorAt == IF extra THEN [start |-> token.start, limit |-> token.end]
                      ELSE [start |-> 0, limit |-> Len(doc)]
  u       == [t EXCEPT ![<<>>].after = waiting]
<1>1. /\ pc = "return" /\ frames = <<>>
      /\ tree' = (IF extra \/ waiting = {} THEN t ELSE u)
      /\ errors' = (IF extra \/ badRoot THEN Append(errors, errorAt) ELSE errors)
      /\ ok' = (ok /\ ~extra /\ ~badRoot)
      /\ pos' = token.end /\ pc' = "done" /\ commentsBefore' = waiting
      /\ conf' = conf /\ doc' = doc /\ frames' = frames
      /\ lastValue' = lastValue /\ lastEnd' = lastEnd
  BY DEF FinishParse
<1>2. TokenAt(token, pos) /\ pos \in Nat /\ Len(doc) \in Nat
  BY Facts
<1> HIDE DEF token, extra
<1>3. /\ token.start \in Nat /\ token.end \in Nat /\ token.end \in 0 .. Len(doc)
      /\ token.start \in 0 .. Len(doc) /\ token.end \in pos .. Len(doc)
  BY <1>2, TokenEnds
<1>4. /\ Simple /\ FramesTyped /\ TreeOK(tree) /\ LastValueOK /\ OpenValuesOK
      /\ ErrorsTyped /\ ErrorsOK /\ commentsBefore \subseteq Nat
  BY ToParts DEF Simple
<1>5. TreeOK(t) /\ DOMAIN t = DOMAIN tree
  BY <1>2, <1>3, <1>4, AddCommentsIs
<1>6. waiting \in SUBSET Nat
  BY <1>2, <1>3, <1>4, WaitingIs
<1>7. <<>> \in DOMAIN tree
  <2>1. Path(frames) \in DOMAIN tree
    BY <1>1, <1>4, Facts DEF OpenValuesOK
  <2>2. Path(frames) \in Seq(Keys) /\ Len(Path(frames)) = 0
    BY <1>1, Facts, EmptySeq
  <2>3. Path(frames) = <<>>
    BY <2>2, EmptySeq
  <2> QED BY <2>1, <2>3
<1> HIDE DEF t, waiting, badRoot
<1>8. TreeOK(u) /\ DOMAIN u = DOMAIN t
  BY <1>5, <1>6, <1>7, AfterIs
<1> HIDE DEF u
<1>9. TreeOK(tree') /\ DOMAIN tree' = DOMAIN tree
  BY <1>1, <1>5, <1>8
<1>10. Simple'
  <2>1. ok' \in BOOLEAN
    BY <1>1
  <2>2. pos' \in 0 .. Len(doc') /\ commentsBefore' \subseteq Nat
    BY <1>1, <1>3, <1>6
  <2> QED BY <1>1, <1>4, <2>1, <2>2 DEF Simple
<1>11. FramesTyped' /\ FramesOK' /\ frames' \in Seq(Frame)
  BY <1>1, FramesKept
<1>12. OpenValuesOK'
  <2>1. \A k \in 0 .. Len(frames) - 1 : PathTo(frames, k) \in DOMAIN tree'
    BY <1>4, <1>9 DEF OpenValuesOK
  <2> QED BY <1>1, <1>11, <2>1, OpensPrimed
<1>13. LastValueOK'
  BY <1>1, <1>4, <1>9 DEF LastValueOK, Collects
<1>14. errorAt \in [start : Int, limit : Int] /\ Within(errorAt)
  <2>1. CASE extra
    <3>1. errorAt = [start |-> token.start, limit |-> token.end]
      BY <2>1
    <3>2. token.end \in token.start .. Len(doc)
      BY <1>2 DEF TokenAt
    <3> QED BY <1>3, <3>1, <3>2 DEF Within
  <2>2. CASE ~extra
    <3>1. errorAt = [start |-> 0, limit |-> Len(doc)]
      BY <2>2
    <3> QED BY <1>2, <3>1 DEF Within
  <2> QED BY <2>1, <2>2
<1> HIDE DEF errorAt
<1>15. ErrorsTyped' /\ ErrorsOK'
  <2>1. /\ errors \in Seq([start : Int, limit : Int])
        /\ \A i \in DOMAIN errors : Within(errors[i])
        /\ ok <=> errors = <<>>
    BY <1>1, <1>4 DEF ErrorsTyped, ErrorsOK
  <2>2. /\ errors' \in Seq([start : Int, limit : Int])
        /\ \A i \in DOMAIN errors' :
             errors'[i] = errorAt \/ (i \in DOMAIN errors /\ errors'[i] = errors[i])
        /\ (extra \/ badRoot) => errors' # <<>>
        /\ ~(extra \/ badRoot) => errors' = errors
    <3>1. CASE extra \/ badRoot
      <4>1. errors' = Append(errors, errorAt)
        BY <1>1, <3>1
      <4>2. /\ errors' \in Seq([start : Int, limit : Int]) /\ errors' # <<>>
            /\ \A i \in DOMAIN errors' :
                 errors'[i] = errorAt \/ (i \in DOMAIN errors /\ errors'[i] = errors[i])
        BY <1>14, <2>1, <4>1, AppendProperties
      <4> QED BY <3>1, <4>2
    <3>2. CASE ~(extra \/ badRoot)
      <4>1. errors' = errors
        BY <1>1, <3>2
      <4> QED BY <2>1, <3>2, <4>1
    <3> QED BY <3>1, <3>2
  <2>3. ASSUME NEW i \in DOMAIN errors' PROVE Within(errors[i])'
    <3>1. Within(errors'[i])
      BY <1>14, <2>1, <2>2
    <3> QED BY <1>1, <3>1 DEF Within
  <2>4. ok' <=> errors' = <<>>
    BY <1>1, <2>1, <2>2
  <2> QED BY <1>1, <2>2, <2>3, <2>4 DEF ErrorsTyped, ErrorsOK
<1>16. IInv'
  BY <1>9, <1>10, <1>11, <1>12, <1>13, <1>15, FromPartsPrimed
<1>17. Advances
  BY <1>1, <1>3, Returned
<1> QED BY <1>16, <1>17

-----------------------------------------------------------------------------
(* A new parse(), and an error pushed from outside.                        *)

LEMMA EmptyPath == PathTo(<<>>, 0) = <<>>
<1>1. <<>> \in Seq(Frame) /\ 0 \in 0 .. Len(<<>>)
  BY EmptySeq
<1>2. PathTo(<<>>, 0) \in Seq(Keys) /\ Len(PathTo(<<>>, 0)) = 0
  BY <1>1, PathsAre
<1> QED BY <1>2, EmptySeq

LEMMA Begun ==
  ASSUME conf \in Configurations, doc \in Seq(Lexemes), pc = "value",
         pos = 0, frames = <<>>, tree = [v \in {<<>>} |-> Null],
         lastValue = {}, lastEnd = 0, commentsBefore = {},
         errors = <<>>, ok = TRUE
  PROVE  IInv
<1>1. Len(doc) \in Nat /\ conf.stackLimit \in Nat
  BY LenProperties, JsonReaderAssumption
<1>2. frames \in Seq(Frame) /\ Len(frames) = 0
  BY EmptySeq
<1>3. Simple
  BY <1>1 DEF Simple
<1>4. FramesTyped /\ FramesOK
  BY <1>1, <1>2 DEF FramesTyped, FramesOK
<1>5. TreeOK(tree) /\ <<>> \in DOMAIN tree
  <2>1. <<>> \in Seq(Keys)
    BY EmptySeq
  <2> QED BY <2>1, NullIsNode DEF TreeOK
<1>6. OpenValuesOK
  <2>1. PathTo(frames, 0) = <<>>
    BY EmptyPath
  <2> QED BY <1>2, <1>5, <2>1 DEF OpenValuesOK
<1>7. LastValueOK
  BY DEF LastValueOK
<1>8. ErrorsTyped /\ ErrorsOK
  BY EmptySeq DEF ErrorsTyped, ErrorsOK
<1> QED BY <1>3, <1>4, <1>5, <1>6, <1>7, <1>8, FromParts

LEMMA BegunAgain ==
  ASSUME conf' \in Configurations, doc' \in Seq(Lexemes), pc' = "value",
         pos' = 0, frames' = <<>>, tree' = [v \in {<<>>} |-> Null],
         lastValue' = {}, lastEnd' = 0, commentsBefore' = {},
         errors' = <<>>, ok' = TRUE
  PROVE  IInv'
<1>1. Len(doc') \in Nat /\ conf'.stackLimit \in Nat
  BY LenProperties, JsonReaderAssumption
<1>2. frames' \in Seq(Frame) /\ Len(frames') = 0
  BY EmptySeq
<1>3. Simple'
  BY <1>1 DEF Simple
<1>4. FramesTyped' /\ FramesOK'
  BY <1>1, <1>2 DEF FramesTyped, FramesOK
<1>5. TreeOK(tree') /\ <<>> \in DOMAIN tree'
  <2>1. <<>> \in Seq(Keys)
    BY EmptySeq
  <2> QED BY <2>1, NullIsNode DEF TreeOK
<1>6. OpenValuesOK'
  <2>1. PathTo(frames', 0) = <<>>
    BY EmptyPath
  <2> QED BY <1>2, <1>5, <2>1 DEF OpenValuesOK
<1>7. LastValueOK'
  BY DEF LastValueOK
<1>8. ErrorsTyped' /\ ErrorsOK'
  BY EmptySeq DEF ErrorsTyped, ErrorsOK
<1> QED BY <1>3, <1>4, <1>5, <1>6, <1>7, <1>8, FromPartsPrimed

LEMMA PushErrorTokenIs ==
  ASSUME IInv, NEW v \in DOMAIN tree, NEW limit \in Int, PushErrorToken(v, limit)
  PROVE  IInv'
<1> DEFINE error == [start |-> tree[v].start, limit |-> limit]
<1>1. /\ pc = "done" /\ pc' = "pushed" /\ errors' = Append(errors, error)
      /\ UNCHANGED <<conf, doc, pos, frames, tree, lastValue, lastEnd, commentsBefore, ok>>
  BY DEF PushErrorToken
<1>2. /\ Simple /\ FramesTyped /\ FramesOK /\ TreeOK(tree)
      /\ OpenValuesOK /\ LastValueOK /\ ErrorsTyped
  BY ToParts
<1>3. error \in [start : Int, limit : Int]
  <2>1. tree[v] \in Nodes
    BY <1>2 DEF TreeOK
  <2>2. tree[v].start \in Int
    BY <2>1 DEF Nodes
  <2> QED BY <2>2
<1> HIDE DEF error
<1>4. ErrorsTyped' /\ ErrorsOK'
  <2>1. errors' \in Seq([start : Int, limit : Int])
    BY <1>1, <1>2, <1>3, AppendProperties DEF ErrorsTyped
  <2> QED BY <1>1, <2>1 DEF ErrorsTyped, ErrorsOK
<1>5. Simple'
  BY <1>1, <1>2 DEF Simple
<1>6. FramesTyped' /\ FramesOK'
  BY <1>1, <1>2 DEF FramesTyped, FramesOK
<1>7. TreeOK(tree') /\ OpenValuesOK'
  BY <1>1, <1>2 DEF OpenValuesOK
<1>8. LastValueOK'
  BY <1>1, <1>2 DEF LastValueOK, Collects
<1> QED BY <1>4, <1>5, <1>6, <1>7, <1>8, FromPartsPrimed

LEMMA PushErrorIs ==
  ASSUME IInv, NEW v \in DOMAIN tree, NEW extra \in DOMAIN tree,
         PushError(v) \/ PushErrorWithExtra(v, extra)
  PROVE  IInv'
<1>1. tree[v].limit \in Int /\ Len(doc) \in Nat
  <2>1. tree[v] \in Nodes
    BY ToParts DEF TreeOK
  <2> QED BY <2>1, Facts DEF Nodes
<1>2. Len(doc) + tree[v].limit \in Int
  BY <1>1
<1>3. CASE PushError(v)
  BY <1>2, <1>3, PushErrorTokenIs DEF PushError
<1>4. CASE PushErrorWithExtra(v, extra)
  BY <1>1, <1>4, PushErrorTokenIs DEF PushErrorWithExtra
<1> QED BY <1>3, <1>4

-----------------------------------------------------------------------------
(* The results.                                                            *)

LEMMA StepIs ==
  ASSUME IInv, Step
  PROVE  IInv' /\ Advances
<1>1. CASE ExceedStackLimit
  BY <1>1, Threw DEF ExceedStackLimit
<1>2. CASE ReadScalar
  BY <1>2, ReadScalarIs
<1>3. CASE BeginObject
  BY <1>3, BeginObjectIs
<1>4. CASE BeginArray
  BY <1>4, BeginArrayIs
<1>5. CASE DropNull
  BY <1>5, DropNullIs
<1>6. CASE SyntaxError
  BY <1>6, SyntaxErrorIs
<1>7. CASE ReadMember
  BY <1>7, ReadMemberIs
<1>8. CASE AfterMember
  BY <1>8, AfterMemberIs
<1>9. CASE AfterElement
  BY <1>9, AfterElementIs
<1>10. CASE AfterFailure
  BY <1>10, AfterFailureIs
<1>11. CASE FinishParse
  BY <1>11, FinishParseIs
<1> QED BY <1>1, <1>2, <1>3, <1>4, <1>5, <1>6, <1>7, <1>8, <1>9, <1>10, <1>11 DEF Step

LEMMA Stutters ==
  ASSUME IInv, UNCHANGED vars
  PROVE  IInv'
<1>1. /\ Simple /\ FramesTyped /\ FramesOK /\ TreeOK(tree)
      /\ OpenValuesOK /\ LastValueOK /\ ErrorsTyped /\ ErrorsOK
  BY ToParts
<1>2. Simple' /\ FramesTyped' /\ FramesOK' /\ TreeOK(tree')
  BY <1>1 DEF vars, Simple, FramesTyped, FramesOK
<1>3. OpenValuesOK'
  BY <1>1 DEF vars, OpenValuesOK
<1>4. LastValueOK'
  BY <1>1 DEF vars, LastValueOK, Collects
<1>5. ErrorsTyped' /\ ErrorsOK'
  BY <1>1 DEF vars, ErrorsTyped, ErrorsOK, Within
<1> QED BY <1>2, <1>3, <1>4, <1>5, FromPartsPrimed

\* The invariant of the reader, whatever it reads and however often.
THEOREM Invariant == Spec => []IInv
<1>1. Init => IInv
  <2> SUFFICES ASSUME Init PROVE IInv
    OBVIOUS
  <2>1. doc \in Seq(Lexemes)
    BY JsonReaderAssumption DEF Init
  <2> QED BY <2>1, Begun DEF Init, Idle
<1>2. IInv /\ [Next]_vars => IInv'
  <2> SUFFICES ASSUME IInv, [Next]_vars PROVE IInv'
    OBVIOUS
  <2>1. ASSUME NEW d \in Reparsed, Parse(d) PROVE IInv'
    <3>1. conf' \in Configurations /\ doc' \in Seq(Lexemes)
      BY <2>1, JsonReaderAssumption, ToParts DEF Parse, Simple
    <3> QED BY <2>1, <3>1, BegunAgain DEF Parse
  <2>2. ASSUME NEW v \in DOMAIN tree, NEW extra \in DOMAIN tree,
               PushError(v) \/ PushErrorWithExtra(v, extra)
        PROVE  IInv'
    BY <2>2, PushErrorIs
  <2>3. CASE Step
    BY <2>3, StepIs
  <2>4. CASE UNCHANGED vars
    BY <2>4, Stutters
  <2> QED BY <2>1, <2>2, <2>3, <2>4 DEF Next
<1> QED BY <1>1, <1>2, PTL DEF Spec

\* TYPE CORRECTNESS: what each part of the reader's state may hold, on every
\* text and in every configuration; in particular current_ never passes end_.
THEOREM TypeCorrect == Spec => []TypeOK
<1>1. IInv => TypeOK
  BY DEF IInv
<1> QED BY <1>1, Invariant, PTL

\* THE LAST VALUE IS LIVE: the pointer that comments are attached through never
\* dangles, for texts and nestings of any size.
THEOREM LastValueStaysLive == Spec => []LastValueIsLive
<1>1. IInv => LastValueIsLive
  BY DEF IInv, LastValueOK, LastValueIsLive
<1> QED BY <1>1, Invariant, PTL

\* FAILURES ARE REPORTED: parse() fails exactly when it has errors to show, and
\* each of them is a place in the text, however errors and recoveries nest.
THEOREM FailuresAreReported == Spec => []FailureIsReported
<1>1. IInv => FailureIsReported
  <2> SUFFICES ASSUME IInv, pc = "done"
               PROVE  /\ ok <=> errors = <<>>
                      /\ \A i \in DOMAIN errors :
                           /\ 0 <= errors[i].start /\ errors[i].start <= errors[i].limit
                           /\ errors[i].limit <= Len(doc)
    BY DEF FailureIsReported
  <2>1. ErrorsOK /\ Len(doc) \in Nat
    BY ToParts, Facts
  <2>2. ASSUME NEW i \in DOMAIN errors
        PROVE  /\ 0 <= errors[i].start /\ errors[i].start <= errors[i].limit
               /\ errors[i].limit <= Len(doc)
    <3>1. Within(errors[i])
      BY <2>1 DEF ErrorsOK
    <3> QED BY <2>1, <3>1 DEF Within
  <2> QED BY <2>1, <2>2 DEF ErrorsOK
<1> QED BY <1>1, Invariant, PTL

\* READING ADVANCES: each step of the reader goes on in the text, closes a
\* container, or leaves a value for good, so that no text makes it loop.
THEOREM ReadingAdvancesAlways == Spec => ReadingAdvances
<1>1. IInv /\ [Next]_vars => [Step => Advances]_vars
  BY StepIs
<1> QED BY <1>1, Invariant, PTL DEF Spec, ReadingAdvances

-----------------------------------------------------------------------------
(* The places: paths and their fronts.                                     *)

LEMMA PrefixIs ==
  ASSUME NEW a \in Seq(Keys), NEW b \in Seq(Keys)
  PROVE  IsPrefix(a, b) <=> Len(a) <= Len(b) /\ \A i \in 1 .. Len(a) : a[i] = b[i]
<1>1. Len(a) \in Nat /\ Len(b) \in Nat
  BY LenProperties
<1>2. SubSeq(a, 1, Len(a)) = a
  OBVIOUS
<1> SUFFICES ASSUME Len(a) <= Len(b)
             PROVE  SubSeq(a, 1, Len(a)) = SubSeq(b, 1, Len(a))
                      <=> \A i \in 1 .. Len(a) : a[i] = b[i]
  BY DEF IsPrefix
<1> DEFINE c == SubSeq(b, 1, Len(a))
<1>3. c \in Seq(Keys) /\ Len(c) = Len(a) /\ \A i \in 1 .. Len(a) : c[i] = b[i]
  BY <1>1
<1> HIDE DEF c
<1>4. (\A i \in 1 .. Len(a) : a[i] = c[i]) => a = c
  BY <1>3, SeqEqual
<1> QED BY <1>2, <1>3, <1>4 DEF c

LEMMA PrefixOfItself ==
  ASSUME NEW a \in Seq(Keys)
  PROVE  IsPrefix(a, a)
<1>1. Len(a) \in Nat
  BY LenProperties
<1> QED BY <1>1, PrefixIs

LEMMA LengthOfFront ==
  ASSUME NEW n \in Nat, n >= 1
  PROVE  (IF 1 <= n - 1 THEN (n - 1) - 1 + 1 ELSE 0) = n - 1
OBVIOUS

LEMMA FrontIs ==
  ASSUME NEW v \in Seq(Keys), v # <<>>
  PROVE  /\ Len(v) \in Nat /\ Len(v) - 1 \in Nat
         /\ Front(v) \in Seq(Keys) /\ Len(Front(v)) = Len(v) - 1
         /\ \A i \in 1 .. Len(v) - 1 : Front(v)[i] = v[i]
         /\ Last(v) = v[Len(v)] /\ Last(v) \in Keys
<1>1. Len(v) \in Nat /\ Len(v) # 0
  BY LenProperties, EmptySeq
<1>2. \A i \in 1 .. Len(v) : v[i] \in Keys
  BY <1>1
<1>3. Len(v) \in Nat /\ Len(v) >= 1 /\ Len(v) \in 1 .. Len(v) /\ Len(v) - 1 \in Nat
  BY <1>1
<1> DEFINE u == SubSeq(v, 1, Len(v) - 1)
<1>4. u \in Seq(Keys) /\ Len(u) = Len(v) - 1 /\ \A i \in 1 .. Len(v) - 1 : u[i] = v[i]
  <2>1. \A i \in 1 .. Len(v) - 1 : v[i] \in Keys
    BY <1>2, <1>3
  <2>2. /\ u \in Seq(Keys) /\ Len(u) = IF 1 <= Len(v) - 1 THEN (Len(v) - 1) - 1 + 1 ELSE 0
        /\ \A i \in 1 .. (Len(v) - 1) - 1 + 1 : u[i] = v[1 + i - 1]
    BY <1>3, <2>1, SubSeqProperties
  <2> HIDE DEF u
  <2>3. ASSUME NEW i \in 1 .. Len(v) - 1 PROVE u[i] = v[i]
    <3>1. i \in 1 .. (Len(v) - 1) - 1 + 1 /\ 1 + i - 1 = i
      BY <1>3
    <3> QED BY <2>2, <3>1
  <2>5. Len(u) = Len(v) - 1
    BY <1>3, <2>2, LengthOfFront
  <2> QED BY <2>2, <2>3, <2>5
<1> QED BY <1>1, <1>2, <1>3, <1>4 DEF Front, Last

LEMMA FrontOfAppend ==
  ASSUME NEW v \in Seq(Keys), NEW key \in Keys
  PROVE  /\ Append(v, key) \in Seq(Keys) /\ Append(v, key) # <<>>
         /\ Len(Append(v, key)) = Len(v) + 1
         /\ Front(Append(v, key)) = v /\ Last(Append(v, key)) = key
<1>1. Len(v) \in Nat /\ Append(v, key) \in Seq(Keys) /\ Len(Append(v, key)) = Len(v) + 1
  BY LenProperties, AppendProperties
<1>2. Append(v, key) # <<>>
  BY <1>1, EmptySeq
<1> QED BY <1>1, <1>2 DEF Front, Last

LEMMA AppendOfFront ==
  ASSUME NEW v \in Seq(Keys), v # <<>>
  PROVE  v = Append(Front(v), Last(v))
<1> DEFINE w == Append(Front(v), Last(v))
<1>1. /\ Len(v) \in Nat /\ Front(v) \in Seq(Keys) /\ Len(Front(v)) = Len(v) - 1
      /\ \A i \in 1 .. Len(v) - 1 : Front(v)[i] = v[i]
      /\ Last(v) = v[Len(v)] /\ Last(v) \in Keys
  BY FrontIs
<1>2. /\ w \in Seq(Keys) /\ Len(w) = Len(v) /\ w[Len(v)] = Last(v)
      /\ \A i \in 1 .. Len(v) - 1 : w[i] = Front(v)[i]
  BY <1>1, AppendProperties
<1> HIDE DEF w
<1>3. \A i \in 1 .. Len(v) : v[i] = w[i]
  BY <1>1, <1>2
<1>4. v = w
  BY <1>2, <1>3, SeqEqual
<1> QED BY <1>4 DEF w

\* What extends a path is that path, or its front extends it.
LEMMA PrefixOfFront ==
  ASSUME NEW a \in Seq(Keys), NEW v \in Seq(Keys), v # <<>>
  PROVE  /\ IsStrictPrefix(a, v) <=> IsPrefix(a, Front(v))
         /\ IsPrefix(a, v) <=> (a = v \/ IsPrefix(a, Front(v)))
<1>1. /\ Len(v) \in Nat /\ Front(v) \in Seq(Keys) /\ Len(Front(v)) = Len(v) - 1
      /\ \A i \in 1 .. Len(v) - 1 : Front(v)[i] = v[i]
  BY FrontIs
<1>2. Len(a) \in Nat
  BY LenProperties
<1>3. ASSUME IsPrefix(a, v), a # v PROVE IsPrefix(a, Front(v))
  <2>1. Len(a) <= Len(v) /\ \A i \in 1 .. Len(a) : a[i] = v[i]
    BY <1>3, PrefixIs
  <2>2. Len(a) # Len(v)
    BY <1>3, <2>1, SeqEqual
  <2>3. Len(a) <= Len(Front(v))
    BY <1>1, <1>2, <2>1, <2>2
  <2>4. \A i \in 1 .. Len(a) : a[i] = Front(v)[i]
    BY <1>1, <1>2, <2>1, <2>3
  <2> QED BY <1>1, <2>3, <2>4, PrefixIs
<1>4. ASSUME IsPrefix(a, Front(v)) PROVE IsPrefix(a, v) /\ a # v
  <2>1. Len(a) <= Len(v) - 1 /\ \A i \in 1 .. Len(a) : a[i] = Front(v)[i]
    BY <1>1, <1>4, PrefixIs
  <2>2. Len(a) <= Len(v) /\ Len(a) # Len(v) /\ \A i \in 1 .. Len(a) : a[i] = v[i]
    BY <1>1, <1>2, <2>1
  <2> QED BY <2>2, PrefixIs
<1>5. IsPrefix(a, a)
  BY <1>2, PrefixIs
<1> QED BY <1>3, <1>4, <1>5 DEF IsStrictPrefix

\* Nothing longer is a prefix.
LEMMA PrefixLength ==
  ASSUME NEW a, NEW b, IsPrefix(a, b)
  PROVE  Len(a) <= Len(b)
BY DEF IsPrefix

LEMMA PathToIs ==
  ASSUME NEW fs \in Seq(Frame), NEW k \in 1 .. Len(fs)
  PROVE  /\ PathTo(fs, k) \in Seq(Keys) /\ PathTo(fs, k) # <<>> /\ Len(PathTo(fs, k)) = k
         /\ PathTo(fs, k - 1) \in Seq(Keys) /\ Len(PathTo(fs, k - 1)) = k - 1
         /\ Front(PathTo(fs, k)) = PathTo(fs, k - 1)
         /\ Last(PathTo(fs, k)) = fs[k].key
<1>1. Len(fs) \in Nat /\ k \in 0 .. Len(fs) /\ k - 1 \in 0 .. Len(fs)
  BY LenProperties
<1> DEFINE v == PathTo(fs, k)  u == PathTo(fs, k - 1)
<1>2. v \in Seq(Keys) /\ Len(v) = k /\ u \in Seq(Keys) /\ Len(u) = k - 1
  BY <1>1, PathsAre
<1>3. /\ \A i \in 1 .. k : v[i] = fs[i].key
      /\ \A i \in 1 .. k - 1 : u[i] = fs[i].key
  BY DEF PathTo
<1> HIDE DEF u, v
<1>4. v # <<>>
  BY <1>2, EmptySeq
<1>5. /\ Front(v) \in Seq(Keys) /\ Len(Front(v)) = k - 1
      /\ \A i \in 1 .. k - 1 : Front(v)[i] = v[i]
      /\ Last(v) = v[k]
  BY <1>2, <1>4, FrontIs
<1>6. \A i \in 1 .. k - 1 : Front(v)[i] = u[i]
  BY <1>3, <1>5
<1>7. Front(v) = u
  BY <1>2, <1>5, <1>6, SeqEqual
<1> QED BY <1>2, <1>3, <1>4, <1>5, <1>7 DEF u, v

-----------------------------------------------------------------------------
(* What is open, stale or complete.                                        *)

LEMMA OpenIs ==
  ASSUME IInv
  PROVE  /\ \A k \in 0 .. Len(frames) - 1 : /\ Len(PathTo(frames, k)) = k
                                            /\ PathTo(frames, k) \in DOMAIN tree
                                            /\ Open(PathTo(frames, k))
         /\ \A v \in DOMAIN tree : Open(v) => ~Stale(v) /\ Len(v) \in 0 .. Len(frames) - 1
         /\ \A v \in Below : Open(v) => Open(Front(v)) /\ Last(v) = frames[Len(v)].key
<1>1. frames \in Seq(Frame) /\ Len(frames) \in Nat /\ TreeOK(tree) /\ OpenValuesOK
  BY ToParts, Facts DEF FramesTyped
<1>2. ASSUME NEW k \in 0 .. Len(frames) - 1
      PROVE  /\ Len(PathTo(frames, k)) = k /\ PathTo(frames, k) \in DOMAIN tree
             /\ Open(PathTo(frames, k))
  <2>1. k \in 0 .. Len(frames) /\ k < Len(frames)
    BY <1>1
  <2>2. Len(PathTo(frames, k)) = k
    BY <1>1, <2>1, PathsAre
  <2> QED BY <1>1, <2>1, <2>2 DEF OpenValuesOK, Open
<1>3. ASSUME NEW v \in DOMAIN tree, Open(v) PROVE ~Stale(v) /\ Len(v) \in 0 .. Len(frames) - 1
  <2>1. Len(v) \in Nat /\ Len(v) < Len(frames)
    BY <1>1, <1>3, LenProperties DEF Open, TreeOK
  <2>2. ~IsPrefix(Path(frames), v)
    BY <1>1, <2>1, Facts, PrefixLength
  <2> QED BY <1>1, <2>1, <2>2 DEF Stale
<1>4. ASSUME NEW v \in Below, Open(v) PROVE Open(Front(v)) /\ Last(v) = frames[Len(v)].key
  <2>1. v \in Seq(Keys) /\ v # <<>> /\ v = PathTo(frames, Len(v)) /\ Len(v) < Len(frames)
    BY <1>1, <1>4 DEF Open, Below, TreeOK
  <2>2. Len(v) \in 1 .. Len(frames) /\ Len(v) - 1 \in 0 .. Len(frames) - 1
    BY <1>1, <2>1, FrontIs
  <2>3. Front(v) = PathTo(frames, Len(v) - 1) /\ Last(v) = frames[Len(v)].key
    BY <1>1, <2>1, <2>2, PathToIs
  <2> QED BY <1>2, <2>2, <2>3
<1> QED BY <1>2, <1>3, <1>4

\* The value on top of the stack.
LEMMA TopIs ==
  ASSUME IInv, pc = "value"
  PROVE  /\ Path(frames) \in DOMAIN tree /\ Path(frames) \in Seq(Keys)
         /\ Len(Path(frames)) = Len(frames) /\ Len(frames) \in Nat
         /\ Stale(Path(frames)) /\ ~Open(Path(frames))
         /\ \A v \in DOMAIN tree : Stale(v) <=> v = Path(frames) \/ IsStrictPrefix(Path(frames), v)
         /\ \A v \in Below : IsStrictPrefix(Path(frames), v) <=> Stale(Front(v))
<1>1. Len(frames) \in Nat /\ Path(frames) \in Seq(Keys) /\ Len(Path(frames)) = Len(frames)
  BY Facts
<1>2. Path(frames) \in DOMAIN tree /\ TreeOK(tree)
  BY CommentedIs, ToParts
<1>3. IsPrefix(Path(frames), Path(frames))
  BY <1>1, PrefixIs
<1>4. ~Open(Path(frames))
  BY <1>1 DEF Open
<1>5. ASSUME NEW v \in DOMAIN tree
      PROVE  Stale(v) <=> v = Path(frames) \/ IsStrictPrefix(Path(frames), v)
  BY <1>3 DEF Stale, IsStrictPrefix
<1>6. ASSUME NEW v \in Below PROVE IsStrictPrefix(Path(frames), v) <=> Stale(Front(v))
  <2>1. v \in Seq(Keys) /\ v # <<>>
    BY <1>2 DEF Below, TreeOK
  <2> QED BY <1>1, <2>1, PrefixOfFront DEF Stale
<1> QED BY <1>1, <1>2, <1>3, <1>4, <1>5, <1>6 DEF Stale

-----------------------------------------------------------------------------
(* What the steps that do not fail do to the tree: a value is read into    *)
(* the top, or opened there; a container is closed; the reader moves on to *)
(* its next value, or stays in it, for the next name.                      *)

Alike(v) == /\ tree'[v].type = tree[v].type
            /\ tree'[v].start = tree[v].start /\ tree'[v].limit = tree[v].limit
Top  == Path(frames)
Kept == {v \in DOMAIN tree : ~IsStrictPrefix(Top, v)}
ReadsTop ==
  /\ pc = "value" /\ pc' = "return" /\ frames' = frames
  /\ DOMAIN tree' = Kept /\ \A v \in Kept : v # Top => Alike(v)
  /\ pos <= pos' /\ pos - 1 <= tree'[Top].start /\ tree'[Top].start <= tree'[Top].limit
  /\ pos' = tree'[Top].limit
OpensTop(f) ==
  /\ pc = "value" /\ f \in Frame /\ f.kind = KindOf(f.key) /\ frames' = Append(frames, f)
  /\ \/ pc' = "member" /\ f.kind = "object" /\ DOMAIN tree' = Kept
     \/ /\ pc' = "value" /\ f.key = <<"index", 0>>
        /\ DOMAIN tree' = Kept \cup {Append(Top, f.key)}
  /\ \A v \in Kept : v # Top => Alike(v)
  /\ tree'[Top].type = f.kind /\ pos <= tree'[Top].start /\ tree'[Top].start < pos'
ClosesTop ==
  /\ pc \in {"member", "return"} /\ frames # <<>> /\ pc' = "return" /\ frames' = Front(frames)
  /\ DOMAIN tree' = DOMAIN tree /\ \A v \in DOMAIN tree : v # Container => Alike(v)
  /\ tree'[Container].type = tree[Container].type
  /\ tree'[Container].start = tree[Container].start
  /\ tree'[Container].limit = pos' /\ pos <= pos'
MovesOn(key) ==
  /\ pc \in {"member", "return"} /\ frames # <<>> /\ pc' = "value"
  /\ key \in Keys /\ frames' = Rekey(frames, key)
  /\ KindOf(key) = Last(frames).kind
  /\ key[1] = "index" => key[2] = Last(frames).key[2] + 1
  /\ DOMAIN tree' = DOMAIN tree \cup {Append(Container, key)}
  /\ \A v \in DOMAIN tree : Alike(v)
  /\ pos < pos'
StaysIn ==
  /\ pc = "return" /\ pc' = "member" /\ frames' = frames
  /\ DOMAIN tree' = DOMAIN tree /\ \A v \in DOMAIN tree : Alike(v)
  /\ pos <= pos'

LEMMA PartsPrimed ==
  ASSUME IInv'
  PROVE  /\ frames' \in Seq(Frame) /\ TreeOK(tree') /\ OpenValuesOK'
         /\ pos' \in Nat /\ doc' \in Seq(Lexemes) /\ Len(doc') \in Nat /\ pos' \in 0 .. Len(doc')
<1>1. /\ frames' \in Seq([kind : {"object", "array"}, key : Keys]) /\ OpenValuesOK'
      /\ DOMAIN tree' \subseteq Seq(Keys) /\ tree' \in [DOMAIN tree' -> Nodes]
      /\ pos' \in 0 .. Len(doc') /\ doc' \in Seq(Lexemes)
  BY DEF IInv, TypeOK
<1>2. Len(doc') \in Nat
  BY <1>1, LenProperties
<1> QED BY <1>1, <1>2 DEF Frame, TreeOK

LEMMA Parts ==
  ASSUME IInv
  PROVE  /\ frames \in Seq(Frame) /\ TreeOK(tree) /\ OpenValuesOK
         /\ DOMAIN frames = 1 .. Len(frames) /\ Len(frames) \in Nat
         /\ pos \in Nat /\ doc \in Seq(Lexemes) /\ Len(doc) \in Nat /\ pos \in 0 .. Len(doc)
BY ToParts, Facts, LenProperties DEF FramesTyped, Simple

LEMMA PathOfTree ==
  ASSUME NEW t, TreeOK(t), NEW v \in DOMAIN t
  PROVE  v \in Seq(Keys) /\ Len(v) \in Nat /\ t[v] \in Nodes
BY LenProperties DEF TreeOK

LEMMA NodeIs ==
  ASSUME NEW t, TreeOK(t), NEW v \in DOMAIN t
  PROVE  t[v].start \in Int /\ t[v].limit \in Int
BY DEF TreeOK, Nodes

LEMMA KeptIs ==
  ASSUME IInv, pc = "value"
  PROVE  /\ Top \in Kept /\ Kept \subseteq DOMAIN tree
         /\ \A v \in Kept : v # Top => ~Stale(v)
         /\ \A v \in DOMAIN tree : ~Stale(v) => v \in Kept
         /\ \A v \in Kept : v # <<>> => ~Stale(Front(v))
         /\ \A k \in 0 .. Len(frames) - 1 : PathTo(frames, k) \in Kept /\ PathTo(frames, k) # Top
<1>1. /\ Top \in DOMAIN tree /\ Top \in Seq(Keys) /\ Stale(Top) /\ ~Open(Top)
      /\ \A v \in DOMAIN tree : Stale(v) <=> v = Top \/ IsStrictPrefix(Top, v)
      /\ \A v \in Below : IsStrictPrefix(Top, v) <=> Stale(Front(v))
  BY TopIs DEF Top
<1>2. ~IsStrictPrefix(Top, Top)
  BY DEF IsStrictPrefix
<1>3. \A k \in 0 .. Len(frames) - 1 : /\ PathTo(frames, k) \in DOMAIN tree
                                      /\ Open(PathTo(frames, k)) /\ ~Stale(PathTo(frames, k))
  BY OpenIs
<1> QED BY <1>1, <1>2, <1>3 DEF Kept, Below

\* What is open, stale or complete after each.
LEMMA AfterReading ==
  ASSUME IInv, ReadsTop
  PROVE  \A v \in DOMAIN tree' : /\ v \in DOMAIN tree /\ ~Stale(v)' /\ (Open(v)' <=> Open(v))
                                 /\ v # Top => ~Stale(v) /\ Alike(v)
<1>1. pc = "value" /\ pc' = "return" /\ frames' = frames /\ DOMAIN tree' = Kept
      /\ \A v \in Kept : v # Top => Alike(v)
  BY DEF ReadsTop
<1>2. \A v \in Kept : v \in DOMAIN tree /\ (v # Top => ~Stale(v))
  BY <1>1, KeptIs
<1>3. \A v : (Open(v)' <=> Open(v)) /\ ~Stale(v)'
  BY <1>1 DEF Open, Stale
<1> QED BY <1>1, <1>2, <1>3

LEMMA AfterOpening ==
  ASSUME IInv, NEW f, OpensTop(f)
  PROVE  /\ \A v \in Kept : /\ v \in DOMAIN tree /\ v \in DOMAIN tree' /\ ~Stale(v)'
                            /\ v # Top => ~Stale(v) /\ (Open(v)' <=> Open(v)) /\ Alike(v)
                            /\ v = Top => Open(v)'
         /\ Top \in Kept
         /\ \A v \in DOMAIN tree' \ Kept : /\ v = Append(Top, f.key) /\ Stale(v)' /\ ~Open(v)'
                                           /\ pc' = "value"
<1>1. /\ pc = "value" /\ f \in Frame /\ frames' = Append(frames, f) /\ frames \in Seq(Frame)
      /\ Len(frames) \in Nat /\ TreeOK(tree)
  BY Parts DEF OpensTop
<1>2. /\ Top \in Kept /\ Kept \subseteq DOMAIN tree /\ \A v \in Kept : v # Top => ~Stale(v)
  BY <1>1, KeptIs
<1>3. /\ Len(frames') = Len(frames) + 1 /\ Path(frames') = Append(Top, f.key)
      /\ \A k \in 0 .. Len(frames) : PathTo(frames', k) = PathTo(frames, k)
  <2>1. Len(frames') = Len(frames) + 1
    BY <1>1, Pushed
  <2>2. Path(frames') = Append(Top, f.key)
    BY <1>1, Pushed DEF Top
  <2>3. \A k \in 0 .. Len(frames) : PathTo(frames', k) = PathTo(frames, k)
    <3>1. \A i \in 1 .. Len(frames) : frames'[i] = frames[i]
      BY <1>1, AppendProperties
    <3>2. ASSUME NEW k \in 0 .. Len(frames) PROVE PathTo(frames', k) = PathTo(frames, k)
      <4>1. k \in Nat /\ \A i \in 1 .. k : frames'[i].key = frames[i].key
        BY <1>1, <3>1, <3>2
      <4> QED BY <4>1, SamePaths
    <3> QED BY <3>2
  <2> QED BY <2>1, <2>2, <2>3
<1>4. /\ Top \in Seq(Keys) /\ Len(Top) = Len(frames) /\ Top = PathTo(frames, Len(frames))
  BY Facts DEF Top
<1>5. f.key \in Keys
  BY <1>1 DEF Frame
<1>6. /\ Append(Top, f.key) \in Seq(Keys) /\ Append(Top, f.key) # <<>>
      /\ Len(Append(Top, f.key)) = Len(frames) + 1 /\ Front(Append(Top, f.key)) = Top
  BY <1>4, <1>5, FrontOfAppend
<1>7. ASSUME NEW v \in Kept PROVE ~Stale(v)'
  <2>1. v \in Seq(Keys) /\ ~IsStrictPrefix(Top, v)
    BY <1>1, <1>2, PathOfTree DEF Kept
  <2>2. SUFFICES ASSUME IsPrefix(Append(Top, f.key), v) PROVE FALSE
    BY <1>3 DEF Stale
  <2>3. v # <<>> /\ Len(Front(v)) \in Nat /\ Front(v) \in Seq(Keys)
    <3>1. Len(Append(Top, f.key)) <= Len(v)
      BY <2>2, PrefixLength
    <3>2. v # <<>>
      BY <1>1, <1>6, <3>1, EmptySeq
    <3> QED BY <2>1, <3>2, FrontIs
  <2>4. IsPrefix(Top, v)
    <3>1. /\ \A i \in 1 .. Len(frames) + 1 : Append(Top, f.key)[i] = v[i]
          /\ Len(frames) + 1 <= Len(v) /\ Len(v) \in Nat
      BY <1>6, <2>1, <2>2, PrefixIs, LenProperties
    <3>2. \A i \in 1 .. Len(frames) : Top[i] = Append(Top, f.key)[i]
      BY <1>4, <1>5, AppendProperties
    <3>3. Len(Top) <= Len(v) /\ \A i \in 1 .. Len(Top) : Top[i] = v[i]
      BY <1>1, <1>4, <3>1, <3>2
    <3> QED BY <1>4, <2>1, <3>3, PrefixIs
  <2>5. Len(v) # Len(Top)
    <3>1. Len(Append(Top, f.key)) <= Len(v)
      BY <2>2, PrefixLength
    <3> QED BY <1>1, <1>4, <1>6, <3>1
  <2> QED BY <2>1, <2>4, <2>5 DEF IsStrictPrefix
<1>8. ASSUME NEW v \in Kept, v # Top PROVE Open(v)' <=> Open(v)
  <2>1. Len(v) \in Nat
    BY <1>1, <1>2, PathOfTree
  <2>2. CASE Len(v) < Len(frames)
    <3>1. Len(v) \in 0 .. Len(frames) /\ Len(v) < Len(frames) + 1
      BY <1>1, <2>1, <2>2
    <3>2. PathTo(frames', Len(v)) = PathTo(frames, Len(v))
      BY <1>3, <3>1
    <3> QED BY <1>3, <2>2, <3>1, <3>2 DEF Open
  <2>3. CASE Len(v) = Len(frames)
    <3>1. Len(frames) \in 0 .. Len(frames)
      BY <1>1
    <3>2. PathTo(frames', Len(v)) = Top
      BY <1>3, <1>4, <2>3, <3>1
    <3> QED BY <1>1, <1>8, <2>3, <3>2 DEF Open
  <2>4. CASE Len(v) > Len(frames)
    BY <1>1, <1>3, <2>1, <2>4 DEF Open
  <2> QED BY <1>1, <2>1, <2>2, <2>3, <2>4
<1>9. ASSUME NEW v \in Kept, v = Top PROVE Open(v)'
  <2>1. Len(frames) \in 0 .. Len(frames) /\ Len(v) < Len(frames')
    BY <1>1, <1>3, <1>4, <1>9
  <2>2. PathTo(frames', Len(frames)) = PathTo(frames, Len(frames))
    BY <1>3, <2>1
  <2>3. PathTo(frames', Len(v)) = v
    BY <1>4, <1>9, <2>2
  <2> QED BY <2>1, <2>3 DEF Open
<1>10. ASSUME NEW v \in DOMAIN tree' \ Kept
       PROVE  v = Append(Top, f.key) /\ Stale(v)' /\ ~Open(v)' /\ pc' = "value"
  <2>1. v = Append(Top, f.key) /\ pc' = "value"
    BY <1>10 DEF OpensTop
  <2>2. IsPrefix(v, v)
    BY <1>6, <2>1, PrefixOfItself
  <2>3. Stale(v)'
    BY <1>3, <2>1, <2>2 DEF Stale
  <2>4. ~Open(v)'
    BY <1>1, <1>3, <1>6, <2>1 DEF Open
  <2> QED BY <2>1, <2>3, <2>4
<1>11. Kept \subseteq DOMAIN tree' /\ \A v \in Kept : v # Top => Alike(v)
  BY DEF OpensTop
<1> QED BY <1>2, <1>7, <1>8, <1>9, <1>10, <1>11

LEMMA FramesClosed ==
  ASSUME IInv, ClosesTop
  PROVE  /\ frames \in Seq(Frame) /\ Len(frames) \in Nat /\ Len(frames) >= 1
         /\ Len(frames') = Len(frames) - 1 /\ DOMAIN frames' = 1 .. Len(frames) - 1
         /\ \A i \in 1 .. Len(frames) - 1 : frames'[i] = frames[i]
         /\ \A k \in 0 .. Len(frames) - 1 : PathTo(frames', k) = PathTo(frames, k)
         /\ Container \in DOMAIN tree /\ Container \in Seq(Keys) /\ Open(Container)
         /\ Container = PathTo(frames, Len(frames) - 1) /\ Len(Container) = Len(frames) - 1
<1>1. frames \in Seq(Frame) /\ frames # <<>> /\ frames' = Front(frames)
  BY Parts DEF ClosesTop
<1>2. /\ Container \in DOMAIN tree /\ Container \in Seq(Keys)
      /\ Container = PathTo(frames, Len(frames) - 1) /\ Len(Container) = Len(frames) - 1
  BY <1>1, ContainerIs
<1>3. Len(frames) - 1 \in Nat /\ Len(frames) \in Nat
  BY <1>1, Popped, LenProperties
<1>4. Len(frames') = Len(frames) - 1 /\ frames' \in Seq(Frame)
  BY <1>1, Popped
<1>5. \A i \in 1 .. Len(frames) - 1 : frames'[i] = frames[i]
  BY <1>1, Popped
<1>6. ASSUME NEW k \in 0 .. Len(frames) - 1 PROVE PathTo(frames', k) = PathTo(frames, k)
  <2>1. k \in Nat /\ \A i \in 1 .. k : frames'[i].key = frames[i].key
    BY <1>3, <1>5, <1>6
  <2> QED BY <2>1, SamePaths
<1>7. Open(Container)
  BY <1>2, <1>3 DEF Open
<1>8. DOMAIN frames' = 1 .. Len(frames) - 1
  BY <1>4, LenProperties
<1> QED BY <1>1, <1>2, <1>3, <1>4, <1>5, <1>6, <1>7, <1>8

LEMMA AfterClosing ==
  ASSUME IInv, ClosesTop
  PROVE  \A v \in DOMAIN tree : /\ ~Stale(v) /\ ~Stale(v)'
                                /\ v # Container => (Open(v)' <=> Open(v)) /\ Alike(v)
                                /\ v = Container => Open(v) /\ ~Open(v)'
<1>1. /\ Len(frames) \in Nat /\ Len(frames) >= 1 /\ Len(frames') = Len(frames) - 1
      /\ \A k \in 0 .. Len(frames) - 1 : PathTo(frames', k) = PathTo(frames, k)
      /\ Open(Container) /\ TreeOK(tree)
      /\ Container = PathTo(frames, Len(frames) - 1) /\ Len(Container) = Len(frames) - 1
  BY FramesClosed, Parts
<1>2. pc # "value" /\ pc' = "return" /\ \A v \in DOMAIN tree : v # Container => Alike(v)
  BY DEF ClosesTop
<1>3. ASSUME NEW v \in DOMAIN tree, v # Container PROVE Open(v)' <=> Open(v)
  <2>1. Len(v) \in Nat
    BY <1>1, PathOfTree
  <2>2. CASE Len(v) < Len(frames) - 1
    <3>1. PathTo(frames', Len(v)) = PathTo(frames, Len(v)) /\ Len(v) < Len(frames)
      BY <1>1, <2>1, <2>2
    <3> QED BY <1>1, <2>2, <3>1 DEF Open
  <2>3. CASE ~(Len(v) < Len(frames) - 1)
    <3>1. ~Open(v)'
      BY <1>1, <2>3 DEF Open
    <3>2. ASSUME Open(v) PROVE FALSE
      <4>1. Len(v) = Len(frames) - 1 /\ v = PathTo(frames, Len(v))
        BY <1>1, <2>1, <2>3, <3>2 DEF Open
      <4> QED BY <1>1, <1>3, <4>1
    <3> QED BY <3>1, <3>2
  <2> QED BY <2>2, <2>3
<1>4. ASSUME NEW v \in DOMAIN tree, v = Container PROVE Open(v) /\ ~Open(v)'
  <2>1. ~(Len(v) < Len(frames'))
    BY <1>1, <1>4
  <2>2. ~Open(v)'
    BY <2>1 DEF Open
  <2> QED BY <1>1, <1>4, <2>2
<1>5. \A v \in DOMAIN tree : ~Stale(v) /\ ~Stale(v)'
  BY <1>2 DEF Stale
<1> QED BY <1>2, <1>3, <1>4, <1>5

LEMMA FramesMoved ==
  ASSUME IInv, NEW key, MovesOn(key)
  PROVE  /\ frames \in Seq(Frame) /\ Len(frames) \in Nat /\ Len(frames) >= 1
         /\ Len(frames') = Len(frames) /\ DOMAIN frames' = 1 .. Len(frames)
         /\ \A i \in 1 .. Len(frames) - 1 : frames'[i] = frames[i]
         /\ \A i \in 1 .. Len(frames) : frames'[i].kind = frames[i].kind
         /\ frames'[Len(frames)].key = key
         /\ \A k \in 0 .. Len(frames) - 1 : PathTo(frames', k) = PathTo(frames, k)
         /\ Path(frames') = Append(Container, key)
<1>1. frames \in Seq(Frame) /\ frames # <<>> /\ frames' = Rekey(frames, key) /\ key \in Keys
  BY Parts DEF MovesOn
<1>2. frames' = [frames EXCEPT ![Len(frames)].key = key]
  BY <1>1 DEF Rekey
<1>3. Len(frames) - 1 \in Nat /\ Len(frames) \in Nat
  BY <1>1, Popped, LenProperties
<1>4. Len(frames') = Len(frames) /\ frames' \in Seq(Frame)
  BY <1>1, <1>2, Rekeyed
<1>5. \A i \in 1 .. Len(frames) - 1 : frames'[i] = frames[i]
  BY <1>1, <1>2, Rekeyed
<1>6. \A i \in 1 .. Len(frames) : frames'[i].kind = frames[i].kind
  BY <1>1, <1>2, Rekeyed
<1>7. frames'[Len(frames)].key = key
  BY <1>1, <1>2, Rekeyed
<1>8. ASSUME NEW k \in 0 .. Len(frames) - 1 PROVE PathTo(frames', k) = PathTo(frames, k)
  <2>1. k \in Nat /\ \A i \in 1 .. k : frames'[i].key = frames[i].key
    BY <1>3, <1>5, <1>8
  <2> QED BY <2>1, SamePaths
<1>9. Path(frames') = Append(Container, key)
  BY <1>1, RekeyedPath DEF Container
<1>10. DOMAIN frames' = 1 .. Len(frames)
  BY <1>4, LenProperties
<1> QED BY <1>1, <1>3, <1>4, <1>5, <1>6, <1>7, <1>8, <1>9, <1>10

LEMMA AfterMoving ==
  ASSUME IInv, NEW key, MovesOn(key)
  PROVE  /\ \A v \in DOMAIN tree : /\ v \in DOMAIN tree' /\ ~Stale(v) /\ Alike(v)
                                   /\ Open(v)' <=> Open(v)
                                   /\ Stale(v)' <=> IsPrefix(Append(Container, key), v)
         /\ \A v \in DOMAIN tree' \ DOMAIN tree :
              v = Append(Container, key) /\ Stale(v)' /\ ~Open(v)'
<1>1. /\ Len(frames) \in Nat /\ Len(frames') = Len(frames)
      /\ \A k \in 0 .. Len(frames) - 1 : PathTo(frames', k) = PathTo(frames, k)
      /\ Path(frames') = Append(Container, key) /\ TreeOK(tree)
  BY FramesMoved, Parts
<1>2. /\ pc # "value" /\ pc' = "value" /\ key \in Keys
      /\ DOMAIN tree' = DOMAIN tree \cup {Append(Container, key)}
      /\ \A v \in DOMAIN tree : Alike(v)
  BY DEF MovesOn
<1>3. ASSUME NEW v \in DOMAIN tree PROVE Open(v)' <=> Open(v)
  <2>1. Len(v) \in Nat
    BY <1>1, PathOfTree
  <2>2. CASE Len(v) < Len(frames)
    <3>1. PathTo(frames', Len(v)) = PathTo(frames, Len(v))
      BY <1>1, <2>1, <2>2
    <3> QED BY <1>1, <2>2, <3>1 DEF Open
  <2>3. CASE ~(Len(v) < Len(frames))
    BY <1>1, <2>3 DEF Open
  <2> QED BY <2>2, <2>3
<1>4. \A v : Stale(v)' <=> IsPrefix(Append(Container, key), v)
  BY <1>1, <1>2 DEF Stale
<1>5. \A v : ~Stale(v)
  BY <1>2 DEF Stale
<1>6. ASSUME NEW v \in DOMAIN tree' \ DOMAIN tree
      PROVE  v = Append(Container, key) /\ Stale(v)' /\ ~Open(v)'
  <2>1. v = Append(Container, key)
    BY <1>2, <1>6
  <2>2. Container \in Seq(Keys) /\ Len(Container) = Len(frames) - 1 /\ frames # <<>>
    <3>1. frames # <<>>
      BY DEF MovesOn
    <3> QED BY <3>1, ContainerIs
  <2>3. v \in Seq(Keys) /\ Len(v) = Len(frames) /\ IsPrefix(v, v)
    <3>1. v \in Seq(Keys) /\ Len(v) = Len(Container) + 1
      BY <1>2, <2>1, <2>2, FrontOfAppend
    <3> QED BY <1>1, <2>2, <3>1, PrefixOfItself
  <2>4. ~Open(v)'
    BY <1>1, <2>3 DEF Open
  <2> QED BY <1>4, <2>1, <2>3, <2>4
<1> QED BY <1>2, <1>3, <1>4, <1>5, <1>6

LEMMA AfterStaying ==
  ASSUME IInv, StaysIn
  PROVE  /\ DOMAIN tree' = DOMAIN tree
         /\ \A v \in DOMAIN tree : ~Stale(v) /\ ~Stale(v)' /\ (Open(v)' <=> Open(v)) /\ Alike(v)
BY DEF StaysIn, Stale, Open

-----------------------------------------------------------------------------
(* The kinds of the containers.                                            *)

LEMMA BelowIs ==
  ASSUME NEW t, TreeOK(t), NEW v \in DOMAIN t, v # <<>>
  PROVE  /\ v \in Seq(Keys) /\ Len(v) \in Nat /\ Len(v) >= 1 /\ Len(Front(v)) = Len(v) - 1
         /\ Front(v) \in Seq(Keys) /\ Last(v) \in Keys
BY FrontIs DEF TreeOK

LEMMA FrontOfContainer ==
  ASSUME IInv, frames # <<>>, NEW v \in Below, Front(v) = Container
  PROVE  ~Open(v) /\ Len(v) = Len(frames)
<1>1. v \in DOMAIN tree /\ v # <<>> /\ TreeOK(tree) /\ Len(frames) \in Nat
  BY Parts DEF Below
<1>2. Len(v) \in Nat /\ Len(Front(v)) = Len(v) - 1 /\ Len(Container) = Len(frames) - 1
  BY <1>1, BelowIs, ContainerIs
<1>3. Len(v) = Len(frames)
  BY <1>1, <1>2
<1> QED BY <1>1, <1>3 DEF Open

LEMMA FrontOfTop ==
  ASSUME IInv, pc = "value", Top \in Below
  PROVE  Open(Front(Top)) /\ Len(frames) \in 1 .. Len(frames) /\ Top = PathTo(frames, Len(frames))
<1>1. Top \in DOMAIN tree /\ Top # <<>> /\ TreeOK(tree) /\ frames \in Seq(Frame) /\ Len(frames) \in Nat
  BY Parts DEF Below
<1>2. Top = PathTo(frames, Len(frames)) /\ Len(Top) = Len(frames)
  BY Facts DEF Top
<1>3. Len(frames) \in 1 .. Len(frames) /\ Len(frames) - 1 \in 0 .. Len(frames) - 1
  BY <1>1, <1>2, BelowIs
<1>4. Front(Top) = PathTo(frames, Len(frames) - 1)
  BY <1>1, <1>2, <1>3, PathToIs
<1> QED BY <1>2, <1>3, <1>4, OpenIs

LEMMA KindsRead ==
  ASSUME IInv, IInv', KindsOK, ReadsTop
  PROVE  KindsOK'
<1>1. /\ pc = "value" /\ frames' = frames /\ DOMAIN tree' = Kept
      /\ \A v \in Kept : v # Top => Alike(v)
  BY DEF ReadsTop
<1>2. DOMAIN frames = 1 .. Len(frames) /\ Len(frames) \in Nat
  BY Parts
<1>3. /\ Top \in Kept /\ Kept \subseteq DOMAIN tree
      /\ \A v \in Kept : v # Top => ~Stale(v)
      /\ \A v \in DOMAIN tree : ~Stale(v) => v \in Kept
      /\ \A v \in Kept : v # <<>> => ~Stale(Front(v))
      /\ \A k \in 0 .. Len(frames) - 1 : PathTo(frames, k) \in Kept /\ PathTo(frames, k) # Top
  BY <1>1, KeptIs
<1>4. Stale(Top)
  BY <1>1, TopIs DEF Top
<1>5. ASSUME NEW k \in DOMAIN frames'
      PROVE  /\ frames'[k].kind = KindOf(frames'[k].key)
             /\ tree'[PathTo(frames', k - 1)].type = frames'[k].kind
  <2>1. k \in DOMAIN frames /\ k - 1 \in 0 .. Len(frames) - 1
    BY <1>1, <1>2
  <2>2. tree'[PathTo(frames, k - 1)].type = tree[PathTo(frames, k - 1)].type
    BY <1>1, <1>3, <2>1 DEF Alike
  <2> QED BY <1>1, <2>1, <2>2 DEF KindsOK
<1>6. ASSUME NEW v \in Below'
      PROVE  Front(v) \in DOMAIN tree' /\ tree'[Front(v)].type = KindOf(Last(v))
  <2>1. v \in Kept /\ v \in Below /\ v # <<>>
    BY <1>1, <1>3 DEF Below
  <2>2. ~Stale(Front(v)) /\ Front(v) \in DOMAIN tree /\ tree[Front(v)].type = KindOf(Last(v))
    BY <1>3, <2>1 DEF KindsOK
  <2>3. Front(v) \in Kept /\ Front(v) # Top
    BY <1>3, <1>4, <2>2
  <2> QED BY <1>1, <2>2, <2>3 DEF Alike
<1> QED BY <1>5, <1>6 DEF KindsOK

LEMMA FramesOpened ==
  ASSUME IInv, NEW f, OpensTop(f)
  PROVE  /\ Len(frames) \in Nat /\ DOMAIN frames = 1 .. Len(frames)
         /\ Len(frames') = Len(frames) + 1 /\ DOMAIN frames' = 1 .. Len(frames) + 1
         /\ \A i \in 1 .. Len(frames) : frames'[i] = frames[i]
         /\ frames'[Len(frames) + 1] = f
         /\ \A k \in 0 .. Len(frames) : PathTo(frames', k) = PathTo(frames, k)
         /\ Path(frames') = Append(Top, f.key)
         /\ Top = PathTo(frames, Len(frames)) /\ Top \in Seq(Keys) /\ Len(Top) = Len(frames)
         /\ Append(Top, f.key) \in Seq(Keys) /\ Append(Top, f.key) # <<>>
         /\ Len(Append(Top, f.key)) = Len(frames) + 1
         /\ Front(Append(Top, f.key)) = Top /\ Last(Append(Top, f.key)) = f.key
<1>1. /\ f \in Frame /\ frames' = Append(frames, f) /\ frames \in Seq(Frame)
      /\ Len(frames) \in Nat /\ DOMAIN frames = 1 .. Len(frames)
  BY Parts DEF OpensTop
<1>2. Len(frames') = Len(frames) + 1 /\ frames' \in Seq(Frame)
  BY <1>1, AppendProperties
<1>3. /\ \A i \in 1 .. Len(frames) : frames'[i] = frames[i]
      /\ frames'[Len(frames) + 1] = f
  BY <1>1, AppendProperties
<1>4. ASSUME NEW k \in 0 .. Len(frames) PROVE PathTo(frames', k) = PathTo(frames, k)
  <2>1. k \in Nat /\ \A i \in 1 .. k : frames'[i].key = frames[i].key
    BY <1>1, <1>3, <1>4
  <2> QED BY <2>1, SamePaths
<1>5. Path(frames') = Append(Top, f.key)
  BY <1>1, Pushed DEF Top
<1>6. Top = PathTo(frames, Len(frames)) /\ Top \in Seq(Keys) /\ Len(Top) = Len(frames)
  BY Facts DEF Top
<1>7. f.key \in Keys
  BY <1>1 DEF Frame
<1>8. DOMAIN frames' = 1 .. Len(frames) + 1
  BY <1>2, LenProperties
<1>9. /\ Append(Top, f.key) \in Seq(Keys) /\ Append(Top, f.key) # <<>>
      /\ Len(Append(Top, f.key)) = Len(Top) + 1
      /\ Front(Append(Top, f.key)) = Top /\ Last(Append(Top, f.key)) = f.key
  BY <1>6, <1>7, FrontOfAppend
<1> QED BY <1>1, <1>2, <1>3, <1>4, <1>5, <1>6, <1>8, <1>9

LEMMA KindsOpened ==
  ASSUME IInv, IInv', KindsOK, NEW f, OpensTop(f)
  PROVE  KindsOK'
<1>1. /\ pc = "value" /\ f.kind = KindOf(f.key) /\ tree'[Top].type = f.kind
      /\ \A v \in Kept : v # Top => Alike(v)
      /\ DOMAIN tree' = Kept \/ DOMAIN tree' = Kept \cup {Append(Top, f.key)}
  BY DEF OpensTop
<1>2. /\ Len(frames) \in Nat /\ DOMAIN frames = 1 .. Len(frames)
      /\ DOMAIN frames' = 1 .. Len(frames) + 1
      /\ \A i \in 1 .. Len(frames) : frames'[i] = frames[i]
      /\ frames'[Len(frames) + 1] = f
      /\ \A k \in 0 .. Len(frames) : PathTo(frames', k) = PathTo(frames, k)
      /\ Top = PathTo(frames, Len(frames))
      /\ Front(Append(Top, f.key)) = Top /\ Last(Append(Top, f.key)) = f.key
  BY FramesOpened
<1>3. /\ Top \in Kept /\ Kept \subseteq DOMAIN tree
      /\ \A v \in Kept : v # Top => ~Stale(v)
      /\ \A v \in DOMAIN tree : ~Stale(v) => v \in Kept
      /\ \A v \in Kept : v # <<>> => ~Stale(Front(v))
      /\ \A k \in 0 .. Len(frames) - 1 : PathTo(frames, k) \in Kept /\ PathTo(frames, k) # Top
  BY <1>1, KeptIs
<1>4. Stale(Top)
  BY <1>1, TopIs DEF Top
<1>5. ASSUME NEW k \in DOMAIN frames'
      PROVE  /\ frames'[k].kind = KindOf(frames'[k].key)
             /\ tree'[PathTo(frames', k - 1)].type = frames'[k].kind
  <2>1. CASE k \in 1 .. Len(frames)
    <3>1. k \in DOMAIN frames /\ k - 1 \in 0 .. Len(frames) - 1 /\ k - 1 \in 0 .. Len(frames)
      BY <1>2, <2>1
    <3>2. tree'[PathTo(frames, k - 1)].type = tree[PathTo(frames, k - 1)].type
      BY <1>1, <1>3, <3>1 DEF Alike
    <3>3. frames'[k] = frames[k] /\ PathTo(frames', k - 1) = PathTo(frames, k - 1)
      BY <1>2, <2>1, <3>1
    <3> QED BY <3>1, <3>2, <3>3 DEF KindsOK
  <2>2. CASE k = Len(frames) + 1
    <3>1. k - 1 = Len(frames) /\ Len(frames) \in 0 .. Len(frames)
      BY <1>2, <2>2
    <3>2. PathTo(frames', k - 1) = Top /\ frames'[k] = f
      BY <1>2, <2>2, <3>1
    <3> QED BY <1>1, <3>2
  <2> QED BY <1>2, <2>1, <2>2
<1>6. ASSUME NEW v \in Below'
      PROVE  Front(v) \in DOMAIN tree' /\ tree'[Front(v)].type = KindOf(Last(v))
  <2>1. CASE v \in Kept
    <3>1. v \in Below /\ v # <<>>
      BY <1>3, <1>6, <2>1 DEF Below
    <3>2. ~Stale(Front(v)) /\ Front(v) \in DOMAIN tree /\ tree[Front(v)].type = KindOf(Last(v))
      BY <1>3, <2>1, <3>1 DEF KindsOK
    <3>3. Front(v) \in Kept /\ Front(v) # Top
      BY <1>3, <1>4, <3>2
    <3> QED BY <1>1, <3>2, <3>3 DEF Alike
  <2>2. CASE v = Append(Top, f.key)
    BY <1>1, <1>2, <1>3, <2>2
  <2> QED BY <1>1, <1>6, <2>1, <2>2 DEF Below
<1> QED BY <1>5, <1>6 DEF KindsOK

LEMMA KindsClosed ==
  ASSUME IInv, IInv', KindsOK, ClosesTop
  PROVE  KindsOK'
<1>1. /\ DOMAIN tree' = DOMAIN tree /\ \A v \in DOMAIN tree : v # Container => Alike(v)
      /\ tree'[Container].type = tree[Container].type
  BY DEF ClosesTop
<1>2. \A v \in DOMAIN tree : tree'[v].type = tree[v].type
  BY <1>1 DEF Alike
<1>3. /\ Len(frames) \in Nat /\ DOMAIN frames' = 1 .. Len(frames) - 1
      /\ \A i \in 1 .. Len(frames) - 1 : frames'[i] = frames[i]
      /\ \A k \in 0 .. Len(frames) - 1 : PathTo(frames', k) = PathTo(frames, k)
  BY FramesClosed
<1>4. \A k \in 0 .. Len(frames) - 1 : PathTo(frames, k) \in DOMAIN tree
  BY OpenIs
<1>5. DOMAIN frames = 1 .. Len(frames)
  BY Parts
<1>6. ASSUME NEW k \in DOMAIN frames'
      PROVE  /\ frames'[k].kind = KindOf(frames'[k].key)
             /\ tree'[PathTo(frames', k - 1)].type = frames'[k].kind
  <2>1. k \in DOMAIN frames /\ k - 1 \in 0 .. Len(frames) - 1 /\ frames'[k] = frames[k]
    BY <1>3, <1>5
  <2>2. PathTo(frames', k - 1) = PathTo(frames, k - 1) /\ PathTo(frames, k - 1) \in DOMAIN tree
    BY <1>3, <1>4, <2>1
  <2> QED BY <1>2, <2>1, <2>2 DEF KindsOK
<1>7. ASSUME NEW v \in Below'
      PROVE  Front(v) \in DOMAIN tree' /\ tree'[Front(v)].type = KindOf(Last(v))
  BY <1>1, <1>2 DEF Below, KindsOK
<1> QED BY <1>6, <1>7 DEF KindsOK

LEMMA KindsMoved ==
  ASSUME IInv, IInv', KindsOK, NEW key, MovesOn(key)
  PROVE  KindsOK'
<1>1. /\ DOMAIN tree' = DOMAIN tree \cup {Append(Container, key)} /\ key \in Keys
      /\ \A v \in DOMAIN tree : tree'[v].type = tree[v].type
      /\ KindOf(key) = frames[Len(frames)].kind /\ frames # <<>>
  BY DEF MovesOn, Alike, Last
<1>2. /\ Len(frames) \in Nat /\ Len(frames) >= 1 /\ DOMAIN frames' = 1 .. Len(frames)
      /\ \A i \in 1 .. Len(frames) - 1 : frames'[i] = frames[i]
      /\ \A i \in 1 .. Len(frames) : frames'[i].kind = frames[i].kind
      /\ frames'[Len(frames)].key = key
      /\ \A k \in 0 .. Len(frames) - 1 : PathTo(frames', k) = PathTo(frames, k)
  BY FramesMoved
<1>3. \A k \in 0 .. Len(frames) - 1 : PathTo(frames, k) \in DOMAIN tree
  BY OpenIs
<1>4. DOMAIN frames = 1 .. Len(frames)
  BY Parts
<1>5. ASSUME NEW k \in DOMAIN frames'
      PROVE  /\ frames'[k].kind = KindOf(frames'[k].key)
             /\ tree'[PathTo(frames', k - 1)].type = frames'[k].kind
  <2>1. k \in DOMAIN frames /\ k - 1 \in 0 .. Len(frames) - 1 /\ frames'[k].kind = frames[k].kind
    BY <1>2, <1>4
  <2>2. PathTo(frames', k - 1) = PathTo(frames, k - 1) /\ PathTo(frames, k - 1) \in DOMAIN tree
    BY <1>2, <1>3, <2>1
  <2>3. tree'[PathTo(frames', k - 1)].type = frames'[k].kind
    BY <1>1, <2>1, <2>2 DEF KindsOK
  <2>4. frames'[k].kind = KindOf(frames'[k].key)
    <3>1. CASE k = Len(frames)
      BY <1>1, <1>2, <2>1, <3>1
    <3>2. CASE k # Len(frames)
      <4>1. k \in 1 .. Len(frames) - 1
        BY <1>2, <1>4, <2>1, <3>2
      <4> QED BY <1>2, <2>1, <4>1 DEF KindsOK
    <3> QED BY <3>1, <3>2
  <2> QED BY <2>3, <2>4
<1>6. ASSUME NEW v \in Below'
      PROVE  Front(v) \in DOMAIN tree' /\ tree'[Front(v)].type = KindOf(Last(v))
  <2>1. CASE v \in DOMAIN tree
    BY <1>1, <1>6, <2>1 DEF Below, KindsOK
  <2>2. CASE v = Append(Container, key)
    <3>1. /\ Container \in DOMAIN tree /\ Container \in Seq(Keys)
          /\ Container = PathTo(frames, Len(frames) - 1)
      BY <1>1, ContainerIs
    <3>2. Front(v) = Container /\ Last(v) = key
      BY <1>1, <2>2, <3>1, FrontOfAppend
    <3>3. tree[Container].type = frames[Len(frames)].kind
      BY <1>2, <1>4, <3>1 DEF KindsOK
    <3> QED BY <1>1, <3>1, <3>2, <3>3
  <2> QED BY <1>1, <1>6, <2>1, <2>2 DEF Below
<1> QED BY <1>5, <1>6 DEF KindsOK

LEMMA KindsStayed ==
  ASSUME IInv, IInv', KindsOK, StaysIn
  PROVE  KindsOK'
<1>1. /\ DOMAIN tree' = DOMAIN tree /\ frames' = frames
      /\ \A v \in DOMAIN tree : tree'[v].type = tree[v].type
  BY DEF StaysIn, Alike
<1>2. \A k \in 0 .. Len(frames) - 1 : PathTo(frames, k) \in DOMAIN tree
  BY OpenIs
<1>3. \A k \in DOMAIN frames : k - 1 \in 0 .. Len(frames) - 1
  BY Parts
<1> QED BY <1>1, <1>2, <1>3 DEF KindsOK, Below

-----------------------------------------------------------------------------
(* The ranges.                                                             *)

\* What the ranges of a value and of its container are to each other.
Inside(t, v) == t[Front(v)].start <= t[v].start
Bounded(t, v) == t[v].limit <= t[Front(v)].limit

LEMMA RangesAre ==
  ASSUME IInv, RangesOK
  PROVE  /\ pos \in Int
         /\ \A v \in DOMAIN tree : tree[v].start \in Int /\ tree[v].limit \in Int
         /\ \A v \in DOMAIN tree : Open(v) => tree[v].start < pos
         /\ \A v \in DOMAIN tree : Complete(v) => /\ tree[v].start <= tree[v].limit
                                                  /\ tree[v].limit <= pos
                                                  /\ pc = "value" => tree[v].limit <= pos - 1
         /\ \A v \in Below : ~Stale(v) => /\ Inside(tree, v)
                                          /\ Complete(Front(v)) => Bounded(tree, v)
<1>1. TreeOK(tree) /\ pos \in Nat
  BY Parts
<1>2. \A v \in DOMAIN tree : tree[v].start \in Int /\ tree[v].limit \in Int
  BY <1>1, NodeIs
<1>3. ASSUME NEW v \in DOMAIN tree, Complete(v)
      PROVE  /\ tree[v].start <= tree[v].limit /\ tree[v].limit <= pos
             /\ pc = "value" => tree[v].limit <= pos - 1
  <2>1. /\ tree[v].start <= tree[v].limit
        /\ tree[v].limit <= IF pc = "value" THEN pos - 1 ELSE pos
    BY <1>3 DEF RangesOK
  <2> QED BY <1>1, <1>2, <2>1
<1> QED BY <1>1, <1>2, <1>3 DEF RangesOK, Inside, Bounded

LEMMA NodesPrimed ==
  ASSUME IInv'
  PROVE  pos' \in Int /\ \A v \in DOMAIN tree' : tree'[v].start \in Int /\ tree'[v].limit \in Int
BY PartsPrimed, NodeIs

LEMMA RangesPrimed ==
  ASSUME IInv',
         \A v \in DOMAIN tree' : Open(v)' => tree'[v].start < pos',
         \A v \in DOMAIN tree' : Complete(v)' => tree'[v].start <= tree'[v].limit,
         \A v \in DOMAIN tree' : Complete(v)' => tree'[v].limit <= pos',
         pc' = "value" => \A v \in DOMAIN tree' : Complete(v)' => tree'[v].limit <= pos' - 1,
         \A v \in Below' : ~Stale(v)' => Inside(tree', v),
         \A v \in Below' : (~Stale(v)' /\ Complete(Front(v))') => Bounded(tree', v)
  PROVE  RangesOK'
<1>1. ASSUME NEW v \in DOMAIN tree', Complete(v)'
      PROVE  tree'[v].limit <= IF pc' = "value" THEN pos' - 1 ELSE pos'
  BY <1>1
<1>2. ASSUME NEW v \in Below', ~Stale(v)'
      PROVE  /\ tree'[Front(v)].start <= tree'[v].start
             /\ Complete(Front(v))' => tree'[v].limit <= tree'[Front(v)].limit
  BY <1>2 DEF Inside, Bounded
<1> QED BY <1>1, <1>2 DEF RangesOK

LEMMA RangesRead ==
  ASSUME IInv, IInv', KindsOK, RangesOK, ReadsTop
  PROVE  RangesOK'
<1>1. /\ pc = "value" /\ pc' = "return" /\ frames' = frames /\ DOMAIN tree' = Kept
      /\ \A v \in Kept : v # Top => Alike(v)
      /\ pos <= pos' /\ pos - 1 <= tree'[Top].start /\ tree'[Top].start <= tree'[Top].limit
      /\ pos' = tree'[Top].limit
  BY DEF ReadsTop
<1>2. /\ pos \in Int
      /\ \A v \in DOMAIN tree : tree[v].start \in Int /\ tree[v].limit \in Int
      /\ \A v \in DOMAIN tree : Open(v) => tree[v].start < pos
      /\ \A v \in DOMAIN tree : Complete(v) => /\ tree[v].start <= tree[v].limit
                                               /\ tree[v].limit <= pos - 1
      /\ \A v \in Below : ~Stale(v) => /\ Inside(tree, v)
                                       /\ Complete(Front(v)) => Bounded(tree, v)
  BY <1>1, RangesAre
<1>3. pos' \in Int /\ \A v \in DOMAIN tree' : tree'[v].start \in Int /\ tree'[v].limit \in Int
  BY NodesPrimed
<1>4. \A v \in DOMAIN tree' : /\ v \in DOMAIN tree /\ ~Stale(v)' /\ (Open(v)' <=> Open(v))
                              /\ v # Top => ~Stale(v) /\ Alike(v)
  BY AfterReading
<1>5. /\ Top \in DOMAIN tree' /\ \A v \in DOMAIN tree' : v # <<>> => ~Stale(Front(v))
      /\ \A v \in DOMAIN tree : ~Stale(v) => v \in DOMAIN tree'
  BY <1>1, KeptIs
<1>6. Stale(Top) /\ ~Open(Top) /\ Len(Top) = Len(frames)
  BY <1>1, TopIs DEF Top
<1>7. ASSUME NEW v \in DOMAIN tree', Open(v)' PROVE tree'[v].start < pos'
  <2>1. v # Top /\ tree'[v].start = tree[v].start /\ tree[v].start < pos /\ v \in DOMAIN tree
    BY <1>2, <1>4, <1>6, <1>7 DEF Alike
  <2> QED BY <1>1, <1>2, <1>3, <2>1
<1>8. ASSUME NEW v \in DOMAIN tree', v # Top, Complete(v)'
      PROVE  /\ v \in DOMAIN tree /\ Complete(v) /\ tree'[v].limit = tree[v].limit
             /\ tree'[v].start = tree[v].start
  BY <1>4, <1>8 DEF Complete, Alike
<1>9. ASSUME NEW v \in DOMAIN tree', Complete(v)'
      PROVE  tree'[v].start <= tree'[v].limit /\ tree'[v].limit <= pos'
  <2>1. CASE v = Top
    BY <1>1, <1>3, <2>1
  <2>2. CASE v # Top
    <3>1. tree[v].limit <= pos - 1 /\ tree[v].start <= tree[v].limit
      BY <1>2, <1>8, <1>9, <2>2
    <3> QED BY <1>1, <1>2, <1>3, <1>8, <1>9, <2>2, <3>1
  <2> QED BY <2>1, <2>2
<1>10. ASSUME NEW v \in Below'
       PROVE  Inside(tree', v) /\ (Complete(Front(v))' => Bounded(tree', v))
  <2>1. /\ v \in DOMAIN tree' /\ v # <<>> /\ v \in Below /\ Front(v) \in DOMAIN tree
        /\ ~Stale(Front(v)) /\ Front(v) # Top /\ Front(v) \in DOMAIN tree'
        /\ Alike(Front(v)) /\ (Open(Front(v))' <=> Open(Front(v)))
    BY <1>4, <1>5, <1>6, <1>10 DEF Below, KindsOK
  <2>2. CASE v = Top
    <3>1. Open(Front(v))
      BY <1>1, <2>1, <2>2, FrontOfTop
    <3>2. tree[Front(v)].start < pos /\ tree'[Front(v)].start = tree[Front(v)].start
      BY <1>2, <2>1, <3>1 DEF Alike
    <3>3. tree'[Front(v)].start <= tree'[v].start
      BY <1>1, <1>2, <1>3, <2>1, <2>2, <3>2
    <3> QED BY <2>1, <3>1, <3>3 DEF Inside, Complete
  <2>3. CASE v # Top
    <3>1. ~Stale(v) /\ Alike(v) /\ (Complete(Front(v))' => Complete(Front(v)))
      BY <1>4, <2>1, <2>3 DEF Complete
    <3>2. Inside(tree, v) /\ (Complete(Front(v)) => Bounded(tree, v))
      BY <1>2, <2>1, <3>1
    <3> QED BY <2>1, <3>1, <3>2 DEF Inside, Bounded, Alike
  <2> QED BY <2>2, <2>3
<1> QED BY <1>1, <1>7, <1>9, <1>10, RangesPrimed

LEMMA RangesOpened ==
  ASSUME IInv, IInv', KindsOK, RangesOK, NEW f, OpensTop(f)
  PROVE  RangesOK'
<1>1. /\ pc = "value"
      /\ \A v \in Kept : v # Top => Alike(v)
      /\ pos <= tree'[Top].start /\ tree'[Top].start < pos'
      /\ DOMAIN tree' = Kept \/ DOMAIN tree' = Kept \cup {Append(Top, f.key)}
  BY DEF OpensTop
<1>2. /\ pos \in Int
      /\ \A v \in DOMAIN tree : tree[v].start \in Int /\ tree[v].limit \in Int
      /\ \A v \in DOMAIN tree : Open(v) => tree[v].start < pos
      /\ \A v \in DOMAIN tree : Complete(v) => /\ tree[v].start <= tree[v].limit
                                               /\ tree[v].limit <= pos - 1
      /\ \A v \in Below : ~Stale(v) => /\ Inside(tree, v)
                                       /\ Complete(Front(v)) => Bounded(tree, v)
  BY <1>1, RangesAre
<1>3. pos' \in Int /\ \A v \in DOMAIN tree' : tree'[v].start \in Int /\ tree'[v].limit \in Int
  BY NodesPrimed
<1>4. /\ \A v \in Kept : /\ v \in DOMAIN tree /\ v \in DOMAIN tree' /\ ~Stale(v)'
                         /\ v # Top => ~Stale(v) /\ (Open(v)' <=> Open(v)) /\ Alike(v)
                         /\ v = Top => Open(v)'
      /\ Top \in Kept
      /\ \A v \in DOMAIN tree' \ Kept : /\ v = Append(Top, f.key) /\ Stale(v)' /\ ~Open(v)'
                                        /\ pc' = "value"
  BY AfterOpening
<1>5. /\ \A v \in Kept : v # <<>> => ~Stale(Front(v))
      /\ \A v \in DOMAIN tree : ~Stale(v) => v \in Kept
  BY <1>1, KeptIs
<1>6. Stale(Top) /\ ~Open(Top) /\ Len(Top) = Len(frames)
  BY <1>1, TopIs DEF Top
<1>7. ASSUME NEW v \in DOMAIN tree', Open(v)' PROVE tree'[v].start < pos'
  <2>1. v \in Kept
    BY <1>4, <1>7
  <2>2. CASE v = Top
    BY <1>1, <2>2
  <2>3. CASE v # Top
    <3>1. tree'[v].start = tree[v].start /\ tree[v].start < pos /\ v \in DOMAIN tree
      BY <1>2, <1>4, <1>7, <2>1, <2>3 DEF Alike
    <3> QED BY <1>1, <1>2, <1>3, <1>4, <3>1
  <2> QED BY <2>2, <2>3
<1>8. ASSUME NEW v \in DOMAIN tree', Complete(v)'
      PROVE  tree'[v].start <= tree'[v].limit /\ tree'[v].limit <= pos' - 1 /\ tree'[v].limit <= pos'
  <2>1. v \in Kept /\ v # Top /\ v \in DOMAIN tree
    BY <1>4, <1>8 DEF Complete
  <2>2. Complete(v) /\ tree'[v].start = tree[v].start /\ tree'[v].limit = tree[v].limit
    BY <1>4, <1>8, <2>1 DEF Complete, Alike
  <2>3. tree[v].start <= tree[v].limit /\ tree[v].limit <= pos - 1
    BY <1>2, <2>1, <2>2
  <2>4. pos < pos' /\ tree[v].limit \in Int
    BY <1>1, <1>2, <1>3, <1>4, <2>1
  <2> QED BY <1>2, <1>3, <2>2, <2>3, <2>4
<1>9. ASSUME NEW v \in Below', ~Stale(v)'
      PROVE  Inside(tree', v) /\ (Complete(Front(v))' => Bounded(tree', v))
  <2>1. v \in Kept /\ v # <<>> /\ v \in Below
    BY <1>4, <1>9 DEF Below
  <2>2. /\ Front(v) \in DOMAIN tree /\ ~Stale(Front(v)) /\ Front(v) # Top /\ Front(v) \in Kept
        /\ Alike(Front(v)) /\ (Open(Front(v))' <=> Open(Front(v)))
    BY <1>4, <1>5, <1>6, <2>1 DEF Below, KindsOK
  <2>3. CASE v = Top
    <3>1. Open(Front(v))
      BY <1>1, <2>1, <2>3, FrontOfTop
    <3>2. tree[Front(v)].start < pos /\ tree'[Front(v)].start = tree[Front(v)].start
      BY <1>2, <2>2, <3>1 DEF Alike
    <3>3. tree'[Front(v)].start <= tree'[v].start
      BY <1>1, <1>2, <1>3, <1>4, <2>2, <2>3, <3>2
    <3> QED BY <2>2, <3>1, <3>3 DEF Inside, Complete
  <2>4. CASE v # Top
    <3>1. ~Stale(v) /\ Alike(v) /\ (Complete(Front(v))' => Complete(Front(v)))
      BY <1>4, <2>1, <2>2, <2>4 DEF Complete
    <3>2. Inside(tree, v) /\ (Complete(Front(v)) => Bounded(tree, v))
      BY <1>2, <2>1, <3>1
    <3> QED BY <2>2, <3>1, <3>2 DEF Inside, Bounded, Alike
  <2> QED BY <2>3, <2>4
<1> QED BY <1>7, <1>8, <1>9, RangesPrimed

LEMMA RangesClosed ==
  ASSUME IInv, IInv', KindsOK, RangesOK, ClosesTop
  PROVE  RangesOK'
<1>1. /\ DOMAIN tree' = DOMAIN tree /\ pc' = "return" /\ frames # <<>>
      /\ tree'[Container].start = tree[Container].start
      /\ tree'[Container].limit = pos' /\ pos <= pos'
  BY DEF ClosesTop
<1>2. /\ pos \in Int
      /\ \A v \in DOMAIN tree : tree[v].start \in Int /\ tree[v].limit \in Int
      /\ \A v \in DOMAIN tree : Open(v) => tree[v].start < pos
      /\ \A v \in DOMAIN tree : Complete(v) => /\ tree[v].start <= tree[v].limit
                                               /\ tree[v].limit <= pos
      /\ \A v \in Below : ~Stale(v) => /\ Inside(tree, v)
                                       /\ Complete(Front(v)) => Bounded(tree, v)
  BY RangesAre
<1>3. pos' \in Int /\ \A v \in DOMAIN tree' : tree'[v].start \in Int /\ tree'[v].limit \in Int
  BY NodesPrimed
<1>4. \A v \in DOMAIN tree : /\ ~Stale(v) /\ ~Stale(v)'
                             /\ v # Container => (Open(v)' <=> Open(v)) /\ Alike(v)
                             /\ v = Container => Open(v) /\ ~Open(v)'
  BY AfterClosing
<1>5. \A v \in DOMAIN tree : tree'[v].start = tree[v].start
  BY <1>1, <1>4 DEF Alike
<1>6. ASSUME NEW v \in DOMAIN tree', Open(v)' PROVE tree'[v].start < pos'
  <2>1. v \in DOMAIN tree /\ Open(v) /\ tree'[v].start = tree[v].start /\ tree[v].start < pos
    BY <1>1, <1>2, <1>4, <1>5, <1>6
  <2> QED BY <1>1, <1>2, <1>3, <2>1
<1>7. ASSUME NEW v \in DOMAIN tree', v # Container, Complete(v)'
      PROVE  v \in DOMAIN tree /\ Complete(v) /\ tree'[v].limit = tree[v].limit
  BY <1>1, <1>4, <1>7 DEF Complete, Alike
<1>8. ASSUME NEW v \in DOMAIN tree', Complete(v)'
      PROVE  tree'[v].start <= tree'[v].limit /\ tree'[v].limit <= pos'
  <2>1. CASE v = Container
    <3>1. tree[v].start < pos /\ v \in DOMAIN tree
      BY <1>1, <1>2, <1>4, <1>8, <2>1
    <3> QED BY <1>1, <1>2, <1>3, <2>1, <3>1
  <2>2. CASE v # Container
    <3>1. tree[v].limit <= pos /\ tree[v].start <= tree[v].limit /\ v \in DOMAIN tree
      BY <1>2, <1>7, <1>8, <2>2
    <3> QED BY <1>1, <1>2, <1>3, <1>5, <1>7, <1>8, <2>2, <3>1
  <2> QED BY <2>1, <2>2
<1>9. ASSUME NEW v \in Below'
      PROVE  Inside(tree', v) /\ (Complete(Front(v))' => Bounded(tree', v))
  <2>1. v \in Below /\ v \in DOMAIN tree /\ Front(v) \in DOMAIN tree /\ ~Stale(v)
    BY <1>1, <1>4, <1>9 DEF Below, KindsOK
  <2>2. Inside(tree, v) /\ (Complete(Front(v)) => Bounded(tree, v))
    BY <1>2, <2>1
  <2>3. Inside(tree', v)
    BY <1>5, <2>1, <2>2 DEF Inside
  <2>4. ASSUME Complete(Front(v))' PROVE tree'[v].limit <= tree'[Front(v)].limit
    <3>1. CASE Front(v) = Container
      <4>1. ~Open(v) /\ v # Container
        BY <1>1, <1>4, <2>1, <3>1, FrontOfContainer
      <4>2. tree'[v].limit = tree[v].limit /\ tree[v].limit <= pos
        BY <1>2, <1>4, <2>1, <4>1 DEF Complete, Alike
      <4> QED BY <1>1, <1>2, <1>3, <2>1, <3>1, <4>2
    <3>2. CASE Front(v) # Container /\ v = Container
      <4>1. Open(Front(v))
        BY <1>4, <2>1, <3>2, OpenIs
      <4> QED BY <1>4, <2>1, <2>4, <3>2, <4>1 DEF Complete
    <3>3. CASE Front(v) # Container /\ v # Container
      <4>1. Bounded(tree, v)
        BY <1>1, <1>7, <2>1, <2>2, <2>4, <3>3
      <4> QED BY <1>4, <2>1, <3>3, <4>1 DEF Bounded, Alike
    <3> QED BY <3>1, <3>2, <3>3
  <2> QED BY <2>3, <2>4 DEF Bounded
<1> QED BY <1>1, <1>6, <1>8, <1>9, RangesPrimed

LEMMA RangesMoved ==
  ASSUME IInv, IInv', KindsOK, RangesOK, NEW key, MovesOn(key)
  PROVE  RangesOK'
<1>1. pos < pos' /\ pc # "value"
  BY DEF MovesOn
<1>2. /\ pos \in Int
      /\ \A v \in DOMAIN tree : tree[v].start \in Int /\ tree[v].limit \in Int
      /\ \A v \in DOMAIN tree : Open(v) => tree[v].start < pos
      /\ \A v \in DOMAIN tree : Complete(v) => /\ tree[v].start <= tree[v].limit
                                               /\ tree[v].limit <= pos
      /\ \A v \in Below : ~Stale(v) => /\ Inside(tree, v)
                                       /\ Complete(Front(v)) => Bounded(tree, v)
  BY RangesAre
<1>3. pos' \in Int
  BY NodesPrimed
<1>4. /\ \A v \in DOMAIN tree : /\ v \in DOMAIN tree' /\ ~Stale(v) /\ Alike(v)
                                /\ Open(v)' <=> Open(v)
      /\ \A v \in DOMAIN tree' \ DOMAIN tree : Stale(v)' /\ ~Open(v)'
  BY AfterMoving
<1>5. ASSUME NEW v \in DOMAIN tree', Open(v)' PROVE tree'[v].start < pos'
  <2>1. v \in DOMAIN tree /\ tree'[v].start = tree[v].start /\ tree[v].start < pos
    BY <1>2, <1>4, <1>5 DEF Alike
  <2> QED BY <1>1, <1>2, <1>3, <2>1
<1>6. ASSUME NEW v \in DOMAIN tree', Complete(v)'
      PROVE  tree'[v].start <= tree'[v].limit /\ tree'[v].limit <= pos' - 1 /\ tree'[v].limit <= pos'
  <2>1. /\ v \in DOMAIN tree /\ Complete(v)
        /\ tree'[v].start = tree[v].start /\ tree'[v].limit = tree[v].limit
    BY <1>4, <1>6 DEF Complete, Alike
  <2>2. tree[v].start <= tree[v].limit /\ tree[v].limit <= pos /\ tree[v].limit \in Int
    BY <1>2, <2>1
  <2> QED BY <1>1, <1>2, <1>3, <2>1, <2>2
<1>7. ASSUME NEW v \in Below', ~Stale(v)'
      PROVE  Inside(tree', v) /\ (Complete(Front(v))' => Bounded(tree', v))
  <2>1. v \in Below /\ v \in DOMAIN tree /\ Front(v) \in DOMAIN tree
    BY <1>4, <1>7 DEF Below, KindsOK
  <2>2. /\ ~Stale(v) /\ Alike(v) /\ Alike(Front(v))
        /\ Complete(Front(v))' => Complete(Front(v))
    BY <1>4, <2>1 DEF Complete
  <2>3. Inside(tree, v) /\ (Complete(Front(v)) => Bounded(tree, v))
    BY <1>2, <2>1, <2>2
  <2> QED BY <2>2, <2>3 DEF Inside, Bounded, Alike
<1> QED BY <1>5, <1>6, <1>7, RangesPrimed

LEMMA RangesStayed ==
  ASSUME IInv, IInv', KindsOK, RangesOK, StaysIn
  PROVE  RangesOK'
<1>1. pos <= pos' /\ pc' # "value"
  BY DEF StaysIn
<1>2. /\ pos \in Int
      /\ \A v \in DOMAIN tree : tree[v].start \in Int /\ tree[v].limit \in Int
      /\ \A v \in DOMAIN tree : Open(v) => tree[v].start < pos
      /\ \A v \in DOMAIN tree : Complete(v) => /\ tree[v].start <= tree[v].limit
                                               /\ tree[v].limit <= pos
      /\ \A v \in Below : ~Stale(v) => /\ Inside(tree, v)
                                       /\ Complete(Front(v)) => Bounded(tree, v)
  BY RangesAre
<1>3. pos' \in Int
  BY NodesPrimed
<1>4. /\ DOMAIN tree' = DOMAIN tree
      /\ \A v \in DOMAIN tree : ~Stale(v) /\ ~Stale(v)' /\ (Open(v)' <=> Open(v)) /\ Alike(v)
  BY AfterStaying
<1>5. ASSUME NEW v \in DOMAIN tree', Open(v)' PROVE tree'[v].start < pos'
  <2>1. v \in DOMAIN tree /\ tree'[v].start = tree[v].start /\ tree[v].start < pos
    BY <1>2, <1>4, <1>5 DEF Alike
  <2> QED BY <1>1, <1>2, <1>3, <2>1
<1>6. ASSUME NEW v \in DOMAIN tree', Complete(v)'
      PROVE  tree'[v].start <= tree'[v].limit /\ tree'[v].limit <= pos'
  <2>1. /\ v \in DOMAIN tree /\ Complete(v)
        /\ tree'[v].start = tree[v].start /\ tree'[v].limit = tree[v].limit
    BY <1>4, <1>6 DEF Complete, Alike
  <2>2. tree[v].start <= tree[v].limit /\ tree[v].limit <= pos /\ tree[v].limit \in Int
    BY <1>2, <2>1
  <2> QED BY <1>1, <1>2, <1>3, <2>1, <2>2
<1>7. ASSUME NEW v \in Below'
      PROVE  Inside(tree', v) /\ (Complete(Front(v))' => Bounded(tree', v))
  <2>1. v \in Below /\ v \in DOMAIN tree /\ Front(v) \in DOMAIN tree
    BY <1>4, <1>7 DEF Below, KindsOK
  <2>2. /\ ~Stale(v) /\ Alike(v) /\ Alike(Front(v))
        /\ Complete(Front(v))' => Complete(Front(v))
    BY <1>4, <2>1 DEF Complete
  <2>3. Inside(tree, v) /\ (Complete(Front(v)) => Bounded(tree, v))
    BY <1>2, <2>1, <2>2
  <2> QED BY <2>2, <2>3 DEF Inside, Bounded, Alike
<1> QED BY <1>1, <1>5, <1>6, <1>7, RangesPrimed

-----------------------------------------------------------------------------
(* The elements of an array, in its order.                                 *)

LEMMA IndexIs ==
  ASSUME NEW key \in Keys, KindOf(key) = "array"
  PROVE  key[1] = "index" /\ key[2] \in Nat
<1>1. key[1] = "index"
  BY DEF KindOf
<1> QED BY <1>1 DEF Keys

LEMMA PrecedesIs ==
  ASSUME IInv, KindsOK, NEW v \in Below, NEW w \in Below, Precedes(v, w)
  PROVE  /\ Last(v)[2] \in Nat /\ Last(w)[2] \in Nat /\ Last(v)[2] < Last(w)[2]
         /\ Front(w) = Front(v) /\ KindOf(Last(v)) = "array" /\ Last(v)[1] = "index"
<1>1. /\ v \in DOMAIN tree /\ v # <<>> /\ w \in DOMAIN tree /\ w # <<>> /\ TreeOK(tree)
      /\ Front(w) = Front(v) /\ Last(v)[1] = "index" /\ Last(v)[2] < Last(w)[2]
  BY Parts DEF Below, Precedes
<1>2. Last(v) \in Keys /\ Last(w) \in Keys
  BY <1>1, BelowIs
<1>3. KindOf(Last(v)) = "array"
  BY <1>1 DEF KindOf
<1>4. KindOf(Last(w)) = KindOf(Last(v))
  BY <1>1 DEF KindsOK
<1>5. Last(v)[2] \in Nat /\ Last(w)[2] \in Nat
  BY <1>2, <1>3, <1>4, IndexIs
<1> QED BY <1>1, <1>3, <1>5

\* Nothing comes after the element that is on the stack.
LEMMA LatestOfOpen ==
  ASSUME IInv, KindsOK, ElementsOK, NEW k \in 1 .. Len(frames),
         NEW v \in Below, v = PathTo(frames, k), NEW w \in Below
  PROVE  ~Precedes(v, w)
<1> SUFFICES ASSUME Precedes(v, w) PROVE FALSE
  OBVIOUS
<1>1. /\ Last(v)[2] \in Nat /\ Last(w)[2] \in Nat /\ Last(v)[2] < Last(w)[2]
      /\ Front(w) = Front(v) /\ KindOf(Last(v)) = "array"
  BY PrecedesIs
<1>2. frames \in Seq(Frame) /\ DOMAIN frames = 1 .. Len(frames)
  BY Parts
<1>3. Front(v) = PathTo(frames, k - 1) /\ Last(v) = frames[k].key
  BY <1>2, PathToIs
<1>4. frames[k].kind = "array"
  BY <1>1, <1>2, <1>3 DEF KindsOK
<1>5. Last(w)[2] <= frames[k].key[2]
  BY <1>1, <1>2, <1>3, <1>4 DEF ElementsOK
<1> QED BY <1>1, <1>3, <1>5

\* What comes before the value being read has been read.
LEMMA BeforeTop ==
  ASSUME IInv, pc = "value", Top \in Below, NEW v \in Below, v # Top, ~Stale(v), Front(v) = Front(Top)
  PROVE  Complete(v)
<1>1. /\ v \in DOMAIN tree /\ v # <<>> /\ Top \in DOMAIN tree /\ Top # <<>> /\ TreeOK(tree)
      /\ Len(frames) \in Nat /\ Len(Top) = Len(frames)
  BY Parts, Facts DEF Below, Top
<1>2. Len(Front(v)) = Len(v) - 1 /\ Len(Front(Top)) = Len(Top) - 1 /\ Len(v) \in Nat
  BY <1>1, BelowIs
<1>3. Len(v) = Len(frames)
  BY <1>1, <1>2
<1> QED BY <1>1, <1>3 DEF Complete, Open

LEMMA ElementsRead ==
  ASSUME IInv, IInv', KindsOK, RangesOK, ElementsOK, ReadsTop
  PROVE  ElementsOK'
<1>1. /\ pc = "value" /\ pc' = "return" /\ frames' = frames /\ DOMAIN tree' = Kept
      /\ pos - 1 <= tree'[Top].start
  BY DEF ReadsTop
<1>2. /\ pos \in Int
      /\ \A v \in DOMAIN tree : tree[v].start \in Int /\ tree[v].limit \in Int
      /\ \A v \in DOMAIN tree : Complete(v) => tree[v].limit <= pos - 1
  BY <1>1, RangesAre
<1>3. \A v \in DOMAIN tree' : tree'[v].start \in Int /\ tree'[v].limit \in Int
  BY NodesPrimed
<1>4. \A v \in DOMAIN tree' : v \in DOMAIN tree /\ (v # Top => ~Stale(v) /\ Alike(v))
  BY AfterReading
<1>5. ASSUME NEW v \in Below', NEW w \in Below', Precedes(v, w)
      PROVE  tree'[v].limit <= tree'[w].start
  <2>1. v \in Below /\ w \in Below /\ v \in DOMAIN tree' /\ w \in DOMAIN tree'
    BY <1>4 DEF Below
  <2>2. CASE v = Top
    <3>1. Len(frames) \in 1 .. Len(frames) /\ v = PathTo(frames, Len(frames))
      BY <1>1, <2>1, <2>2, FrontOfTop
    <3> QED BY <1>5, <2>1, <3>1, LatestOfOpen
  <2>3. CASE v # Top /\ w = Top
    <3>1. Complete(v)
      BY <1>1, <1>4, <1>5, <2>1, <2>3, BeforeTop DEF Precedes
    <3>2. tree'[v].limit = tree[v].limit /\ tree[v].limit <= pos - 1
      BY <1>2, <1>4, <2>1, <2>3, <3>1 DEF Alike, Below
    <3> QED BY <1>1, <1>2, <1>3, <2>1, <2>3, <3>2
  <2>4. CASE v # Top /\ w # Top
    <3>1. ~Stale(v) /\ ~Stale(w) /\ Alike(v) /\ Alike(w)
      BY <1>4, <2>1, <2>4
    <3>2. tree[v].limit <= tree[w].start
      BY <1>5, <2>1, <3>1 DEF ElementsOK
    <3> QED BY <3>1, <3>2 DEF Alike
  <2> QED BY <2>2, <2>3, <2>4
<1>6. Below' \subseteq Below
  BY <1>4 DEF Below
<1> QED BY <1>1, <1>5, <1>6 DEF ElementsOK

LEMMA ElementsOpened ==
  ASSUME IInv, IInv', KindsOK, RangesOK, ElementsOK, NEW f, OpensTop(f)
  PROVE  ElementsOK'
<1>1. /\ pc = "value" /\ pos <= tree'[Top].start
      /\ \/ DOMAIN tree' = Kept
         \/ f.key = <<"index", 0>> /\ DOMAIN tree' = Kept \cup {Append(Top, f.key)}
  BY DEF OpensTop
<1>2. /\ pos \in Int
      /\ \A v \in DOMAIN tree : tree[v].start \in Int /\ tree[v].limit \in Int
      /\ \A v \in DOMAIN tree : Complete(v) => tree[v].limit <= pos - 1
  BY <1>1, RangesAre
<1>3. \A v \in DOMAIN tree' : tree'[v].start \in Int /\ tree'[v].limit \in Int
  BY NodesPrimed
<1>4. /\ \A v \in Kept : /\ v \in DOMAIN tree /\ v \in DOMAIN tree'
                         /\ v # Top => ~Stale(v) /\ Alike(v)
      /\ \A v \in DOMAIN tree' \ Kept : v = Append(Top, f.key) /\ Stale(v)'
  BY AfterOpening
<1>5. ASSUME NEW v \in Below', NEW w \in Below', ~Stale(v)', ~Stale(w)', Precedes(v, w)
      PROVE  tree'[v].limit <= tree'[w].start
  <2>1. v \in Below /\ w \in Below /\ v \in DOMAIN tree' /\ w \in DOMAIN tree' /\ v \in Kept /\ w \in Kept
    BY <1>4, <1>5 DEF Below
  <2>2. CASE v = Top
    <3>1. Len(frames) \in 1 .. Len(frames) /\ v = PathTo(frames, Len(frames))
      BY <1>1, <2>1, <2>2, FrontOfTop
    <3> QED BY <1>5, <2>1, <3>1, LatestOfOpen
  <2>3. CASE v # Top /\ w = Top
    <3>1. Complete(v)
      BY <1>1, <1>4, <1>5, <2>1, <2>3, BeforeTop DEF Precedes
    <3>2. tree'[v].limit = tree[v].limit /\ tree[v].limit <= pos - 1
      BY <1>2, <1>4, <2>1, <2>3, <3>1 DEF Alike, Below
    <3> QED BY <1>1, <1>2, <1>3, <2>1, <2>3, <3>2
  <2>4. CASE v # Top /\ w # Top
    <3>1. ~Stale(v) /\ ~Stale(w) /\ Alike(v) /\ Alike(w)
      BY <1>4, <2>1, <2>4
    <3>2. tree[v].limit <= tree[w].start
      BY <1>5, <2>1, <3>1 DEF ElementsOK
    <3> QED BY <3>1, <3>2 DEF Alike
  <2> QED BY <2>2, <2>3, <2>4
<1>6. ASSUME NEW k \in DOMAIN frames', NEW v \in Below',
             frames'[k].kind = "array", Front(v) = PathTo(frames', k - 1)
      PROVE  Last(v)[2] <= frames'[k].key[2]
  <2>1. /\ Len(frames) \in Nat /\ DOMAIN frames = 1 .. Len(frames)
        /\ DOMAIN frames' = 1 .. Len(frames) + 1
        /\ \A i \in 1 .. Len(frames) : frames'[i] = frames[i]
        /\ frames'[Len(frames) + 1] = f
        /\ \A i \in 0 .. Len(frames) : PathTo(frames', i) = PathTo(frames, i)
        /\ Top = PathTo(frames, Len(frames)) /\ Len(Top) = Len(frames)
        /\ Front(Append(Top, f.key)) = Top /\ Last(Append(Top, f.key)) = f.key
    BY FramesOpened
  <2>2. /\ \A u \in Kept : u # <<>> => ~Stale(Front(u))
        /\ Stale(Top)
    BY <1>1, KeptIs, TopIs DEF Top
  <2>3. k - 1 \in 0 .. Len(frames) /\ Front(v) = PathTo(frames, k - 1)
    BY <1>6, <2>1
  <2>4. CASE k \in 1 .. Len(frames)
    <3>1. frames \in Seq(Frame)
      BY Parts
    <3>2. Len(Front(v)) = k - 1 /\ k - 1 # Len(frames)
      BY <2>1, <2>3, <2>4, <3>1, PathsAre
    <3>3. Front(v) # Top
      BY <2>1, <3>2
    <3>4. v \in Kept /\ v \in Below
      BY <1>4, <1>6, <2>1, <3>3 DEF Below
    <3> QED BY <1>6, <2>1, <2>3, <2>4, <3>4 DEF ElementsOK
  <2>5. CASE k = Len(frames) + 1
    <3>1. Front(v) = Top /\ frames'[k] = f
      <4>1. k - 1 = Len(frames)
        BY <2>1, <2>5
      <4> QED BY <2>1, <2>3, <2>5, <4>1
    <3>2. v \notin Kept
      BY <1>6, <2>2, <3>1 DEF Below
    <3>3. Last(v) = f.key /\ f.key = <<"index", 0>>
      BY <1>1, <1>4, <1>6, <2>1, <3>2 DEF Below
    <3> QED BY <3>1, <3>3
  <2> QED BY <2>1, <2>4, <2>5
<1> QED BY <1>5, <1>6 DEF ElementsOK

LEMMA ElementsClosed ==
  ASSUME IInv, IInv', KindsOK, RangesOK, ElementsOK, ClosesTop
  PROVE  ElementsOK'
<1>1. DOMAIN tree' = DOMAIN tree
  BY DEF ClosesTop
<1>2. \A v \in DOMAIN tree : ~Stale(v) /\ (v # Container => Alike(v))
  BY AfterClosing
<1>3. \A v \in DOMAIN tree : tree'[v].start = tree[v].start
  BY <1>2 DEF ClosesTop, Alike
<1>4. /\ Len(frames) \in Nat /\ Len(frames) >= 1 /\ DOMAIN frames' = 1 .. Len(frames) - 1
      /\ \A i \in 1 .. Len(frames) - 1 : frames'[i] = frames[i]
      /\ \A k \in 0 .. Len(frames) - 1 : PathTo(frames', k) = PathTo(frames, k)
      /\ Container = PathTo(frames, Len(frames) - 1) /\ Len(Container) = Len(frames) - 1
      /\ TreeOK(tree) /\ DOMAIN frames = 1 .. Len(frames)
  BY FramesClosed, Parts
<1>5. ASSUME NEW v \in Below, NEW w \in Below, Precedes(v, w)
      PROVE  tree'[v].limit <= tree'[w].start
  <2>1. CASE v = Container
    <3>1. v \in DOMAIN tree /\ v # <<>>
      BY DEF Below
    <3>2. Len(v) >= 1
      BY <1>4, <3>1, BelowIs
    <3>3. Len(frames) - 1 \in 1 .. Len(frames)
      BY <1>4, <2>1, <3>2
    <3> QED BY <1>4, <1>5, <2>1, <3>3, LatestOfOpen
  <2>2. CASE v # Container
    <3>1. tree'[v].limit = tree[v].limit /\ tree'[w].start = tree[w].start /\ ~Stale(v) /\ ~Stale(w)
      BY <1>2, <1>3, <2>2 DEF Alike, Below
    <3> QED BY <1>5, <3>1 DEF ElementsOK
  <2> QED BY <2>1, <2>2
<1>6. ASSUME NEW k \in DOMAIN frames', NEW v \in Below,
             frames'[k].kind = "array", Front(v) = PathTo(frames', k - 1)
      PROVE  Last(v)[2] <= frames'[k].key[2]
  <2>1. /\ k \in DOMAIN frames /\ frames'[k] = frames[k]
        /\ PathTo(frames', k - 1) = PathTo(frames, k - 1)
    BY <1>4
  <2> QED BY <1>6, <2>1 DEF ElementsOK
<1> QED BY <1>1, <1>5, <1>6 DEF ElementsOK, Below

LEMMA ElementsMoved ==
  ASSUME IInv, IInv', KindsOK, ElementsOK, NEW key, MovesOn(key)
  PROVE  ElementsOK'
<1>1. /\ frames # <<>> /\ key \in Keys /\ KindOf(key) = frames[Len(frames)].kind
      /\ key[1] = "index" => key[2] = frames[Len(frames)].key[2] + 1
      /\ DOMAIN tree' = DOMAIN tree \cup {Append(Container, key)}
  BY DEF MovesOn, Last
<1>2. /\ \A v \in DOMAIN tree : ~Stale(v) /\ Alike(v)
      /\ \A v \in DOMAIN tree' \ DOMAIN tree : v = Append(Container, key) /\ Stale(v)'
  BY AfterMoving
<1>3. /\ frames \in Seq(Frame) /\ Len(frames) \in Nat /\ Len(frames) >= 1
      /\ DOMAIN frames' = 1 .. Len(frames)
      /\ \A i \in 1 .. Len(frames) - 1 : frames'[i] = frames[i]
      /\ \A i \in 1 .. Len(frames) : frames'[i].kind = frames[i].kind
      /\ frames'[Len(frames)].key = key
      /\ \A k \in 0 .. Len(frames) - 1 : PathTo(frames', k) = PathTo(frames, k)
      /\ TreeOK(tree) /\ DOMAIN frames = 1 .. Len(frames)
  BY FramesMoved, Parts
<1>4. ASSUME NEW v \in Below', NEW w \in Below', ~Stale(v)', ~Stale(w)', Precedes(v, w)
      PROVE  tree'[v].limit <= tree'[w].start
  <2>1. v \in Below /\ w \in Below /\ ~Stale(v) /\ ~Stale(w) /\ Alike(v) /\ Alike(w)
    BY <1>2, <1>4 DEF Below
  <2>2. tree[v].limit <= tree[w].start
    BY <1>4, <2>1 DEF ElementsOK
  <2> QED BY <2>1, <2>2 DEF Alike
<1>5. ASSUME NEW k \in DOMAIN frames', NEW v \in Below',
             frames'[k].kind = "array", Front(v) = PathTo(frames', k - 1)
      PROVE  Last(v)[2] <= frames'[k].key[2]
  <2>1. /\ k \in DOMAIN frames /\ frames[k].kind = "array" /\ k - 1 \in 0 .. Len(frames) - 1
        /\ Front(v) = PathTo(frames, k - 1)
    BY <1>3, <1>5
  <2>2. /\ Container = PathTo(frames, Len(frames) - 1) /\ Container \in Seq(Keys)
        /\ Len(Container) = Len(frames) - 1
    BY <1>1, ContainerIs
  <2>3. Front(Append(Container, key)) = Container /\ Last(Append(Container, key)) = key
    BY <1>1, <2>2, FrontOfAppend
  <2>4. CASE k # Len(frames)
    <3>1. frames'[k] = frames[k] /\ k \in 0 .. Len(frames) /\ k - 1 \in 0 .. Len(frames)
      BY <1>3, <2>1, <2>4
    <3>2. Len(Front(v)) = k - 1 /\ k - 1 # Len(frames) - 1
      BY <1>3, <2>1, <2>4, <3>1, PathsAre
    <3>3. v \in Below
      BY <1>2, <1>5, <2>2, <2>3, <3>2 DEF Below
    <3> QED BY <2>1, <3>1, <3>3 DEF ElementsOK
  <2>5. CASE k = Len(frames)
    <3>1. key[1] = "index" /\ key[2] \in Nat /\ frames'[k].key = key
      BY <1>1, <1>3, <2>1, <2>5, IndexIs
    <3>2. key[2] = frames[k].key[2] + 1
      BY <1>1, <2>5, <3>1
    <3>3. CASE v \in DOMAIN tree
      <4>1. v \in Below /\ v # <<>>
        BY <1>5, <3>3 DEF Below
      <4>2. Last(v)[2] <= frames[k].key[2]
        BY <2>1, <4>1 DEF ElementsOK
      <4>3. tree[Front(v)].type = KindOf(Last(v)) /\ tree[Front(v)].type = "array"
        BY <2>1, <4>1 DEF KindsOK
      <4>4. Last(v)[2] \in Nat
        BY <1>3, <3>3, <4>1, <4>3, BelowIs, IndexIs
      <4>5. frames[k].key[2] \in Nat
        <5>1. KindOf(frames[k].key) = "array" /\ frames[k].key \in Keys
          <6>1. frames[k] \in Frame
            BY <1>3, <2>1
          <6>2. frames[k].kind = KindOf(frames[k].key)
            BY <2>1 DEF KindsOK
          <6> QED BY <2>1, <6>1, <6>2 DEF Frame
        <5> QED BY <5>1, IndexIs
      <4> QED BY <3>1, <3>2, <4>2, <4>4, <4>5
    <3>4. CASE v \notin DOMAIN tree
      <4>1. Last(v) = key
        BY <1>2, <1>5, <2>3, <3>4 DEF Below
      <4> QED BY <3>1, <4>1
    <3> QED BY <3>3, <3>4
  <2> QED BY <2>4, <2>5
<1> QED BY <1>4, <1>5 DEF ElementsOK

LEMMA ElementsStayed ==
  ASSUME IInv, IInv', KindsOK, ElementsOK, StaysIn
  PROVE  ElementsOK'
<1>1. frames' = frames
  BY DEF StaysIn
<1>2. /\ DOMAIN tree' = DOMAIN tree
      /\ \A v \in DOMAIN tree : ~Stale(v) /\ Alike(v)
  BY AfterStaying
<1>3. ASSUME NEW v \in Below, NEW w \in Below, Precedes(v, w)
      PROVE  tree'[v].limit <= tree'[w].start
  <2>1. ~Stale(v) /\ ~Stale(w) /\ Alike(v) /\ Alike(w)
    BY <1>2 DEF Below
  <2>2. tree[v].limit <= tree[w].start
    BY <1>3, <2>1 DEF ElementsOK
  <2> QED BY <2>1, <2>2 DEF Alike
<1> QED BY <1>1, <1>2, <1>3 DEF ElementsOK, Below

-----------------------------------------------------------------------------
(* The comments.                                                           *)

\* What a step that does not fail does with the comments it reads up to q, of
\* the values that it keeps, and with the last value.
Carries(q, S) ==
  /\ q \in pos .. pos' /\ conf' = conf /\ doc' = doc
  /\ \A v \in S :
       /\ \/ tree'[v].same = tree[v].same
          \/ v \in lastValue /\ \E i \in SameLine(pos, q) : tree'[v].same = {i}
       /\ \/ tree'[v].before = tree[v].before
          \/ pc = "value" /\ v = Top /\ tree'[v].before \subseteq Waiting(pos, q)
  /\ commentsBefore' \subseteq Waiting(pos, q)
Remembers(v) ==
  /\ lastValue' = IF Collects THEN {v} ELSE lastValue
  /\ lastEnd'   = IF Collects THEN pos' ELSE lastEnd
TopStarts(q) == \/ tree'[Top].start = q
                \/ tree'[Top].type = "null" /\ tree'[Top].start = q - 1

LEMMA Widens ==
  ASSUME NEW a \in Nat, NEW b \in Nat, NEW i \in Int
  PROVE  /\ (a <= b /\ i \in 0 .. a - 1) => i \in 0 .. b - 1
         /\ i \in a .. b - 1 => i \in 0 .. b - 1
OBVIOUS

LEMMA Apart ==
  ASSUME NEW n \in Nat, NEW a \in 0 .. n, NEW b \in 0 .. n, NEW i \in a .. b - 1, NEW j \in 0 .. a - 1
  PROVE  i \in 0 .. n - 1 /\ j \in 0 .. n - 1 /\ i # j
OBVIOUS

LEMMA TextSame ==
  ASSUME conf' = conf, doc' = doc
  PROVE  /\ \A i : Lex(i)' = Lex(i)
         /\ \A i : NameAt(i)' <=> NameAt(i)
         /\ \A p, i : ContainsNewLine(p, i)' <=> ContainsNewLine(p, i)
         /\ NoNameRepeats' <=> NoNameRepeats
<1>1. \A i : Lex(i)' = Lex(i)
  BY DEF Lex
<1>2. ASSUME NEW i PROVE NameAt(i)' <=> NameAt(i)
  BY DEF NameAt, AnyToken, TokenFrom, First, Past, Lex
<1>3. ASSUME NEW p, NEW i PROVE ContainsNewLine(p, i)' <=> ContainsNewLine(p, i)
  BY <1>1 DEF ContainsNewLine
<1>4. NoNameRepeats' <=> NoNameRepeats
  BY <1>1, <1>2 DEF NoNameRepeats
<1> QED BY <1>1, <1>2, <1>3, <1>4

LEMMA SameLineIs ==
  ASSUME NEW q, NEW i \in SameLine(pos, q)
  PROVE  /\ i \in pos .. q - 1 /\ Lex(i) \in Comments
         /\ lastValue # {} /\ ~ContainsNewLine(lastEnd, i)
BY DEF SameLine, OnSameLine, CommentsIn

LEMMA WaitingAre ==
  ASSUME IInv, CommentsOK, NEW q \in Int, pos <= q, NEW i \in Waiting(pos, q)
  PROVE  i \in Nat /\ i < q /\ Lex(i) \in Comments
<1>1. pos \in Nat /\ commentsBefore \subseteq Nat
  BY Facts, ToParts DEF Simple
<1>2. CASE i \in commentsBefore
  <2>1. i \in Nat /\ i < pos /\ Lex(i) \in Comments
    BY <1>1, <1>2 DEF CommentsOK
  <2> QED BY <1>1, <2>1
<1>3. CASE i \notin commentsBefore
  <2>1. i \in pos .. q - 1 /\ Lex(i) \in Comments
    BY <1>3 DEF Waiting, CommentsIn
  <2> QED BY <1>1, <2>1
<1> QED BY <1>2, <1>3

LEMMA CarriesIs ==
  ASSUME IInv, IInv', NEW q, NEW S, Carries(q, S)
  PROVE  q \in Int /\ pos <= q /\ q <= pos' /\ pos \in Nat /\ pos' \in Nat
BY Parts, PartsPrimed DEF Carries

\* What waits next is before what is read next.
LEMMA StillWaiting ==
  ASSUME IInv, IInv', CommentsOK, NEW q, NEW S, Carries(q, S)
  PROVE  \A i \in commentsBefore' : i < pos' /\ Lex(i)' \in Comments
<1>1. q \in Int /\ pos <= q /\ q <= pos' /\ pos' \in Nat
  BY CarriesIs
<1>2. ASSUME NEW i \in commentsBefore' PROVE i < pos' /\ Lex(i)' \in Comments
  <2>1. i \in Waiting(pos, q) /\ Lex(i)' = Lex(i)
    BY TextSame DEF Carries
  <2>2. i \in Nat /\ i < q /\ Lex(i) \in Comments
    BY <1>1, <2>1, WaitingAre
  <2> QED BY <1>1, <2>1, <2>2
<1> QED BY <1>2

\* The names in the tree are still in the text that was read.
LEMMA StillNamed ==
  ASSUME IInv, IInv', CommentsOK, NEW q, NEW S, Carries(q, S), NEW v \in Below, Last(v)[1] = "name"
  PROVE  \E i \in 0 .. pos' - 1 : NameAt(i)' /\ Lex(i)' = Last(v)[2]
<1>1. q \in Int /\ pos <= q /\ q <= pos' /\ pos \in Nat /\ pos' \in Nat
  BY CarriesIs
<1>2. PICK i \in 0 .. pos - 1 : NameAt(i) /\ Lex(i) = Last(v)[2]
  BY DEF CommentsOK
<1>3. i \in 0 .. pos' - 1
  <2>1. i \in Int /\ pos <= pos'
    BY <1>1
  <2> QED BY <1>1, <1>2, <2>1, Widens
<1>4. NameAt(i)' /\ Lex(i)' = Lex(i)
  BY <1>2, TextSame DEF Carries
<1> QED BY <1>2, <1>3, <1>4

\* A value that stays where it is, or is closed now.
LEMMA NearKept ==
  ASSUME IInv, IInv', CommentsOK, NoNameRepeats, NEW q, NEW S, Carries(q, S),
         NEW v \in S, v \in DOMAIN tree, v # Top \/ pc # "value",
         tree'[v].type = tree[v].type, tree'[v].start = tree[v].start,
         Complete(v) => tree'[v].limit = tree[v].limit
  PROVE  CommentsNear(v)' /\ (~Complete(v) => tree'[v].same = {})
<1>1. /\ CommentsNear(v) /\ (~Complete(v) => tree[v].same = {})
      /\ v \in lastValue => Complete(v) /\ tree[v].limit = lastEnd
      /\ lastEnd <= pos
  BY DEF CommentsOK
<1>2. /\ \A i : Lex(i)' = Lex(i)
      /\ \A p, i : ContainsNewLine(p, i)' <=> ContainsNewLine(p, i)
  BY TextSame DEF Carries
<1>3. tree'[v].before = tree[v].before
  BY DEF Carries
<1>4. InText(v)' <=> InText(v)
  <2>1. Lex(tree[v].start)' = Lex(tree[v].start)
    BY DEF Carries, Lex
  <2> QED BY <2>1 DEF InText
<1>5. InText(v)' => \A i \in tree'[v].before : i < tree'[v].start
  BY <1>1, <1>3, <1>4 DEF CommentsNear
<1>6. CASE tree'[v].same = tree[v].same
  <2>1. ~Complete(v) => tree'[v].same = {}
    BY <1>1, <1>6
  <2>2. ASSUME NEW i \in tree'[v].same
        PROVE  tree'[v].limit <= i /\ ~ContainsNewLine(tree[v].limit, i)'
    <3>1. tree'[v].limit = tree[v].limit
      BY <2>1, <2>2
    <3>2. tree[v].limit <= i /\ ~ContainsNewLine(tree[v].limit, i)
      BY <1>1, <1>6, <2>2 DEF CommentsNear
    <3> QED BY <1>2, <3>1, <3>2
  <2> QED BY <1>5, <2>1, <2>2 DEF CommentsNear
<1>7. CASE tree'[v].same # tree[v].same
  <2>1. PICK i \in SameLine(pos, q) : v \in lastValue /\ tree'[v].same = {i}
    BY <1>7 DEF Carries
  <2>2. Complete(v) /\ tree'[v].limit = lastEnd
    BY <1>1, <2>1
  <2>3. i \in pos .. q - 1 /\ ~ContainsNewLine(lastEnd, i)
    BY <2>1, SameLineIs
  <2>4. lastEnd <= i
    <3>1. q \in Int /\ pos \in Nat /\ lastEnd \in Int
      BY CarriesIs, ToParts, Parts DEF Simple
    <3> QED BY <1>1, <2>3, <3>1
  <2>5. \A j \in tree'[v].same : tree'[v].limit <= j /\ ~ContainsNewLine(tree[v].limit, j)'
    BY <1>2, <2>1, <2>2, <2>3, <2>4
  <2> QED BY <1>5, <2>2, <2>5 DEF CommentsNear
<1> QED BY <1>6, <1>7

\* The value on top, once it is read or opened.
LEMMA NearTop ==
  ASSUME IInv, IInv', CommentsOK, NoNameRepeats, pc = "value", NEW q, Carries(q, Kept), TopStarts(q),
         NEW v, v = Top
  PROVE  CommentsNear(v)' /\ tree'[v].same = {}
<1>1. tree[v] = Null /\ v \in Kept /\ v \notin lastValue
  <2>1. Stale(v) /\ v = Path(frames)
    BY TopIs DEF Top
  <2> QED BY <2>1, KeptIs DEF CommentsOK, Complete, Top
<1>2. tree'[v].same = {}
  BY <1>1 DEF Carries, Null
<1>3. tree'[v].before \subseteq Waiting(pos, q)
  BY <1>1 DEF Carries, Null
<1>4. ASSUME InText(v)', NEW i \in tree'[v].before PROVE i < tree'[v].start
  <2>1. q \in Int /\ pos <= q
    BY CarriesIs
  <2>2. i \in Nat /\ i < q /\ Lex(i) \in Comments
    BY <1>3, <1>4, <2>1, WaitingAre
  <2>3. CASE tree'[v].start = q
    BY <2>2, <2>3
  <2>4. CASE tree'[v].type = "null" /\ tree'[v].start = q - 1
    <3>1. Lex(q - 1)' = "null"
      BY <1>4, <2>4 DEF InText
    <3>2. Lex(q - 1) = "null" /\ "null" \notin Comments
      BY <3>1, TextSame DEF Carries, Comments, LineComments
    <3>3. i # q - 1
      BY <2>2, <3>2
    <3> QED BY <2>1, <2>2, <2>4, <3>3
  <2> QED BY <2>3, <2>4 DEF TopStarts
<1> QED BY <1>2, <1>4 DEF CommentsNear

\* Where the last value is after a value is read or a container is closed.
LEMMA RememberedIs ==
  ASSUME IInv, IInv', CommentsOK, NEW q, NEW S, Carries(q, S), NEW u, Remembers(u), pos <= pos'
  PROVE  lastEnd' <= pos' /\ \A v \in lastValue' : v = u /\ lastEnd' = pos'
<1>1. lastEnd <= pos /\ (~Collects => lastValue = {})
  BY ToParts DEF CommentsOK, LastValueOK
<1>2. lastEnd \in Int /\ pos \in Nat /\ pos' \in Nat
  BY Parts, PartsPrimed, ToParts DEF Simple
<1> QED BY <1>1, <1>2 DEF Remembers

LEMMA CommentsRead ==
  ASSUME IInv, IInv', CommentsOK, ReadsTop, NEW q, Carries(q, Kept), TopStarts(q), Remembers(Top)
  PROVE  CommentsOK'
<1>1. /\ pc = "value" /\ pc' = "return" /\ DOMAIN tree' = Kept
      /\ pos <= pos' /\ tree'[Top].limit = pos'
  BY DEF ReadsTop
<1>2. \A v \in DOMAIN tree' : /\ v \in DOMAIN tree /\ ~Stale(v)' /\ (Open(v)' <=> Open(v))
                              /\ v # Top => ~Stale(v) /\ Alike(v)
  BY AfterReading
<1>3. lastEnd' <= pos' /\ \A v \in lastValue' : v = Top /\ lastEnd' = pos'
  BY <1>1, RememberedIs
<1>4. \A i \in commentsBefore' : i < pos' /\ Lex(i)' \in Comments
  BY StillWaiting
<1>5. ASSUME NEW v \in Below', Last(v)[1] = "name"
      PROVE  \E i \in 0 .. pos' - 1 : NameAt(i)' /\ Lex(i)' = Last(v)[2]
  <2>1. v \in Below
    BY <1>2 DEF Below
  <2> QED BY <1>5, <2>1, StillNamed
<1>6. ASSUME NoNameRepeats'
      PROVE  /\ \A v \in lastValue' : Complete(v)' /\ tree'[v].limit = lastEnd'
             /\ \A v \in DOMAIN tree' : CommentsNear(v)' /\ (~Complete(v)' => tree'[v].same = {})
  <2>1. NoNameRepeats
    BY <1>6, TextSame DEF Carries
  <2>2. ~Open(Top) /\ Top \in DOMAIN tree'
    BY <1>1, TopIs, KeptIs DEF Top
  <2>3. ASSUME NEW v \in lastValue' PROVE Complete(v)' /\ tree'[v].limit = lastEnd'
    BY <1>1, <1>2, <1>3, <2>2, <2>3 DEF Complete
  <2>4. ASSUME NEW v \in DOMAIN tree'
        PROVE  CommentsNear(v)' /\ (~Complete(v)' => tree'[v].same = {})
    <3>1. CASE v = Top
      BY <1>1, <2>1, <3>1, NearTop
    <3>2. CASE v # Top
      <4>1. /\ v \in Kept /\ v \in DOMAIN tree /\ tree'[v].type = tree[v].type
            /\ tree'[v].start = tree[v].start /\ tree'[v].limit = tree[v].limit
        BY <1>1, <1>2, <3>2 DEF Alike
      <4>2. CommentsNear(v)' /\ (~Complete(v) => tree'[v].same = {})
        BY <2>1, <3>2, <4>1, NearKept
      <4>3. ~Complete(v)' => ~Complete(v)
        BY <1>2, <3>2 DEF Complete
      <4> QED BY <4>2, <4>3
    <3> QED BY <3>1, <3>2
  <2> QED BY <2>3, <2>4
<1> QED BY <1>1, <1>3, <1>4, <1>5, <1>6 DEF CommentsOK

LEMMA NullIsNear ==
  ASSUME NEW v, tree'[v] = Null
  PROVE  CommentsNear(v)' /\ tree'[v].same = {}
BY DEF CommentsNear, Null

LEMMA CommentsOpened ==
  ASSUME IInv, IInv', CommentsOK, NEW f, OpensTop(f), NEW q, Carries(q, Kept), TopStarts(q),
         lastValue' = lastValue, lastEnd' = lastEnd,
         Append(Top, f.key) \in DOMAIN tree' => tree'[Append(Top, f.key)] = Null
  PROVE  CommentsOK'
<1>1. /\ pc = "value"
      /\ \/ pc' = "member" /\ DOMAIN tree' = Kept
         \/ f.key = <<"index", 0>> /\ DOMAIN tree' = Kept \cup {Append(Top, f.key)}
  BY DEF OpensTop
<1>2. /\ \A v \in Kept : /\ v \in DOMAIN tree /\ v \in DOMAIN tree' /\ ~Stale(v)'
                         /\ v # Top => ~Stale(v) /\ (Open(v)' <=> Open(v)) /\ Alike(v)
      /\ \A v \in DOMAIN tree' \ Kept : v = Append(Top, f.key)
  BY AfterOpening
<1>3. lastEnd' <= pos'
  <2>1. lastEnd <= pos /\ pos <= q /\ q <= pos' /\ q \in Int /\ lastEnd \in Int /\ pos \in Nat /\ pos' \in Nat
    BY CarriesIs, ToParts, Parts DEF CommentsOK, Simple
  <2> QED BY <2>1
<1>4. \A i \in commentsBefore' : i < pos' /\ Lex(i)' \in Comments
  BY StillWaiting
<1>5. /\ Path(frames') = Append(Top, f.key)
      /\ Last(Append(Top, f.key)) = f.key
  BY FramesOpened
<1>6. ASSUME NEW v \in Below', Last(v)[1] = "name"
      PROVE  \E i \in 0 .. pos' - 1 : NameAt(i)' /\ Lex(i)' = Last(v)[2]
  <2>1. CASE v \in Kept
    <3>1. v \in Below
      BY <1>2, <1>6, <2>1 DEF Below
    <3> QED BY <1>6, <3>1, StillNamed
  <2>2. CASE v \notin Kept
    <3>1. Last(v) = <<"index", 0>>
      BY <1>1, <1>2, <1>5, <1>6, <2>2 DEF Below
    <3> QED BY <1>6, <3>1
  <2> QED BY <2>1, <2>2
<1>7. ASSUME NoNameRepeats'
      PROVE  /\ pc' = "value" => tree'[Path(frames')] = Null
             /\ \A v \in lastValue' : Complete(v)' /\ tree'[v].limit = lastEnd'
             /\ \A v \in DOMAIN tree' : CommentsNear(v)' /\ (~Complete(v)' => tree'[v].same = {})
  <2>1. NoNameRepeats
    BY <1>7, TextSame DEF Carries
  <2>2. pc' = "value" => tree'[Path(frames')] = Null
    BY <1>1, <1>5
  <2>3. ASSUME NEW v \in lastValue' PROVE Complete(v)' /\ tree'[v].limit = lastEnd'
    <3>1. v \in DOMAIN tree /\ Complete(v) /\ tree[v].limit = lastEnd
      BY <2>1, ToParts DEF CommentsOK, LastValueOK
    <3>2. v \in Kept /\ v # Top
      BY <1>1, <3>1, KeptIs, TopIs DEF Complete, Top
    <3> QED BY <1>2, <3>1, <3>2 DEF Complete, Alike
  <2>4. ASSUME NEW v \in DOMAIN tree'
        PROVE  CommentsNear(v)' /\ (~Complete(v)' => tree'[v].same = {})
    <3>1. CASE v = Top
      BY <1>1, <2>1, <3>1, NearTop
    <3>2. CASE v # Top /\ v \in Kept
      <4>1. /\ v \in DOMAIN tree /\ tree'[v].type = tree[v].type
            /\ tree'[v].start = tree[v].start /\ tree'[v].limit = tree[v].limit
        BY <1>2, <3>2 DEF Alike
      <4>2. CommentsNear(v)' /\ (~Complete(v) => tree'[v].same = {})
        BY <2>1, <3>2, <4>1, NearKept
      <4>3. ~Complete(v)' => ~Complete(v)
        BY <1>2, <3>2 DEF Complete
      <4> QED BY <4>2, <4>3
    <3>3. CASE v \notin Kept
      BY <1>2, <3>3, NullIsNear
    <3> QED BY <3>1, <3>2, <3>3
  <2> QED BY <2>2, <2>3, <2>4
<1> QED BY <1>3, <1>4, <1>6, <1>7 DEF CommentsOK

LEMMA CommentsClosed ==
  ASSUME IInv, IInv', CommentsOK, ClosesTop, NEW q, Carries(q, DOMAIN tree), Remembers(Container)
  PROVE  CommentsOK'
<1>1. /\ pc # "value" /\ pc' = "return" /\ DOMAIN tree' = DOMAIN tree /\ pos <= pos'
      /\ tree'[Container].type = tree[Container].type
      /\ tree'[Container].start = tree[Container].start
      /\ tree'[Container].limit = pos'
  BY DEF ClosesTop
<1>2. \A v \in DOMAIN tree : /\ ~Stale(v) /\ ~Stale(v)'
                             /\ v # Container => (Open(v)' <=> Open(v)) /\ Alike(v)
                             /\ v = Container => Open(v) /\ ~Open(v)'
  BY AfterClosing
<1>3. Container \in DOMAIN tree
  BY FramesClosed
<1>4. lastEnd' <= pos' /\ \A v \in lastValue' : v = Container /\ lastEnd' = pos'
  BY <1>1, RememberedIs
<1>5. \A i \in commentsBefore' : i < pos' /\ Lex(i)' \in Comments
  BY StillWaiting
<1>6. ASSUME NEW v \in Below', Last(v)[1] = "name"
      PROVE  \E i \in 0 .. pos' - 1 : NameAt(i)' /\ Lex(i)' = Last(v)[2]
  <2>1. v \in Below
    BY <1>1 DEF Below
  <2> QED BY <1>6, <2>1, StillNamed
<1>7. ASSUME NoNameRepeats'
      PROVE  /\ \A v \in lastValue' : Complete(v)' /\ tree'[v].limit = lastEnd'
             /\ \A v \in DOMAIN tree' : CommentsNear(v)' /\ (~Complete(v)' => tree'[v].same = {})
  <2>1. NoNameRepeats
    BY <1>7, TextSame DEF Carries
  <2>2. ASSUME NEW v \in lastValue' PROVE Complete(v)' /\ tree'[v].limit = lastEnd'
    BY <1>1, <1>2, <1>3, <1>4, <2>2 DEF Complete
  <2>3. ASSUME NEW v \in DOMAIN tree'
        PROVE  CommentsNear(v)' /\ (~Complete(v)' => tree'[v].same = {})
    <3>1. v \in DOMAIN tree
      BY <1>1
    <3>2. /\ tree'[v].type = tree[v].type /\ tree'[v].start = tree[v].start
          /\ Complete(v) => tree'[v].limit = tree[v].limit
      BY <1>1, <1>2, <3>1 DEF Complete, Alike
    <3>3. CommentsNear(v)' /\ (~Complete(v) => tree'[v].same = {})
      BY <1>1, <2>1, <3>1, <3>2, NearKept
    <3>4. ~Complete(v)' => ~Complete(v)
      BY <1>2, <3>1 DEF Complete
    <3> QED BY <3>3, <3>4
  <2> QED BY <2>2, <2>3
<1> QED BY <1>1, <1>4, <1>5, <1>6, <1>7 DEF CommentsOK

\* What is not in the tree has nothing below it.
LEMMA NothingUnder ==
  ASSUME IInv, KindsOK, NEW a \in Seq(Keys), a # <<>>, a \notin DOMAIN tree, NEW v \in DOMAIN tree
  PROVE  ~IsPrefix(a, v)
<1> SUFFICES ASSUME IsPrefix(a, v) PROVE FALSE
  OBVIOUS
<1> DEFINE U == {u \in DOMAIN tree : IsPrefix(a, u)}
           T == {Len(u) : u \in U}
<1>1. TreeOK(tree) /\ Len(a) \in Nat /\ Len(a) # 0
  BY Parts, LenProperties, EmptySeq
<1>2. \A u \in U : u \in Seq(Keys) /\ Len(u) \in Nat
  BY <1>1, PathOfTree
<1>3. T \in SUBSET Nat /\ T # {}
  <2>1. v \in U
    OBVIOUS
  <2> QED BY <1>2, <2>1
<1>4. PICK n \in T : \A m \in T : n <= m
  BY <1>3, Least
<1>5. PICK u \in U : n = Len(u)
  BY <1>4
<1>6. u # <<>>
  <2>1. Len(a) <= Len(u)
    BY <1>5, PrefixLength
  <2> QED BY <1>1, <1>2, <1>5, <2>1, EmptySeq
<1>7. /\ Len(Front(u)) = Len(u) - 1 /\ IsPrefix(a, Front(u)) /\ Front(u) \in DOMAIN tree
  <2>1. a # u
    BY <1>5
  <2>2. IsPrefix(a, Front(u))
    BY <1>2, <1>5, <1>6, <2>1, PrefixOfFront
  <2>3. Front(u) \in DOMAIN tree
    BY <1>5, <1>6 DEF KindsOK, Below
  <2> QED BY <1>2, <1>5, <1>6, <2>2, <2>3, FrontIs
<1>8. n <= Len(u) - 1
  <2>1. Len(Front(u)) \in T
    BY <1>7
  <2> QED BY <1>4, <1>7, <2>1
<1> QED BY <1>2, <1>5, <1>8

\* Where no name repeats, the next value is read into a new member or element.
LEMMA NextIsNew ==
  ASSUME IInv, IInv', KindsOK, ElementsOK, CommentsOK, NoNameRepeats, NEW key, MovesOn(key),
         key[1] = "name" => \E i \in pos .. pos' - 1 : NameAt(i) /\ Lex(i) = key[2],
         doc' = doc
  PROVE  Append(Container, key) \notin DOMAIN tree
<1> SUFFICES ASSUME Append(Container, key) \in DOMAIN tree PROVE FALSE
  OBVIOUS
<1>1. /\ frames # <<>> /\ key \in Keys /\ KindOf(key) = frames[Len(frames)].kind
      /\ key[1] = "index" => key[2] = frames[Len(frames)].key[2] + 1
  BY DEF MovesOn, Last
<1>2. Container \in Seq(Keys) /\ Container = PathTo(frames, Len(frames) - 1)
  BY <1>1, ContainerIs
<1>3. /\ Append(Container, key) \in Below
      /\ Front(Append(Container, key)) = Container /\ Last(Append(Container, key)) = key
  BY <1>1, <1>2, FrontOfAppend DEF Below
<1>4. /\ frames \in Seq(Frame) /\ Len(frames) \in Nat /\ Len(frames) \in DOMAIN frames
      /\ pos \in Nat /\ pos' \in Nat /\ Len(doc) \in Nat /\ pos \in 0 .. Len(doc) /\ pos' \in 0 .. Len(doc)
  <2>1. frames \in Seq(Frame) /\ Len(frames) \in Nat /\ DOMAIN frames = 1 .. Len(frames)
    BY Parts
  <2>2. Len(frames) # 0
    BY <1>1, <2>1, EmptySeq
  <2>3. Len(doc) \in Nat /\ pos \in 0 .. Len(doc) /\ pos' \in 0 .. Len(doc) /\ pos \in Nat /\ pos' \in Nat
    BY Parts, PartsPrimed
  <2> QED BY <2>1, <2>2, <2>3
<1>5. CASE key[1] = "index"
  <2>1. frames[Len(frames)].kind = "array"
    BY <1>1, <1>5 DEF KindOf
  <2>2. frames[Len(frames)] \in Frame /\ frames[Len(frames)].kind = KindOf(frames[Len(frames)].key)
    BY <1>4 DEF KindsOK
  <2>3. frames[Len(frames)].key \in Keys
    BY <2>2 DEF Frame
  <2>4. frames[Len(frames)].key[2] \in Nat
    BY <2>1, <2>2, <2>3, IndexIs
  <2>5. key[2] <= frames[Len(frames)].key[2]
    BY <1>2, <1>3, <1>4, <2>1 DEF ElementsOK
  <2> QED BY <1>1, <1>5, <2>4, <2>5
<1>6. CASE key[1] = "name"
  <2>1. PICK i \in pos .. pos' - 1 : NameAt(i) /\ Lex(i) = key[2]
    BY <1>6
  <2>2. PICK j \in 0 .. pos - 1 : NameAt(j) /\ Lex(j) = key[2]
    BY <1>3, <1>6 DEF CommentsOK
  <2>3. i \in 0 .. Len(doc) - 1 /\ j \in 0 .. Len(doc) - 1 /\ i # j
    BY <1>4, Apart
  <2> QED BY <2>1, <2>2, <2>3 DEF NoNameRepeats
<1> QED BY <1>1, <1>5, <1>6 DEF Keys

LEMMA CommentsMoved ==
  ASSUME IInv, IInv', KindsOK, ElementsOK, CommentsOK, NEW key, MovesOn(key),
         NEW q, Carries(q, DOMAIN tree), lastValue' = lastValue, lastEnd' = lastEnd,
         Append(Container, key) \notin DOMAIN tree => tree'[Append(Container, key)] = Null,
         key[1] = "name" => \E i \in pos .. pos' - 1 : NameAt(i) /\ Lex(i) = key[2]
  PROVE  CommentsOK'
<1>1. /\ pc # "value" /\ frames # <<>> /\ key \in Keys
      /\ DOMAIN tree' = DOMAIN tree \cup {Append(Container, key)}
  BY DEF MovesOn
<1>2. /\ \A v \in DOMAIN tree : /\ v \in DOMAIN tree' /\ ~Stale(v) /\ Alike(v)
                                /\ Open(v)' <=> Open(v)
                                /\ Stale(v)' <=> IsPrefix(Append(Container, key), v)
      /\ \A v \in DOMAIN tree' \ DOMAIN tree : v = Append(Container, key)
  BY AfterMoving
<1>3. /\ Path(frames') = Append(Container, key)
      /\ Append(Container, key) \in Seq(Keys) /\ Append(Container, key) # <<>>
      /\ Last(Append(Container, key)) = key
  BY <1>1, FramesMoved, ContainerIs, FrontOfAppend
<1>4. /\ q \in Int /\ pos <= q /\ q <= pos' /\ pos \in Nat /\ pos' \in Nat
  BY CarriesIs
<1>5. lastEnd' <= pos'
  <2>1. lastEnd <= pos /\ lastEnd \in Int
    BY ToParts, Parts DEF CommentsOK, Simple
  <2> QED BY <1>4, <2>1
<1>6. \A i \in commentsBefore' : i < pos' /\ Lex(i)' \in Comments
  BY StillWaiting
<1>7. ASSUME NEW v \in Below', Last(v)[1] = "name"
      PROVE  \E i \in 0 .. pos' - 1 : NameAt(i)' /\ Lex(i)' = Last(v)[2]
  <2>1. CASE v \in DOMAIN tree
    <3>1. v \in Below
      BY <1>7, <2>1 DEF Below
    <3> QED BY <1>7, <3>1, StillNamed
  <2>2. CASE v \notin DOMAIN tree
    <3>1. Last(v) = key
      BY <1>2, <1>3, <1>7, <2>2 DEF Below
    <3>2. PICK i \in pos .. pos' - 1 : NameAt(i) /\ Lex(i) = key[2]
      BY <1>7, <3>1
    <3>3. i \in 0 .. pos' - 1
      <4>1. i \in Int
        BY <1>4
      <4> QED BY <1>4, <4>1, Widens
    <3>4. NameAt(i)' /\ Lex(i)' = Lex(i)
      BY <3>2, TextSame DEF Carries
    <3> QED BY <3>1, <3>2, <3>3, <3>4
  <2> QED BY <2>1, <2>2
<1>8. ASSUME NoNameRepeats'
      PROVE  /\ pc' = "value" => tree'[Path(frames')] = Null
             /\ \A v \in lastValue' : Complete(v)' /\ tree'[v].limit = lastEnd'
             /\ \A v \in DOMAIN tree' : CommentsNear(v)' /\ (~Complete(v)' => tree'[v].same = {})
  <2>1. NoNameRepeats
    BY <1>8, TextSame DEF Carries
  <2>2. Append(Container, key) \notin DOMAIN tree
    BY <2>1, NextIsNew DEF Carries
  <2>3. \A v \in DOMAIN tree : ~Stale(v)'
    BY <1>2, <1>3, <2>2, NothingUnder
  <2>4. ASSUME NEW v \in lastValue' PROVE Complete(v)' /\ tree'[v].limit = lastEnd'
    <3>1. v \in DOMAIN tree /\ Complete(v) /\ tree[v].limit = lastEnd
      BY <2>1, ToParts DEF CommentsOK, LastValueOK
    <3> QED BY <1>2, <2>3, <3>1 DEF Complete, Alike
  <2>5. ASSUME NEW v \in DOMAIN tree'
        PROVE  CommentsNear(v)' /\ (~Complete(v)' => tree'[v].same = {})
    <3>1. CASE v \in DOMAIN tree
      <4>1. /\ tree'[v].type = tree[v].type
            /\ tree'[v].start = tree[v].start /\ tree'[v].limit = tree[v].limit
        BY <1>2, <3>1 DEF Alike
      <4>2. CommentsNear(v)' /\ (~Complete(v) => tree'[v].same = {})
        BY <1>1, <2>1, <3>1, <4>1, NearKept
      <4>3. ~Complete(v)' => ~Complete(v)
        BY <1>2, <2>3, <3>1 DEF Complete
      <4> QED BY <4>2, <4>3
    <3>2. CASE v \notin DOMAIN tree
      BY <1>2, <2>2, <3>2, NullIsNear
    <3> QED BY <3>1, <3>2
  <2>6. tree'[Path(frames')] = Null
    BY <1>3, <2>2
  <2> QED BY <2>4, <2>5, <2>6
<1> QED BY <1>5, <1>6, <1>7, <1>8 DEF CommentsOK

LEMMA CommentsStayed ==
  ASSUME IInv, IInv', CommentsOK, StaysIn,
         NEW q, Carries(q, DOMAIN tree), lastValue' = lastValue, lastEnd' = lastEnd
  PROVE  CommentsOK'
<1>1. pc # "value" /\ pc' # "value"
  BY DEF StaysIn
<1>2. /\ DOMAIN tree' = DOMAIN tree
      /\ \A v \in DOMAIN tree : ~Stale(v) /\ ~Stale(v)' /\ (Open(v)' <=> Open(v)) /\ Alike(v)
  BY AfterStaying
<1>3. lastEnd' <= pos'
  <2>1. lastEnd <= pos /\ lastEnd \in Int
    BY ToParts, Parts DEF CommentsOK, Simple
  <2>2. q \in Int /\ pos <= q /\ q <= pos' /\ pos \in Nat /\ pos' \in Nat
    BY CarriesIs
  <2> QED BY <2>1, <2>2
<1>4. \A i \in commentsBefore' : i < pos' /\ Lex(i)' \in Comments
  BY StillWaiting
<1>5. ASSUME NEW v \in Below', Last(v)[1] = "name"
      PROVE  \E i \in 0 .. pos' - 1 : NameAt(i)' /\ Lex(i)' = Last(v)[2]
  <2>1. v \in Below
    BY <1>2 DEF Below
  <2> QED BY <1>5, <2>1, StillNamed
<1>6. ASSUME NoNameRepeats'
      PROVE  /\ \A v \in lastValue' : Complete(v)' /\ tree'[v].limit = lastEnd'
             /\ \A v \in DOMAIN tree' : CommentsNear(v)' /\ (~Complete(v)' => tree'[v].same = {})
  <2>1. NoNameRepeats
    BY <1>6, TextSame DEF Carries
  <2>2. ASSUME NEW v \in lastValue' PROVE Complete(v)' /\ tree'[v].limit = lastEnd'
    <3>1. v \in DOMAIN tree /\ Complete(v) /\ tree[v].limit = lastEnd
      BY <2>1, ToParts DEF CommentsOK, LastValueOK
    <3> QED BY <1>2, <3>1 DEF Complete, Alike
  <2>3. ASSUME NEW v \in DOMAIN tree'
        PROVE  CommentsNear(v)' /\ (~Complete(v)' => tree'[v].same = {})
    <3>1. /\ v \in DOMAIN tree /\ tree'[v].type = tree[v].type
          /\ tree'[v].start = tree[v].start /\ tree'[v].limit = tree[v].limit
      BY <1>2 DEF Alike
    <3>2. CommentsNear(v)' /\ (~Complete(v) => tree'[v].same = {})
      BY <1>1, <2>1, <3>1, NearKept
    <3>3. ~Complete(v)' => ~Complete(v)
      BY <1>2, <3>1 DEF Complete
    <3> QED BY <3>2, <3>3
  <2> QED BY <2>2, <2>3
<1> QED BY <1>1, <1>3, <1>4, <1>5, <1>6 DEF CommentsOK

-----------------------------------------------------------------------------
(* How deep the text is where the reader is.                               *)

\* The token and what was skipped before it.
LEMMA TokenText ==
  ASSUME doc \in Seq(Lexemes), NEW p \in 0 .. Len(doc), NEW S, S \subseteq Blanks \cup Comments
  PROVE  /\ \A j \in p .. TokenFrom(p, S).start - 1 : Lex(j) \in S
         /\ TokenFrom(p, S).start \in p .. Len(doc)
         /\ TokenFrom(p, S).lex \notin {"open", "NUL", "?"} =>
              /\ Lex(TokenFrom(p, S).start) = TokenFrom(p, S).lex
              /\ TokenFrom(p, S).start < Len(doc)
              /\ TokenFrom(p, S).end = TokenFrom(p, S).start + 1
<1> DEFINE i == First(p, Lexemes \ S)  t == TokenFrom(p, S)
<1>1. "NUL" \in Lexemes \ S /\ Len(doc) \in Nat /\ p \in Nat
  <2>1. "NUL" \in Lexemes \ S
    BY DEF Lexemes, Blanks, Comments, LineComments
  <2> QED BY <2>1, LenProperties
<1>2. /\ i \in p .. Len(doc) /\ Lex(i) \in Lexemes \ S
      /\ \A j \in p .. i - 1 : Lex(j) \notin Lexemes \ S
  BY <1>1, FirstIs
<1> HIDE DEF i
<1>3. /\ t.lex = (IF Lex(i) = "NaN" /\ ~conf.specialFloats THEN "?" ELSE Lex(i))
      /\ t.start = i /\ t.end = Past(i)
  BY DEF TokenFrom, i
<1> HIDE DEF t
<1>4. ASSUME NEW j \in p .. t.start - 1 PROVE Lex(j) \in S
  <2>1. j \in Nat /\ j \in p .. i - 1
    BY <1>1, <1>2, <1>3
  <2> QED BY <1>2, <2>1, LexIs
<1>5. ASSUME t.lex \notin {"open", "NUL", "?"}
      PROVE  Lex(t.start) = t.lex /\ t.start < Len(doc) /\ t.end = t.start + 1
  <2>1. Lex(i) = t.lex /\ Lex(i) # "open" /\ Lex(i) # "NUL"
    BY <1>3, <1>5
  <2>2. i # Len(doc)
    BY <1>1, <2>1 DEF Lex
  <2> QED BY <1>1, <1>2, <1>3, <2>1, <2>2 DEF Past
<1> QED BY <1>2, <1>3, <1>4, <1>5 DEF t

LEMMA CountedIs ==
  ASSUME NEW S, NEW p \in Nat
  PROVE  /\ {i \in 1 .. p : doc[i] \in S} \in SUBSET (1 .. p)
         /\ IsFiniteSet({i \in 1 .. p : doc[i] \in S}) /\ Count(S, p) \in Nat
<1>1. {i \in 1 .. p : doc[i] \in S} \subseteq 1 .. p
  OBVIOUS
<1>2. IsFiniteSet(1 .. p)
  BY FS_Interval
<1>3. IsFiniteSet({i \in 1 .. p : doc[i] \in S})
  BY <1>1, <1>2, FS_Subset
<1> QED BY <1>1, <1>3, FS_CardinalityType DEF Count

LEMMA CountNext ==
  ASSUME NEW S, NEW p \in Nat
  PROVE  /\ doc[p + 1] \in S => Count(S, p + 1) = Count(S, p) + 1
         /\ doc[p + 1] \notin S => Count(S, p + 1) = Count(S, p)
<1> DEFINE C(q) == {i \in 1 .. q : doc[i] \in S}
<1>1. IsFiniteSet(C(p)) /\ p + 1 \notin C(p) /\ Count(S, p) = Cardinality(C(p))
  <2>1. IsFiniteSet(C(p))
    BY CountedIs
  <2>2. p + 1 \notin C(p)
    OBVIOUS
  <2> QED BY <2>1, <2>2 DEF Count
<1>2. Count(S, p + 1) = Cardinality(C(p + 1))
  BY DEF Count
<1>3. 1 .. p + 1 = (1 .. p) \cup {p + 1}
  OBVIOUS
<1>4. ASSUME doc[p + 1] \in S PROVE C(p + 1) = C(p) \cup {p + 1}
  BY <1>3, <1>4
<1>5. ASSUME doc[p + 1] \notin S PROVE C(p + 1) = C(p)
  BY <1>3, <1>5
<1> HIDE DEF C
<1>6. doc[p + 1] \in S => Cardinality(C(p) \cup {p + 1}) = Cardinality(C(p)) + 1
  BY <1>1, FS_AddElement
<1> QED BY <1>1, <1>2, <1>4, <1>5, <1>6

LEMMA CountSkip ==
  ASSUME NEW S, NEW p \in Nat, NEW q \in Nat, p <= q, \A j \in p .. q - 1 : doc[j + 1] \notin S
  PROVE  Count(S, q) = Count(S, p)
<1>1. ASSUME NEW i \in 1 .. q, doc[i] \in S PROVE i \in 1 .. p
  <2>1. CASE i \in p + 1 .. q
    <3>1. i - 1 \in p .. q - 1 /\ (i - 1) + 1 = i
      BY <2>1
    <3>2. doc[(i - 1) + 1] \notin S
      BY <3>1
    <3> QED BY <1>1, <3>1, <3>2
  <2> QED BY <2>1
<1>2. 1 .. p \subseteq 1 .. q
  OBVIOUS
<1>3. {i \in 1 .. q : doc[i] \in S} = {i \in 1 .. p : doc[i] \in S}
  BY <1>1, <1>2
<1> QED BY <1>3 DEF Count

Weight(lex) == IF lex \in Openers THEN 1 ELSE IF lex \in Enders THEN -1 ELSE 0

LEMMA DepthIs ==
  ASSUME NEW p \in Nat
  PROVE  /\ Count(Openers, p) \in Nat /\ Count(Enders, p) \in Nat
         /\ Depth(p) = Count(Openers, p) - Count(Enders, p) /\ Depth(p) \in Int
<1>1. Count(Openers, p) \in Nat
  BY CountedIs
<1>2. Count(Enders, p) \in Nat
  BY CountedIs
<1>3. Depth(p) = Count(Openers, p) - Count(Enders, p)
  BY DEF Depth, Openers, Enders
<1> QED BY <1>1, <1>2, <1>3

LEMMA DepthNext ==
  ASSUME NEW p \in Nat
  PROVE  Depth(p + 1) = Depth(p) + Weight(doc[p + 1])
<1> DEFINE o == Count(Openers, p)  oo == Count(Openers, p + 1)
           c == Count(Enders, p)  cc == Count(Enders, p + 1)
<1>1. o \in Nat /\ c \in Nat /\ Depth(p) = o - c
  BY DepthIs
<1>2. /\ doc[p + 1] \in Openers => oo = o + 1
      /\ doc[p + 1] \notin Openers => oo = o
  BY CountNext
<1>3. /\ doc[p + 1] \in Enders => cc = c + 1
      /\ doc[p + 1] \notin Enders => cc = c
  BY CountNext
<1>4. ~(doc[p + 1] \in Openers /\ doc[p + 1] \in Enders)
  BY DEF Openers, Enders
<1>5. Depth(p + 1) = oo - cc
  BY DepthIs
<1> HIDE DEF o, oo, c, cc
<1> QED BY <1>1, <1>2, <1>3, <1>4, <1>5 DEF Weight

LEMMA DepthOver ==
  ASSUME doc \in Seq(Lexemes), NEW p \in 0 .. Len(doc), NEW S, S \subseteq Blanks \cup Comments,
         NEW t, t = TokenFrom(p, S)
  PROVE  /\ Depth(t.start) = Depth(p) /\ Depth(p) \in Int
         /\ t.lex \notin {"open", "NUL", "?"} => Depth(t.end) = Depth(p) + Weight(t.lex)
<1>1. Len(doc) \in Nat /\ p \in Nat
  BY LenProperties
<1>2. /\ \A j \in p .. t.start - 1 : Lex(j) \in S
      /\ t.start \in p .. Len(doc)
      /\ t.lex \notin {"open", "NUL", "?"} =>
           Lex(t.start) = t.lex /\ t.start < Len(doc) /\ t.end = t.start + 1
  BY TokenText
<1>3. t.start \in Nat /\ p <= t.start
  BY <1>1, <1>2
<1>4. ASSUME NEW j \in p .. t.start - 1 PROVE doc[j + 1] \notin {"{", "["} /\ doc[j + 1] \notin {"}", "]"}
  <2>1. Lex(j) \in S /\ j < Len(doc)
    BY <1>1, <1>2
  <2>2. doc[j + 1] \in Blanks \cup Comments
    BY <2>1 DEF Lex
  <2> QED BY <2>2 DEF Blanks, Comments, LineComments
<1>5. Count({"{", "["}, t.start) = Count({"{", "["}, p)
  BY <1>1, <1>3, <1>4, CountSkip
<1>6. Count({"}", "]"}, t.start) = Count({"}", "]"}, p)
  BY <1>1, <1>3, <1>4, CountSkip
<1>7. Depth(t.start) = Depth(p) /\ Depth(p) \in Int
  BY <1>1, <1>5, <1>6, DepthIs DEF Depth
<1>8. ASSUME t.lex \notin {"open", "NUL", "?"} PROVE Depth(t.end) = Depth(p) + Weight(t.lex)
  <2>1. Lex(t.start) = t.lex /\ t.start < Len(doc) /\ t.end = t.start + 1
    BY <1>2, <1>8
  <2>2. doc[t.start + 1] = t.lex
    BY <2>1 DEF Lex
  <2> QED BY <1>3, <1>7, <2>1, <2>2, DepthNext
<1> QED BY <1>7, <1>8

\* The same of each way to read a token.
LEMMA Depths ==
  ASSUME IInv, NEW p \in 0 .. Len(doc),
         NEW t, t \in {AnyToken(p), CommentsSkipped(p), ValueToken(p)}
  PROVE  /\ Depth(t.start) = Depth(p) /\ Depth(p) \in Int
         /\ t.lex \notin {"open", "NUL", "?"} => Depth(t.end) = Depth(p) + Weight(t.lex)
<1>1. doc \in Seq(Lexemes)
  BY Parts
<1>2. t = TokenFrom(p, Blanks) \/ t = TokenFrom(p, Blanks \cup Comments)
  BY DEF AnyToken, CommentsSkipped, ValueToken
<1>3. CASE t = TokenFrom(p, Blanks)
  BY <1>1, <1>3, DepthOver
<1>4. CASE t = TokenFrom(p, Blanks \cup Comments)
  BY <1>1, <1>4, DepthOver
<1> QED BY <1>2, <1>3, <1>4

\* Without comments there is one way.
LEMMA NoComments ==
  ASSUME IInv, ~Mentions(Comments), NEW p \in 0 .. Len(doc)
  PROVE  CommentsSkipped(p) = AnyToken(p) /\ AnyToken(p).lex \notin Comments
<1> DEFINE V == Lexemes \ Blanks  W == Lexemes \ (Blanks \cup Comments)
           i == First(p, V)  j == First(p, W)
<1>1. doc \in Seq(Lexemes) /\ Len(doc) \in Nat /\ p \in Nat
  BY Parts
<1>2. "NUL" \in V /\ "NUL" \in W /\ "NUL" \notin Comments /\ "?" \notin Comments
  BY DEF Lexemes, Blanks, Comments, LineComments
<1>3. \A k \in Nat : Lex(k) \notin Comments
  <2> SUFFICES ASSUME NEW k \in Nat PROVE Lex(k) \notin Comments
    OBVIOUS
  <2>1. CASE k < Len(doc)
    <3>1. k + 1 \in DOMAIN doc
      BY <1>1, <2>1, LenProperties
    <3> QED BY <2>1, <3>1 DEF Mentions, Lex
  <2>2. CASE ~(k < Len(doc))
    BY <1>2, <2>2 DEF Lex
  <2> QED BY <2>1, <2>2
<1>4. /\ i \in p .. Len(doc) /\ Lex(i) \in V /\ \A k \in p .. i - 1 : Lex(k) \notin V
  BY <1>1, <1>2, FirstIs
<1>5. /\ j \in p .. Len(doc) /\ Lex(j) \in W /\ \A k \in p .. j - 1 : Lex(k) \notin W
  BY <1>1, <1>2, FirstIs
<1>6. \A k \in Nat : Lex(k) \in V <=> Lex(k) \in W
  BY <1>3
<1> HIDE DEF i, j, V, W
<1>7. i = j
  <2>1. ASSUME i < j PROVE FALSE
    <3>1. i \in p .. j - 1 /\ i \in Nat
      BY <1>1, <1>4, <1>5, <2>1
    <3> QED BY <1>4, <1>5, <1>6, <3>1
  <2>2. ASSUME j < i PROVE FALSE
    <3>1. j \in p .. i - 1 /\ j \in Nat
      BY <1>1, <1>4, <1>5, <2>2
    <3> QED BY <1>4, <1>5, <1>6, <3>1
  <2>3. i \in Nat /\ j \in Nat
    BY <1>1, <1>4, <1>5
  <2> QED BY <2>1, <2>2, <2>3
<1>8. CommentsSkipped(p) = AnyToken(p)
  BY <1>7 DEF CommentsSkipped, AnyToken, TokenFrom, i, j, V, W
<1>9. AnyToken(p).lex \notin Comments
  <2>1. i \in Nat
    BY <1>1, <1>4
  <2>2. AnyToken(p).lex = IF Lex(i) = "NaN" /\ ~conf.specialFloats THEN "?" ELSE Lex(i)
    BY DEF AnyToken, TokenFrom, i, V
  <2> QED BY <1>2, <1>3, <2>1, <2>2
<1> QED BY <1>8, <1>9

-----------------------------------------------------------------------------
(* The tree after a step.                                                  *)

Placed(t, v) == /\ t[v].type = tree[v].type
                /\ t[v].start = tree[v].start /\ t[v].limit = tree[v].limit
SameOf(t, v, q) == \/ t[v].same = tree[v].same
                   \/ v \in lastValue /\ \E i \in SameLine(pos, q) : t[v].same = {i}
BeforeOf(t, v, q) == \/ t[v].before = tree[v].before
                     \/ pc = "value" /\ v = Top /\ t[v].before \subseteq Waiting(pos, q)

LEMMA StartSet ==
  ASSUME NEW t, TreeOK(t), NEW v \in DOMAIN t, NEW a \in Int,
         NEW u, u = [t EXCEPT ![v].start = a]
  PROVE  /\ TreeOK(u) /\ DOMAIN u = DOMAIN t /\ \A w \in DOMAIN t : w # v => u[w] = t[w]
         /\ u[v].start = a /\ u[v].limit = t[v].limit /\ u[v].type = t[v].type
         /\ u[v].same = t[v].same /\ u[v].before = t[v].before
<1> DEFINE node == [t[v] EXCEPT !.start = a]
<1>1. t[v] \in Nodes
  BY DEF TreeOK
<1>2. /\ node.start = a /\ node.limit = t[v].limit /\ node.type = t[v].type
      /\ node.same = t[v].same /\ node.before = t[v].before
  BY <1>1 DEF Nodes
<1>3. u = [t EXCEPT ![v] = node]
  OBVIOUS
<1> HIDE DEF node
<1>4. u[v] = node /\ DOMAIN u = DOMAIN t /\ \A w \in DOMAIN t : w # v => u[w] = t[w]
  BY <1>3
<1>5. TreeOK(u)
  BY SetStartIs
<1> QED BY <1>2, <1>4, <1>5

LEMMA LimitSet ==
  ASSUME NEW t, TreeOK(t), NEW v \in DOMAIN t, NEW a \in Int,
         NEW u, u = [t EXCEPT ![v].limit = a]
  PROVE  /\ TreeOK(u) /\ DOMAIN u = DOMAIN t /\ \A w \in DOMAIN t : w # v => u[w] = t[w]
         /\ u[v].start = t[v].start /\ u[v].limit = a /\ u[v].type = t[v].type
         /\ u[v].same = t[v].same /\ u[v].before = t[v].before
<1> DEFINE node == [t[v] EXCEPT !.limit = a]
<1>1. t[v] \in Nodes
  BY DEF TreeOK
<1>2. /\ node.start = t[v].start /\ node.limit = a /\ node.type = t[v].type
      /\ node.same = t[v].same /\ node.before = t[v].before
  BY <1>1 DEF Nodes
<1>3. u = [t EXCEPT ![v] = node]
  OBVIOUS
<1> HIDE DEF node
<1>4. u[v] = node /\ DOMAIN u = DOMAIN t /\ \A w \in DOMAIN t : w # v => u[w] = t[w]
  BY <1>3
<1>5. TreeOK(u)
  BY SetLimitIs
<1> QED BY <1>2, <1>4, <1>5

LEMMA OffsetsSet ==
  ASSUME NEW t, TreeOK(t), NEW v \in DOMAIN t, NEW a \in Int, NEW b \in Int,
         NEW u, u = SetOffsets(t, v, a, b)
  PROVE  /\ TreeOK(u) /\ DOMAIN u = DOMAIN t /\ \A w \in DOMAIN t : w # v => u[w] = t[w]
         /\ u[v].start = a /\ u[v].limit = b /\ u[v].type = t[v].type
         /\ u[v].same = t[v].same /\ u[v].before = t[v].before
<1> DEFINE node == [[t[v] EXCEPT !.start = a] EXCEPT !.limit = b]
<1>1. t[v] \in Nodes
  BY DEF TreeOK
<1>2. /\ node.start = a /\ node.limit = b /\ node.type = t[v].type
      /\ node.same = t[v].same /\ node.before = t[v].before
  BY <1>1 DEF Nodes
<1>3. u = [t EXCEPT ![v] = node]
  BY DEF SetOffsets, TreeOK
<1> HIDE DEF node
<1>4. u[v] = node /\ DOMAIN u = DOMAIN t /\ \A w \in DOMAIN t : w # v => u[w] = t[w]
  BY <1>3
<1>5. TreeOK(u)
  BY SetOffsetsIs
<1> QED BY <1>2, <1>4, <1>5

LEMMA BeforeSet ==
  ASSUME NEW t, TreeOK(t), NEW v \in DOMAIN t, NEW before \in SUBSET Nat,
         NEW u, u = [t EXCEPT ![v].before = before]
  PROVE  /\ TreeOK(u) /\ DOMAIN u = DOMAIN t /\ \A w \in DOMAIN t : w # v => u[w] = t[w]
         /\ u[v].start = t[v].start /\ u[v].limit = t[v].limit /\ u[v].type = t[v].type
         /\ u[v].same = t[v].same /\ u[v].before = before
<1> DEFINE node == [t[v] EXCEPT !.before = before]
<1>1. t[v] \in Nodes
  BY DEF TreeOK
<1>2. /\ node.start = t[v].start /\ node.limit = t[v].limit /\ node.type = t[v].type
      /\ node.same = t[v].same /\ node.before = before
  BY <1>1 DEF Nodes
<1>3. u = [t EXCEPT ![v] = node]
  OBVIOUS
<1> HIDE DEF node
<1>4. u[v] = node /\ DOMAIN u = DOMAIN t /\ \A w \in DOMAIN t : w # v => u[w] = t[w]
  BY <1>3
<1>5. TreeOK(u)
  BY BeforeIs
<1> QED BY <1>2, <1>4, <1>5

LEMMA AddedIs ==
  ASSUME IInv, NEW q \in Nat, NEW t, t = AddComments(pos, q)
  PROVE  /\ TreeOK(t) /\ DOMAIN t = DOMAIN tree
         /\ \A v \in DOMAIN tree : /\ Placed(t, v) /\ SameOf(t, v, q)
                                   /\ t[v].before = tree[v].before
<1> DEFINE
  S == SameLine(pos, q)
  last == CHOOSE i \in S : \A j \in S : j <= i
<1>1. TreeOK(tree) /\ pos \in Nat
  BY Parts
<1>2. TreeOK(t) /\ DOMAIN t = DOMAIN tree
  BY <1>1, AddCommentsIs
<1>3. S \in SUBSET (0 .. q)
  <2>1. pos .. q - 1 \subseteq 0 .. q
    BY <1>1
  <2> QED BY <1>1, <2>1, CommentsAreNats DEF SameLine
<1>4. S # {} => last \in S
  <2> SUFFICES ASSUME S # {} PROVE last \in S
    OBVIOUS
  <2> HIDE DEF S
  <2>1. \E i \in S : \A j \in S : j <= i
    BY <1>3, Greatest
  <2> QED BY <2>1
<1>5. \A v \in DOMAIN tree : t[v] = IF v \in lastValue /\ S # {}
                                    THEN [tree[v] EXCEPT !.same = {last}] ELSE tree[v]
  BY DEF AddComments
<1> HIDE DEF last
<1>6. ASSUME NEW v \in DOMAIN tree
      PROVE  Placed(t, v) /\ SameOf(t, v, q) /\ t[v].before = tree[v].before
  <2>1. tree[v] \in Nodes
    BY <1>1, PathOfTree
  <2>2. CASE v \in lastValue /\ S # {}
    <3>1. t[v] = [tree[v] EXCEPT !.same = {last}]
      BY <1>5, <2>2
    <3>2. /\ t[v].type = tree[v].type /\ t[v].start = tree[v].start /\ t[v].limit = tree[v].limit
          /\ t[v].before = tree[v].before /\ t[v].same = {last}
      BY <2>1, <3>1 DEF Nodes
    <3> QED BY <1>4, <2>2, <3>2 DEF Placed, SameOf
  <2>3. CASE ~(v \in lastValue /\ S # {})
    <3>1. t[v] = tree[v]
      BY <1>5, <2>3
    <3> QED BY <3>1 DEF Placed, SameOf
  <2> QED BY <2>2, <2>3
<1> QED BY <1>2, <1>6

LEMMA CommentedAs ==
  ASSUME IInv, pc = "value", NEW t, t = Commented
  PROVE  /\ TreeOK(t) /\ DOMAIN t = DOMAIN tree /\ Top \in DOMAIN tree
         /\ \A v \in DOMAIN tree : /\ Placed(t, v) /\ SameOf(t, v, Token.start)
                                   /\ BeforeOf(t, v, Token.start)
<1> DEFINE
  u == AddComments(pos, Token.start)
  waiting == Waiting(pos, Token.start)
<1>1. Token.start \in Nat /\ pos \in Nat /\ commentsBefore \subseteq Nat
  BY Facts, ToParts DEF Token, TokenAt, Simple
<1>2. /\ TreeOK(u) /\ DOMAIN u = DOMAIN tree
      /\ \A v \in DOMAIN tree : /\ Placed(u, v) /\ SameOf(u, v, Token.start)
                                /\ u[v].before = tree[v].before
  BY <1>1, AddedIs
<1>3. waiting \in SUBSET Nat
  BY <1>1, WaitingIs
<1>4. t = IF waiting = {} THEN u ELSE [u EXCEPT ![Top].before = waiting]
  BY DEF Commented, Top
<1>5. Top \in DOMAIN tree
  BY CommentedIs DEF Top
<1> HIDE DEF u
<1>6. CASE waiting = {}
  BY <1>2, <1>4, <1>5, <1>6 DEF BeforeOf
<1>7. CASE waiting # {}
  <2>1. t = [u EXCEPT ![Top].before = waiting]
    BY <1>4, <1>7
  <2> HIDE DEF waiting
  <2>2. /\ TreeOK(t) /\ DOMAIN t = DOMAIN u /\ \A w \in DOMAIN u : w # Top => t[w] = u[w]
        /\ t[Top].start = u[Top].start /\ t[Top].limit = u[Top].limit /\ t[Top].type = u[Top].type
        /\ t[Top].same = u[Top].same /\ t[Top].before = waiting
    <3> DEFINE v == Top
    <3>1. TreeOK(u) /\ v \in DOMAIN u /\ waiting \in SUBSET Nat /\ t = [u EXCEPT ![v].before = waiting]
      BY <1>2, <1>3, <1>5, <2>1
    <3> HIDE DEF v
    <3>2. TreeOK(t) /\ DOMAIN t = DOMAIN u
      BY <1>2, CommentedIs
    <3>3. /\ t[v].start = u[v].start /\ t[v].limit = u[v].limit /\ t[v].type = u[v].type
          /\ t[v].same = u[v].same /\ t[v].before = waiting
      BY <3>1, BeforeSet
    <3>4. ASSUME NEW w \in DOMAIN u, w # v PROVE t[w] = u[w]
      BY <3>1, <3>4
    <3> QED BY <3>2, <3>3, <3>4 DEF v
  <2>3. ASSUME NEW v \in DOMAIN tree
        PROVE  Placed(t, v) /\ SameOf(t, v, Token.start) /\ BeforeOf(t, v, Token.start)
    <3>1. /\ t[v].start = u[v].start /\ t[v].limit = u[v].limit /\ t[v].type = u[v].type
          /\ t[v].same = u[v].same
      BY <1>2, <2>2, <2>3
    <3>2. BeforeOf(t, v, Token.start)
      BY <1>2, <2>2, <2>3 DEF BeforeOf, waiting
    <3> QED BY <1>2, <3>1, <3>2 DEF Placed, SameOf
  <2> QED BY <1>2, <1>5, <2>2, <2>3
<1> QED BY <1>6, <1>7

\* The value on top, changed to another type: what was below it is gone.
LEMMA SwappedAs ==
  ASSUME IInv, pc = "value", NEW type \in Lexemes \cup {"object", "array"},
         NEW t, t = SwapPayload(Commented, Top, type)
  PROVE  /\ TreeOK(t) /\ DOMAIN t = Kept /\ Top \in Kept /\ t[Top].type = type
         /\ \A v \in Kept : /\ SameOf(t, v, Token.start) /\ BeforeOf(t, v, Token.start)
                            /\ v # Top => Placed(t, v)
<1> DEFINE c == Commented
<1>1. /\ TreeOK(c) /\ DOMAIN c = DOMAIN tree /\ Top \in DOMAIN tree
      /\ \A v \in DOMAIN tree : /\ Placed(c, v) /\ SameOf(c, v, Token.start)
                                /\ BeforeOf(c, v, Token.start)
  BY CommentedAs
<1>2. Kept \subseteq DOMAIN tree /\ Top \in Kept
  BY KeptIs
<1>3. t = SwapPayload(c, Top, type)
  OBVIOUS
<1> HIDE DEF c
<1>4. TreeOK(t)
  BY <1>1, <1>3, SwapPayloadIs
<1>5. /\ DOMAIN t = Kept
      /\ \A v \in Kept : t[v] = IF v = Top THEN [c[v] EXCEPT !.type = type] ELSE c[v]
  BY <1>1, <1>3 DEF SwapPayload, Kept
<1>6. c[Top] \in Nodes
  BY <1>1 DEF TreeOK
<1>7. t[Top] = [c[Top] EXCEPT !.type = type]
  BY <1>2, <1>5
<1>8. t[Top].type = type /\ t[Top].same = c[Top].same /\ t[Top].before = c[Top].before
  BY <1>6, <1>7 DEF Nodes
<1>9. ASSUME NEW v \in Kept
      PROVE  /\ SameOf(t, v, Token.start) /\ BeforeOf(t, v, Token.start)
             /\ v # Top => Placed(t, v)
  <2>1. v \in DOMAIN tree
    BY <1>2
  <2>2. CASE v = Top
    BY <1>1, <1>8, <2>1, <2>2 DEF SameOf, BeforeOf
  <2>3. CASE v # Top
    <3>1. t[v] = c[v]
      BY <1>5, <2>3
    <3> QED BY <1>1, <2>1, <3>1 DEF SameOf, BeforeOf, Placed
  <2> QED BY <2>2, <2>3
<1> QED BY <1>2, <1>4, <1>5, <1>8, <1>9

\* And placed in the text: t comes from s by changes of the offsets of the top.
LEMMA PlacedAs ==
  ASSUME NEW s, NEW t, DOMAIN s = Kept, DOMAIN t = Kept, Top \in Kept,
         \A v \in Kept : /\ SameOf(s, v, Token.start) /\ BeforeOf(s, v, Token.start)
                         /\ v # Top => Placed(s, v) /\ t[v] = s[v],
         t[Top].same = s[Top].same, t[Top].before = s[Top].before
  PROVE  \A v \in Kept : /\ SameOf(t, v, Token.start) /\ BeforeOf(t, v, Token.start)
                         /\ v # Top => Placed(t, v)
<1> SUFFICES ASSUME NEW v \in Kept
             PROVE  /\ SameOf(t, v, Token.start) /\ BeforeOf(t, v, Token.start)
                    /\ v # Top => Placed(t, v)
  OBVIOUS
<1>1. t[v].same = s[v].same /\ t[v].before = s[v].before /\ (v # Top => t[v] = s[v])
  BY Zenon
<1> QED BY <1>1 DEF SameOf, BeforeOf, Placed

LEMMA CarriesFrom ==
  ASSUME IInv, NEW q \in pos .. pos', NEW S, conf' = conf, doc' = doc,
         \A v \in S : SameOf(tree', v, q) /\ BeforeOf(tree', v, q),
         commentsBefore' \subseteq Waiting(pos, q)
  PROVE  Carries(q, S)
BY DEF Carries, SameOf, BeforeOf

LEMMA TokenIs ==
  ASSUME IInv
  PROVE  /\ pos \in Nat /\ Len(doc) \in Nat /\ pos \in 0 .. Len(doc)
         /\ Token.start \in Nat /\ Token.end \in Nat /\ Token.lex \in Lexemes
         /\ pos <= Token.start /\ Token.start <= Token.end /\ Token.end \in 0 .. Len(doc)
         /\ Token.lex \notin {"open", "NUL", "?"} => Token.start < Token.end
<1>1. /\ pos \in Nat /\ Len(doc) \in Nat /\ pos \in 0 .. Len(doc) /\ TokenAt(Token, pos)
  BY Facts DEF Token
<1> QED BY <1>1 DEF TokenAt

-----------------------------------------------------------------------------
(* Every step that does not fail keeps the places.                         *)

Settled == KindsOK /\ RangesOK /\ ElementsOK /\ CommentsOK
Mirrors == ~Mentions(Comments) => Len(frames) = Depth(pos)

LEMMA SettledRead ==
  ASSUME IInv, IInv', Settled, ReadsTop, NEW q, Carries(q, Kept), TopStarts(q), Remembers(Top)
  PROVE  Settled'
<1>1. KindsOK /\ RangesOK /\ ElementsOK /\ CommentsOK
  BY DEF Settled
<1>2. KindsOK'
  BY <1>1, KindsRead
<1>3. RangesOK'
  BY <1>1, RangesRead
<1>4. ElementsOK'
  BY <1>1, ElementsRead
<1>5. CommentsOK'
  BY <1>1, CommentsRead
<1> QED BY <1>2, <1>3, <1>4, <1>5 DEF Settled

LEMMA SettledOpened ==
  ASSUME IInv, IInv', Settled, NEW f, OpensTop(f), NEW q, Carries(q, Kept), TopStarts(q),
         lastValue' = lastValue, lastEnd' = lastEnd,
         Append(Top, f.key) \in DOMAIN tree' => tree'[Append(Top, f.key)] = Null
  PROVE  Settled'
<1>1. KindsOK /\ RangesOK /\ ElementsOK /\ CommentsOK
  BY DEF Settled
<1>2. KindsOK'
  BY <1>1, KindsOpened
<1>3. RangesOK'
  BY <1>1, RangesOpened
<1>4. ElementsOK'
  BY <1>1, ElementsOpened
<1>5. CommentsOK'
  BY <1>1, CommentsOpened
<1> QED BY <1>2, <1>3, <1>4, <1>5 DEF Settled

LEMMA SettledClosed ==
  ASSUME IInv, IInv', Settled, ClosesTop, NEW q, Carries(q, DOMAIN tree), Remembers(Container)
  PROVE  Settled'
<1>1. KindsOK /\ RangesOK /\ ElementsOK /\ CommentsOK
  BY DEF Settled
<1>2. KindsOK'
  BY <1>1, KindsClosed
<1>3. RangesOK'
  BY <1>1, RangesClosed
<1>4. ElementsOK'
  BY <1>1, ElementsClosed
<1>5. CommentsOK'
  BY <1>1, CommentsClosed
<1> QED BY <1>2, <1>3, <1>4, <1>5 DEF Settled

LEMMA SettledMoved ==
  ASSUME IInv, IInv', Settled, NEW key, MovesOn(key), NEW q, Carries(q, DOMAIN tree),
         lastValue' = lastValue, lastEnd' = lastEnd,
         Append(Container, key) \notin DOMAIN tree => tree'[Append(Container, key)] = Null,
         key[1] = "name" => \E i \in pos .. pos' - 1 : NameAt(i) /\ Lex(i) = key[2]
  PROVE  Settled'
<1>1. KindsOK /\ RangesOK /\ ElementsOK /\ CommentsOK
  BY DEF Settled
<1>2. KindsOK'
  BY <1>1, KindsMoved
<1>3. RangesOK'
  BY <1>1, RangesMoved
<1>4. ElementsOK'
  BY <1>1, ElementsMoved
<1>5. CommentsOK'
  BY <1>1, CommentsMoved
<1> QED BY <1>2, <1>3, <1>4, <1>5 DEF Settled

LEMMA SettledStayed ==
  ASSUME IInv, IInv', Settled, StaysIn,
         NEW q, Carries(q, DOMAIN tree), lastValue' = lastValue, lastEnd' = lastEnd
  PROVE  Settled'
<1>1. KindsOK /\ RangesOK /\ ElementsOK /\ CommentsOK
  BY DEF Settled
<1>2. KindsOK'
  BY <1>1, KindsStayed
<1>3. RangesOK'
  BY <1>1, RangesStayed
<1>4. ElementsOK'
  BY <1>1, ElementsStayed
<1>5. CommentsOK'
  BY <1>1, CommentsStayed
<1> QED BY <1>2, <1>3, <1>4, <1>5 DEF Settled

LEMMA MirrorsAre ==
  ASSUME IInv, doc' = doc
  PROVE  /\ Depth(pos)' = Depth(pos') /\ (Mentions(Comments)' <=> Mentions(Comments))
         /\ Depth(pos) \in Int /\ Len(frames) \in Nat
<1>1. Depth(pos)' = Depth(pos')
  BY DEF Depth, Count
<1>2. Mentions(Comments)' <=> Mentions(Comments)
  BY DEF Mentions, Comments, LineComments
<1> QED BY <1>1, <1>2, Parts, DepthIs

LEMMA MirrorsKept ==
  ASSUME IInv, Mirrors, doc' = doc, Len(frames') = Len(frames),
         ~Mentions(Comments) => Depth(pos') = Depth(pos)
  PROVE  Mirrors'
BY MirrorsAre DEF Mirrors

LEMMA MirrorsOpened ==
  ASSUME IInv, Mirrors, doc' = doc, Len(frames') = Len(frames) + 1,
         ~Mentions(Comments) => Depth(pos') = Depth(pos) + 1
  PROVE  Mirrors'
BY MirrorsAre DEF Mirrors

LEMMA MirrorsClosed ==
  ASSUME IInv, Mirrors, doc' = doc, Len(frames') = Len(frames) - 1,
         ~Mentions(Comments) => Depth(pos') = Depth(pos) - 1
  PROVE  Mirrors'
BY MirrorsAre DEF Mirrors

\* A value is read into the top: a scalar, a dropped null or an empty array.
LEMMA PlacesRead ==
  ASSUME IInv, IInv', Settled, Mirrors, pc = "value",
         NEW type \in Lexemes \cup {"object", "array"}, NEW a \in Int, NEW b \in Int,
         Return(SetOffsets(SwapPayload(Commented, Top, type), Top, a, b), Top, b, TRUE),
         frames' = frames, commentsBefore' = {}, a <= b, Token.start <= b,
         a = Token.start \/ (type = "null" /\ a = Token.start - 1),
         ~Mentions(Comments) => Depth(b) = Depth(pos)
  PROVE  /\ Settled' /\ Mirrors'
         /\ ReadsTop /\ tree'[Top].start = a /\ tree'[Top].type = type
<1> DEFINE s == SwapPayload(Commented, Top, type)
<1>1. /\ tree' = SetOffsets(s, Top, a, b) /\ pos' = b /\ pc' = "return"
      /\ conf' = conf /\ doc' = doc /\ Remembers(Top)
  BY DEF Return, Remembers
<1>2. /\ TreeOK(s) /\ DOMAIN s = Kept /\ Top \in Kept /\ s[Top].type = type
      /\ \A v \in Kept : /\ SameOf(s, v, Token.start) /\ BeforeOf(s, v, Token.start)
                         /\ v # Top => Placed(s, v)
  BY SwappedAs
<1> HIDE DEF s
<1>3. Top \in DOMAIN s
  BY <1>2
<1>4. /\ DOMAIN tree' = DOMAIN s /\ \A w \in DOMAIN s : w # Top => tree'[w] = s[w]
      /\ tree'[Top].start = a /\ tree'[Top].limit = b /\ tree'[Top].type = s[Top].type
      /\ tree'[Top].same = s[Top].same /\ tree'[Top].before = s[Top].before
  BY <1>1, <1>2, <1>3, OffsetsSet
<1>5. \A v \in Kept : /\ SameOf(tree', v, Token.start) /\ BeforeOf(tree', v, Token.start)
                      /\ v # Top => Placed(tree', v)
  BY <1>2, <1>4, PlacedAs
<1>6. /\ pos \in Nat /\ Token.start \in Nat /\ pos <= Token.start
  BY TokenIs
<1>7. pos <= b /\ pos - 1 <= a /\ Token.start \in pos .. pos'
  BY <1>1, <1>6
<1>8. ReadsTop
  BY <1>1, <1>2, <1>4, <1>5, <1>7 DEF ReadsTop, Alike, Placed
<1>9. Carries(Token.start, Kept)
  BY <1>1, <1>5, <1>7, CarriesFrom
<1>10. TopStarts(Token.start)
  BY <1>2, <1>4 DEF TopStarts
<1>11. Mirrors'
  BY <1>1, MirrorsKept
<1> QED BY <1>1, <1>2, <1>4, <1>8, <1>9, <1>10, <1>11, SettledRead

LEMMA TopStarted ==
  ASSUME IInv, NEW s, TreeOK(s), Top \in DOMAIN s,
         NEW t, t = [s EXCEPT ![Top].start = Token.start]
  PROVE  /\ DOMAIN t = DOMAIN s /\ t[Top].start = Token.start /\ t[Top].type = s[Top].type
         /\ t[Top].same = s[Top].same /\ t[Top].before = s[Top].before
<1>1. Token.start \in Int
  BY TokenIs
<1>2. \A v, a : (v \in DOMAIN s /\ a \in Int /\ t = [s EXCEPT ![v].start = a])
        => /\ DOMAIN t = DOMAIN s /\ t[v].start = a /\ t[v].type = s[v].type
           /\ t[v].same = s[v].same /\ t[v].before = s[v].before
  BY StartSet
<1> QED BY <1>1, <1>2

\* A container is opened at the top.
LEMMA PlacesOpened ==
  ASSUME IInv, IInv', Settled, Mirrors, pc = "value", NEW f \in Frame, f.kind = KindOf(f.key),
         NEW t, t = [SwapPayload(Commented, Top, f.kind) EXCEPT ![Top].start = Token.start],
         \/ pc' = "member" /\ f.kind = "object" /\ tree' = t
         \/ pc' = "value" /\ f.key = <<"index", 0>> /\ tree' = Resolve(t, Append(Top, f.key)),
         frames' = Append(frames, f), commentsBefore' = {}, Token.start < pos',
         UNCHANGED <<conf, doc, lastValue, lastEnd>>,
         ~Mentions(Comments) => Depth(pos') = Depth(pos) + 1
  PROVE  /\ Settled' /\ Mirrors'
         /\ OpensTop(f) /\ tree'[Top].start = Token.start
<1> DEFINE s == SwapPayload(Commented, Top, f.kind)
<1>1. f.kind \in Lexemes \cup {"object", "array"} /\ f.key \in Keys
  BY DEF Frame
<1>2. /\ TreeOK(s) /\ DOMAIN s = Kept /\ Top \in Kept /\ s[Top].type = f.kind
      /\ \A v \in Kept : /\ SameOf(s, v, Token.start) /\ BeforeOf(s, v, Token.start)
                         /\ v # Top => Placed(s, v)
  BY <1>1, SwappedAs
<1>3. t = [s EXCEPT ![Top].start = Token.start]
  OBVIOUS
<1> HIDE DEF s
<1>4. /\ pos \in Nat /\ pos' \in Nat /\ Token.start \in Int /\ pos <= Token.start
  BY TokenIs, PartsPrimed
<1>5. Top \in DOMAIN s
  BY <1>2
<1>6. /\ DOMAIN t = DOMAIN s /\ \A w \in DOMAIN s : w # Top => t[w] = s[w]
      /\ t[Top].start = Token.start /\ t[Top].type = s[Top].type
      /\ t[Top].same = s[Top].same /\ t[Top].before = s[Top].before
  <2>1. TreeOK(s)
    BY <1>2
  <2>2. /\ DOMAIN t = DOMAIN s /\ t[Top].start = Token.start /\ t[Top].type = s[Top].type
        /\ t[Top].same = s[Top].same /\ t[Top].before = s[Top].before
    BY <1>3, <1>5, <2>1, TopStarted
  <2>3. ASSUME NEW w \in DOMAIN s, w # Top PROVE t[w] = s[w]
    BY <1>3, <1>4, <1>5, <2>1, <2>3, StartSet
  <2> QED BY <2>2, <2>3
<1>7. \A v \in Kept : /\ SameOf(t, v, Token.start) /\ BeforeOf(t, v, Token.start)
                      /\ v # Top => Placed(t, v)
  BY <1>2, <1>6, PlacedAs
<1>8. Append(Top, f.key) \notin Kept
  <2>1. Front(Append(Top, f.key)) = Top /\ Append(Top, f.key) # <<>>
    BY <1>1, Facts, FrontOfAppend DEF Top
  <2>2. Stale(Top)
    BY TopIs DEF Top
  <2> QED BY <2>1, <2>2, KeptIs
<1>9. /\ \A v \in Kept : tree'[v] = t[v]
      /\ \/ pc' = "member" /\ f.kind = "object" /\ DOMAIN tree' = Kept
         \/ /\ pc' = "value" /\ f.key = <<"index", 0>>
            /\ DOMAIN tree' = Kept \cup {Append(Top, f.key)}
      /\ Append(Top, f.key) \in DOMAIN tree' => tree'[Append(Top, f.key)] = Null
  <2>1. CASE pc' = "member" /\ f.kind = "object" /\ tree' = t
    BY <1>2, <1>6, <1>8, <2>1
  <2>2. CASE pc' = "value" /\ f.key = <<"index", 0>> /\ tree' = Resolve(t, Append(Top, f.key))
    <3> DEFINE w == Append(Top, f.key)
    <3>1. tree' = [v \in Kept \cup {w} |-> IF v \in Kept THEN t[v] ELSE Null]
      BY <1>2, <1>6, <2>2 DEF Resolve
    <3> HIDE DEF w
    <3>2. \A v \in Kept : tree'[v] = t[v]
      BY <3>1
    <3>3. w \notin Kept => tree'[w] = Null
      BY <3>1
    <3> QED BY <1>8, <2>2, <3>1, <3>2, <3>3 DEF w
  <2> QED BY <2>1, <2>2
<1>10. Token.start \in pos .. pos'
  BY <1>4
<1>11. OpensTop(f)
  BY <1>2, <1>4, <1>6, <1>7, <1>9 DEF OpensTop, Alike, Placed
<1>12. Carries(Token.start, Kept)
  <2>1. \A v \in Kept : SameOf(tree', v, Token.start) /\ BeforeOf(tree', v, Token.start)
    BY <1>7, <1>9 DEF SameOf, BeforeOf
  <2> QED BY <1>10, <2>1, CarriesFrom
<1>13. TopStarts(Token.start)
  BY <1>2, <1>6, <1>9 DEF TopStarts
<1>14. Mirrors'
  BY <1>11, FramesOpened, MirrorsOpened
<1> QED BY <1>2, <1>6, <1>9, <1>11, <1>12, <1>13, <1>14, SettledOpened

\* A container is closed.
LEMMA PlacesClosed ==
  ASSUME IInv, IInv', Settled, Mirrors, pc \in {"member", "return"}, frames # <<>>,
         NEW q \in Int, NEW e \in Int, pos <= q, q <= e,
         CloseContainer(AddComments(pos, q), e, TRUE), commentsBefore' = Waiting(pos, q),
         ~Mentions(Comments) => Depth(e) = Depth(pos) - 1
  PROVE  Settled' /\ Mirrors' /\ ClosesTop
<1> DEFINE t == AddComments(pos, q)
<1>1. /\ tree' = [t EXCEPT ![Container].limit = e] /\ pos' = e /\ pc' = "return"
      /\ frames' = Front(frames) /\ conf' = conf /\ doc' = doc /\ Remembers(Container)
  BY DEF CloseContainer, Return, Remembers
<1>2. pos \in Nat /\ q \in Nat /\ q \in pos .. pos'
  BY <1>1, Parts
<1>3. /\ TreeOK(t) /\ DOMAIN t = DOMAIN tree
      /\ \A v \in DOMAIN tree : /\ Placed(t, v) /\ SameOf(t, v, q)
                                /\ t[v].before = tree[v].before
  BY <1>2, AddedIs
<1> HIDE DEF t
<1>4. Container \in DOMAIN tree
  BY ContainerIs
<1>5. /\ DOMAIN tree' = DOMAIN t /\ \A w \in DOMAIN t : w # Container => tree'[w] = t[w]
      /\ tree'[Container].start = t[Container].start /\ tree'[Container].limit = e
      /\ tree'[Container].type = t[Container].type
      /\ tree'[Container].same = t[Container].same /\ tree'[Container].before = t[Container].before
  BY <1>1, <1>3, <1>4, LimitSet
<1>6. ClosesTop
  <2>1. \A v \in DOMAIN tree : v # Container => Alike(v)
    BY <1>3, <1>5 DEF Alike, Placed
  <2>2. pos <= e
    BY <1>2
  <2> QED BY <1>1, <1>3, <1>4, <1>5, <2>1, <2>2 DEF ClosesTop, Placed
<1>7. Carries(q, DOMAIN tree)
  <2>1. ASSUME NEW v \in DOMAIN tree PROVE SameOf(tree', v, q) /\ BeforeOf(tree', v, q)
    <3>1. tree'[v].same = t[v].same /\ tree'[v].before = t[v].before
      BY <1>3, <1>5
    <3> QED BY <1>3, <3>1 DEF SameOf, BeforeOf
  <2> QED BY <1>1, <1>2, <2>1, CarriesFrom
<1>8. Mirrors'
  BY <1>1, <1>6, FramesClosed, MirrorsClosed
<1> QED BY <1>1, <1>6, <1>7, <1>8, SettledClosed

\* The reader moves on to its next value.
LEMMA PlacesMoved ==
  ASSUME IInv, IInv', Settled, Mirrors, pc \in {"member", "return"}, pc' = "value", frames # <<>>,
         NEW key \in Keys, KindOf(key) = Last(frames).kind,
         key[1] = "index" => key[2] = Last(frames).key[2] + 1,
         NEW q \in Int, pos <= q, q < pos',
         tree' = Resolve(AddComments(pos, q), Append(Container, key)),
         commentsBefore' = Waiting(pos, q), frames' = Rekey(frames, key),
         UNCHANGED <<conf, doc, lastValue, lastEnd>>,
         key[1] = "name" => \E i \in pos .. pos' - 1 : NameAt(i) /\ Lex(i) = key[2],
         ~Mentions(Comments) => Depth(pos') = Depth(pos)
  PROVE  Settled' /\ Mirrors' /\ MovesOn(key)
<1> DEFINE t == AddComments(pos, q)  w == Append(Container, key)
<1>1. pos \in Nat /\ pos' \in Nat /\ q \in Nat /\ q \in pos .. pos' /\ pos < pos'
  BY Parts, PartsPrimed
<1>2. /\ TreeOK(t) /\ DOMAIN t = DOMAIN tree
      /\ \A v \in DOMAIN tree : /\ Placed(t, v) /\ SameOf(t, v, q)
                                /\ t[v].before = tree[v].before
  BY <1>1, AddedIs
<1> HIDE DEF t, w
<1>3. tree' = [v \in DOMAIN tree \cup {w} |-> IF v \in DOMAIN tree THEN t[v] ELSE Null]
  BY <1>2 DEF Resolve, t, w
<1>4. /\ DOMAIN tree' = DOMAIN tree \cup {w} /\ \A v \in DOMAIN tree : tree'[v] = t[v]
      /\ w \notin DOMAIN tree => tree'[w] = Null
  BY <1>3
<1>5. MovesOn(key)
  BY <1>1, <1>2, <1>4 DEF MovesOn, Alike, Placed, w
<1>6. Carries(q, DOMAIN tree)
  <2>1. \A v \in DOMAIN tree : SameOf(tree', v, q) /\ BeforeOf(tree', v, q)
    BY <1>2, <1>4 DEF SameOf, BeforeOf
  <2> QED BY <1>1, <2>1, CarriesFrom
<1>7. Mirrors'
  BY <1>5, FramesMoved, MirrorsKept
<1> QED BY <1>4, <1>5, <1>6, <1>7, SettledMoved DEF w

\* And stays in an object, after a comma.
LEMMA PlacesStayed ==
  ASSUME IInv, IInv', Settled, Mirrors, pc = "return", pc' = "member",
         NEW q \in Int, pos <= q, q <= pos',
         tree' = AddComments(pos, q), commentsBefore' = Waiting(pos, q),
         UNCHANGED <<conf, doc, frames, lastValue, lastEnd>>,
         ~Mentions(Comments) => Depth(pos') = Depth(pos)
  PROVE  Settled' /\ Mirrors' /\ StaysIn
<1>1. pos \in Nat /\ pos' \in Nat /\ q \in Nat /\ q \in pos .. pos' /\ pos <= pos'
  BY Parts, PartsPrimed
<1>2. /\ DOMAIN tree' = DOMAIN tree
      /\ \A v \in DOMAIN tree : /\ Placed(tree', v) /\ SameOf(tree', v, q)
                                /\ tree'[v].before = tree[v].before
  BY <1>1, AddedIs
<1>3. StaysIn
  BY <1>1, <1>2 DEF StaysIn, Alike, Placed
<1>4. Carries(q, DOMAIN tree)
  <2>1. \A v \in DOMAIN tree : SameOf(tree', v, q) /\ BeforeOf(tree', v, q)
    BY <1>2 DEF BeforeOf
  <2> QED BY <1>1, <2>1, CarriesFrom
<1>5. Mirrors'
  BY MirrorsKept
<1> QED BY <1>3, <1>4, <1>5, SettledStayed

-----------------------------------------------------------------------------
(* The steps of the reader that do not fail.                               *)

LEMMA Weights ==
  /\ \A lex \in Literals \cup Strings \cup Numbers \cup {"NaN", ":", ","} :
       Weight(lex) = 0 /\ lex \notin {"open", "NUL", "?"}
  /\ Weight("{") = 1 /\ Weight("[") = 1 /\ Weight("}") = -1 /\ Weight("]") = -1
BY DEF Weight, Openers, Enders, Literals, Strings, Numbers

LEMMA TokenBetween ==
  ASSUME NEW t, NEW p \in 0 .. Len(doc), Len(doc) \in Nat, TokenAt(t, p)
  PROVE  /\ t.start \in Int /\ t.end \in Int /\ p <= t.start /\ t.start <= t.end
         /\ t.lex \notin {"open", "NUL", "?"} => t.start < t.end
BY DEF TokenAt

LEMMA ReadScalarPlaces ==
  ASSUME IInv, IInv', Settled, Mirrors, ReadScalar, ok'
  PROVE  /\ Settled' /\ Mirrors'
         /\ ReadsTop /\ tree'[Top].start = Token.start /\ tree'[Top].type = Token.lex
<1>1. /\ pc = "value" /\ commentsBefore' = {} /\ frames' = frames
      /\ Token.lex \in Literals \cup Strings \cup Numbers \cup {"NaN"}
  BY DEF ReadScalar, ReadValue
<1>2. Token.lex \notin Undecodable
  BY DEF ReadScalar, Return
<1>3. Return(SetOffsets(SwapPayload(Commented, Top, Token.lex), Top, Token.start, Token.end),
             Top, Token.end, TRUE)
  BY <1>2 DEF ReadScalar, Return, Top
<1>4. Token.lex \in Lexemes \cup {"object", "array"} /\ Token.start \in Int /\ Token.end \in Int
      /\ Token.start <= Token.end
  BY TokenIs
<1>5. Depth(Token.end) = Depth(pos)
  <2>1. Weight(Token.lex) = 0 /\ Token.lex \notin {"open", "NUL", "?"}
    BY <1>1, Weights
  <2>2. Depth(pos) \in Int /\ Depth(Token.end) = Depth(pos) + Weight(Token.lex)
    BY <2>1, Parts, Depths DEF Token
  <2> QED BY <2>1, <2>2
<1> QED BY <1>1, <1>3, <1>4, <1>5, PlacesRead

LEMMA DropNullPlaces ==
  ASSUME IInv, IInv', Settled, Mirrors, DropNull
  PROVE  Settled' /\ Mirrors'
<1>1. /\ pc = "value" /\ commentsBefore' = {} /\ frames' = frames
      /\ Return(SetOffsets(SwapPayload(Commented, Top, "null"), Top, Token.start - 1, Token.start),
                Top, Token.start, TRUE)
  BY DEF DropNull, ReadValue, Top
<1>2. Token.start \in Int /\ Token.start - 1 \in Int /\ Token.start - 1 <= Token.start
      /\ Token.start <= Token.start
  BY TokenIs
<1>3. Depth(Token.start) = Depth(pos)
  BY Parts, Depths DEF Token
<1>4. "null" \in Lexemes \cup {"object", "array"}
  BY DEF Lexemes, Literals
<1> QED BY <1>1, <1>2, <1>3, <1>4, PlacesRead

LEMMA BeginObjectPlaces ==
  ASSUME IInv, IInv', Settled, Mirrors, BeginObject
  PROVE  /\ Settled' /\ Mirrors' /\ tree'[Top].start = Token.start
         /\ OpensTop([kind |-> "object", key |-> <<"name", "empty">>])
<1> DEFINE f == [kind |-> "object", key |-> <<"name", "empty">>]
           t == [SwapPayload(Commented, Top, f.kind) EXCEPT ![Top].start = Token.start]
<1>1. /\ pc = "value" /\ commentsBefore' = {} /\ Token.lex = "{"
      /\ tree' = t /\ frames' = Append(frames, f) /\ pos' = Token.end /\ pc' = "member"
      /\ UNCHANGED <<conf, doc, lastValue, lastEnd>>
  BY DEF BeginObject, ReadValue, Top
<1>2. f \in Frame /\ f.kind = KindOf(f.key) /\ f.kind = "object"
  <2>1. <<"name", "empty">> \in Keys
    BY DEF Keys, Lexemes, Strings
  <2> QED BY <2>1 DEF Frame, KindOf
<1>3. Token.start < pos'
  BY <1>1, TokenIs
<1>4. Depth(pos') = Depth(pos) + 1
  BY <1>1, Parts, Depths, Weights DEF Token
<1>5. t = [SwapPayload(Commented, Top, f.kind) EXCEPT ![Top].start = Token.start]
  OBVIOUS
<1> HIDE DEF f, t
<1>6. Settled' /\ Mirrors' /\ OpensTop(f) /\ tree'[Top].start = Token.start
  BY <1>1, <1>2, <1>3, <1>4, <1>5, PlacesOpened
<1> QED BY <1>6 DEF f

LEMMA BeginArrayPlaces ==
  ASSUME IInv, IInv', Settled, Mirrors, BeginArray
  PROVE  /\ Settled' /\ Mirrors' /\ tree'[Top].start = Token.start
         /\ \/ ReadsTop /\ tree'[Top].type = "array"
            \/ OpensTop([kind |-> "array", key |-> <<"index", 0>>])
<1> DEFINE
  t == [SwapPayload(Commented, Top, "array") EXCEPT ![Top].start = Token.start]
  next == AnyToken(Token.end)
  f == [kind |-> "array", key |-> <<"index", 0>>]
<1>1. /\ pc = "value" /\ commentsBefore' = {} /\ Token.lex = "["
      /\ \/ /\ next.lex = "]" /\ frames' = frames
            /\ Return([t EXCEPT ![Top].limit = next.end], Top, next.end, TRUE)
         \/ /\ tree' = Resolve(t, Append(Top, f.key)) /\ frames' = Append(frames, f)
            /\ pos' = next.start /\ pc' = "value"
            /\ UNCHANGED <<conf, doc, lastValue, lastEnd>>
  BY DEF BeginArray, ReadValue, Top
<1>2. /\ Token.start \in Int /\ Token.end \in Int /\ Token.end \in 0 .. Len(doc)
      /\ Token.start < Token.end
  BY <1>1, TokenIs
<1>3. /\ next.start \in Int /\ next.end \in Int
      /\ Token.end <= next.start /\ next.start <= next.end
  BY <1>2, Parts, TokensAre DEF TokenAt
<1>4. Depth(pos) \in Int /\ Depth(Token.end) = Depth(pos) + 1
  BY <1>1, Parts, Depths, Weights DEF Token
<1>5. /\ Depth(next.start) = Depth(Token.end)
      /\ next.lex = "]" => Depth(next.end) = Depth(Token.end) + Weight(next.lex)
  BY <1>2, Depths
<1>6. SetOffsets(SwapPayload(Commented, Top, "array"), Top, Token.start, next.end)
        = [t EXCEPT ![Top].limit = next.end]
  BY DEF SetOffsets
<1>7. t = [SwapPayload(Commented, Top, f.kind) EXCEPT ![Top].start = Token.start]
  OBVIOUS
<1>8. f \in Frame /\ f.kind = KindOf(f.key) /\ f.key = <<"index", 0>>
  <2>1. <<"index", 0>> \in Keys
    BY DEF Keys
  <2> QED BY <2>1 DEF Frame, KindOf
<1> HIDE DEF t, next, f
<1>9. CASE /\ next.lex = "]" /\ frames' = frames
           /\ Return([t EXCEPT ![Top].limit = next.end], Top, next.end, TRUE)
  <2>1. Depth(next.end) = Depth(pos)
    <3>1. Weight(next.lex) = -1
      BY <1>9, Weights
    <3>2. Depth(next.end) = Depth(Token.end) + Weight(next.lex)
      BY <1>5, <1>9
    <3> QED BY <1>4, <3>1, <3>2
  <2>2. Token.start <= next.end
    BY <1>2, <1>3
  <2>3. Return(SetOffsets(SwapPayload(Commented, Top, "array"), Top, Token.start, next.end),
               Top, next.end, TRUE)
    BY <1>6, <1>9
  <2>4. "array" \in Lexemes \cup {"object", "array"}
    OBVIOUS
  <2> QED BY <1>1, <1>2, <1>3, <1>9, <2>1, <2>2, <2>3, <2>4, PlacesRead
<1>10. CASE /\ tree' = Resolve(t, Append(Top, f.key)) /\ frames' = Append(frames, f)
            /\ pos' = next.start /\ pc' = "value"
            /\ UNCHANGED <<conf, doc, lastValue, lastEnd>>
  <2>1. Token.start < pos' /\ Depth(pos') = Depth(pos) + 1
    BY <1>2, <1>3, <1>4, <1>5, <1>10
  <2>2. Settled' /\ Mirrors' /\ OpensTop(f) /\ tree'[Top].start = Token.start
    BY <1>1, <1>7, <1>8, <1>10, <2>1, PlacesOpened
  <2> QED BY <2>2 DEF f
<1> QED BY <1>1, <1>9, <1>10

\* A step that recovers from an error fails.
LEMMA Recovers ==
  ASSUME NEW from, NEW p, RecoverFromError(from, p)
  PROVE  ok' = FALSE
BY DEF RecoverFromError, CloseContainer, Return

\* A container is closed by the token that ends it.
LEMMA ClosedPlaces ==
  ASSUME IInv, IInv', Settled, Mirrors, pc \in {"member", "return"}, frames # <<>>,
         NEW token, token = CommentsSkipped(pos), token.lex \in {"}", "]"},
         CloseContainer(AddComments(pos, token.start), token.end, TRUE),
         commentsBefore' = Waiting(pos, token.start)
  PROVE  Settled' /\ Mirrors' /\ ClosesTop
<1>1. /\ pos \in Nat /\ TokenAt(token, pos) /\ Len(doc) \in Nat
  BY Facts
<1>2. token.start \in Int /\ token.end \in Int /\ pos <= token.start /\ token.start <= token.end
  BY <1>1, Facts, TokenBetween
<1>3. Depth(token.end) = Depth(pos) - 1
  <2>1. Weight(token.lex) = -1 /\ token.lex \notin {"open", "NUL", "?"}
    BY Weights
  <2>2. Depth(pos) \in Int /\ Depth(token.end) = Depth(pos) + Weight(token.lex)
    BY <2>1, Parts, Depths
  <2> QED BY <2>1, <2>2
<1> QED BY <1>2, <1>3, PlacesClosed

LEMMA ReadMemberPlaces ==
  ASSUME IInv, IInv', Settled, Mirrors, ReadMember, ok', pc' # "thrown"
  PROVE  /\ Settled' /\ Mirrors'
         /\ ClosesTop \/ MovesOn(<<"name", CommentsSkipped(pos).lex>>)
<1> DEFINE
  name  == CommentsSkipped(pos)
  colon == AnyToken(name.end)
  key   == <<"name", name.lex>>
<1>1. pc = "member" /\ frames # <<>> /\ Last(frames).kind = "object"
  BY ToParts DEF ReadMember, FramesOK
<1>2. \/ /\ name.lex = "}" /\ CloseContainer(AddComments(pos, name.start), name.end, TRUE)
         /\ commentsBefore' = Waiting(pos, name.start)
      \/ /\ tree' = Resolve(AddComments(pos, name.start), Append(Container, key))
         /\ commentsBefore' = Waiting(pos, name.start)
         /\ frames' = Rekey(frames, key)
         /\ pos' = colon.end /\ pc' = "value" /\ colon.lex = ":"
         /\ name.lex \in Strings \cup Numbers
         /\ UNCHANGED <<conf, doc, lastValue, lastEnd>>
  BY Recovers DEF ReadMember, Rekey
<1>3. CASE /\ name.lex = "}" /\ CloseContainer(AddComments(pos, name.start), name.end, TRUE)
           /\ commentsBefore' = Waiting(pos, name.start)
  BY <1>1, <1>3, ClosedPlaces
<1>4. CASE /\ tree' = Resolve(AddComments(pos, name.start), Append(Container, key))
           /\ commentsBefore' = Waiting(pos, name.start)
           /\ frames' = Rekey(frames, key)
           /\ pos' = colon.end /\ pc' = "value" /\ colon.lex = ":"
           /\ name.lex \in Strings \cup Numbers
           /\ UNCHANGED <<conf, doc, lastValue, lastEnd>>
  <2>1. key \in Keys /\ KindOf(key) = Last(frames).kind /\ key[1] = "name" /\ key[2] = name.lex
    <3>1. name.lex \in Lexemes
      BY <1>4 DEF Lexemes
    <3> QED BY <1>1, <3>1 DEF Keys, KindOf
  <2>2. name.lex \notin {"open", "NUL", "?"} /\ Weight(name.lex) = 0
    BY <1>4, Weights
  <2>3. /\ Lex(name.start) = name.lex /\ name.end = name.start + 1
        /\ pos \in Nat /\ Len(doc) \in Nat /\ name.start \in pos .. Len(doc)
        /\ name.start < Len(doc)
    BY <2>2, Parts, TokenText DEF CommentsSkipped
  <2>4. NameAt(name.start)
    BY <1>4, <2>3 DEF NameAt
  <2>5. name.end \in 0 .. Len(doc) /\ name.start \in Int /\ pos <= name.start
    BY <2>3
  <2>6. name.end <= colon.start /\ colon.start < colon.end /\ colon.start \in Int /\ colon.end \in Int
    <3>1. doc \in Seq(Lexemes) /\ Len(doc) \in Nat
      BY Parts
    <3>2. TokenAt(colon, name.end)
      BY <2>5, <3>1, TokensAre
    <3> HIDE DEF name, colon
    <3> QED BY <1>4, <2>5, <3>1, <3>2, TokenBetween
  <2>7. name.start < pos'
    BY <1>4, <2>3, <2>6
  <2>8. Depth(pos') = Depth(pos)
    <3>1. Depth(pos) \in Int /\ Depth(name.end) = Depth(pos) + Weight(name.lex)
      BY <2>2, Parts, Depths
    <3>2. Depth(colon.end) = Depth(name.end) + Weight(colon.lex)
      BY <1>4, <2>5, Depths
    <3>3. Weight(colon.lex) = 0
      BY <1>4, Weights
    <3> HIDE DEF name, colon
    <3> QED BY <1>4, <2>2, <3>1, <3>2, <3>3
  <2>9. \E i \in pos .. pos' - 1 : NameAt(i) /\ Lex(i) = key[2]
    <3>1. name.start \in pos .. pos' - 1
      BY <2>3, <2>7, PartsPrimed
    <3> QED BY <2>1, <2>3, <2>4, <3>1
  <2> HIDE DEF name, colon, key
  <2>10. key[1] # "index"
    BY <2>1
  <2>11. Settled' /\ Mirrors' /\ MovesOn(key)
    BY <1>1, <1>4, <2>1, <2>5, <2>7, <2>8, <2>9, <2>10, PlacesMoved
  <2> QED BY <2>11 DEF key, name
<1> QED BY <1>2, <1>3, <1>4

LEMMA AfterElementPlaces ==
  ASSUME IInv, IInv', Settled, Mirrors, AfterElement, ok'
  PROVE  /\ Settled' /\ Mirrors'
         /\ ClosesTop \/ MovesOn(<<"index", Last(frames).key[2] + 1>>)
<1> DEFINE
  token == CommentsSkipped(pos)
  key   == <<"index", Last(frames).key[2] + 1>>
<1>1. pc = "return" /\ frames # <<>> /\ Last(frames).kind = "array"
  BY DEF AfterElement
<1>2. \/ /\ token.lex = "]" /\ CloseContainer(AddComments(pos, token.start), token.end, TRUE)
         /\ commentsBefore' = Waiting(pos, token.start)
      \/ /\ tree' = Resolve(AddComments(pos, token.start), Append(Container, key))
         /\ commentsBefore' = Waiting(pos, token.start)
         /\ frames' = Rekey(frames, key)
         /\ pos' = token.end /\ pc' = "value" /\ token.lex = ","
         /\ UNCHANGED <<conf, doc, lastValue, lastEnd>>
  BY Recovers DEF AfterElement, Rekey
<1>3. CASE /\ token.lex = "]" /\ CloseContainer(AddComments(pos, token.start), token.end, TRUE)
           /\ commentsBefore' = Waiting(pos, token.start)
  BY <1>1, <1>3, ClosedPlaces
<1>4. CASE /\ tree' = Resolve(AddComments(pos, token.start), Append(Container, key))
           /\ commentsBefore' = Waiting(pos, token.start)
           /\ frames' = Rekey(frames, key)
           /\ pos' = token.end /\ pc' = "value" /\ token.lex = ","
           /\ UNCHANGED <<conf, doc, lastValue, lastEnd>>
  <2>1. /\ key \in Keys /\ KindOf(key) = Last(frames).kind
        /\ key[1] = "index" /\ key[2] = Last(frames).key[2] + 1
    <3>1. frames \in Seq(Frame) /\ FramesOK /\ Len(frames) \in DOMAIN frames
      BY <1>1, ToParts, Facts, LenProperties, EmptySeq DEF FramesTyped
    <3>2. Last(frames).key \in {"index"} \X Nat
      BY <1>1, <3>1 DEF FramesOK, Last
    <3>3. Last(frames).key[2] + 1 \in Nat
      BY <3>2
    <3> QED BY <1>1, <3>3 DEF Keys, KindOf
  <2>2. token.start \in Int /\ pos <= token.start /\ token.start < pos'
    <3>1. TokenAt(token, pos) /\ pos \in 0 .. Len(doc) /\ Len(doc) \in Nat
      BY Facts
    <3> HIDE DEF token
    <3> QED BY <1>4, <3>1, TokenBetween
  <2>3. Depth(pos') = Depth(pos)
    <3>1. Depth(pos) \in Int /\ Depth(token.end) = Depth(pos) + Weight(token.lex)
      BY <1>4, Parts, Depths
    <3>2. Weight(token.lex) = 0
      BY <1>4, Weights
    <3>3. Depth(token.end) = Depth(pos)
      BY <3>1, <3>2
    <3>4. pos' = token.end
      BY <1>4
    <3> HIDE DEF token
    <3> QED BY <3>3, <3>4
  <2> HIDE DEF token, key
  <2>4. key[1] # "name"
    BY <2>1
  <2>5. Settled' /\ Mirrors' /\ MovesOn(key)
    BY <1>1, <1>4, <2>1, <2>2, <2>3, <2>4, PlacesMoved
  <2> QED BY <2>5 DEF key
<1> QED BY <1>2, <1>3, <1>4

LEMMA AfterMemberPlaces ==
  ASSUME IInv, IInv', Settled, Mirrors, AfterMember, ok'
  PROVE  /\ Settled' /\ Mirrors'
         /\ ClosesTop \/ StaysIn
<1> DEFINE
  first == AnyToken(pos)
  comma == CommentsSkipped(pos)
<1>1. pc = "return" /\ frames # <<>>
  BY DEF AfterMember
<1>2. \/ /\ comma.lex = "}" /\ CloseContainer(AddComments(pos, comma.start), comma.end, TRUE)
         /\ commentsBefore' = Waiting(pos, comma.start)
      \/ /\ first.lex \in {","} \cup Comments
         /\ tree' = AddComments(pos, comma.start) /\ pos' = comma.end /\ pc' = "member"
         /\ commentsBefore' = Waiting(pos, comma.start)
         /\ UNCHANGED <<conf, doc, frames, lastValue, lastEnd>>
  BY Recovers DEF AfterMember
<1>3. CASE /\ comma.lex = "}" /\ CloseContainer(AddComments(pos, comma.start), comma.end, TRUE)
           /\ commentsBefore' = Waiting(pos, comma.start)
  BY <1>1, <1>3, ClosedPlaces
<1>4. CASE /\ first.lex \in {","} \cup Comments
           /\ tree' = AddComments(pos, comma.start) /\ pos' = comma.end /\ pc' = "member"
           /\ commentsBefore' = Waiting(pos, comma.start)
           /\ UNCHANGED <<conf, doc, frames, lastValue, lastEnd>>
  <2>1. comma.start \in Int /\ pos <= comma.start /\ comma.start <= pos'
    <3>1. TokenAt(comma, pos) /\ pos \in 0 .. Len(doc) /\ Len(doc) \in Nat
      BY Facts
    <3> HIDE DEF comma
    <3> QED BY <1>4, <3>1, TokenBetween
  <2>2. ASSUME ~Mentions(Comments) PROVE Depth(pos') = Depth(pos)
    <3>1. comma = first /\ first.lex = ","
      BY <1>4, <2>2, Parts, NoComments
    <3>2. Depth(pos) \in Int /\ Depth(comma.end) = Depth(pos) + Weight(comma.lex)
      BY <3>1, Parts, Depths
    <3>3. Weight(comma.lex) = 0
      BY <3>1, Weights
    <3>4. Depth(comma.end) = Depth(pos)
      BY <3>2, <3>3
    <3>5. pos' = comma.end
      BY <1>4
    <3> HIDE DEF comma, first
    <3> QED BY <3>4, <3>5
  <2> HIDE DEF first, comma
  <2> QED BY <1>1, <1>4, <2>1, <2>2, PlacesStayed
<1> QED BY <1>2, <1>3, <1>4

-----------------------------------------------------------------------------
(* What parse() leaves behind.                                             *)

LEMMA AfterSet ==
  ASSUME NEW t, TreeOK(t), NEW v \in DOMAIN t, NEW after,
         NEW u, u = [t EXCEPT ![v].after = after]
  PROVE  /\ DOMAIN u = DOMAIN t
         /\ \A w \in DOMAIN t :
              /\ u[w].type = t[w].type /\ u[w].start = t[w].start /\ u[w].limit = t[w].limit
              /\ u[w].same = t[w].same /\ u[w].before = t[w].before
<1> DEFINE node == [t[v] EXCEPT !.after = after]
<1>1. t[v] \in Nodes
  BY DEF TreeOK
<1>2. /\ node.start = t[v].start /\ node.limit = t[v].limit /\ node.type = t[v].type
      /\ node.same = t[v].same /\ node.before = t[v].before
  BY <1>1 DEF Nodes
<1>3. u = [t EXCEPT ![v] = node]
  OBVIOUS
<1> HIDE DEF node
<1>4. u[v] = node /\ DOMAIN u = DOMAIN t /\ \A w \in DOMAIN t : w # v => u[w] = t[w]
  BY <1>3
<1>5. ASSUME NEW w \in DOMAIN t
      PROVE  /\ u[w].type = t[w].type /\ u[w].start = t[w].start /\ u[w].limit = t[w].limit
             /\ u[w].same = t[w].same /\ u[w].before = t[w].before
  BY <1>2, <1>4
<1> QED BY <1>4, <1>5

\* Once the root has been read, nothing is open or stale.
LEMMA AllComplete ==
  ASSUME IInv, pc = "return", frames = <<>>
  PROVE  \A v \in DOMAIN tree : Complete(v)
<1>1. ASSUME NEW v \in DOMAIN tree PROVE Complete(v)
  <2>1. Len(v) \in Nat /\ Len(frames) = 0
    BY Parts, PathOfTree, EmptySeq
  <2> QED BY <2>1 DEF Complete, Open, Stale
<1> QED BY <1>1

LEMMA FinishParsePlaces ==
  ASSUME IInv, IInv', PlacesOK, FinishParse
  PROVE  RangesNest' /\ CommentsAreNear'
<1> SUFFICES ASSUME ok' PROVE RangesNest' /\ CommentsAreNear'
  BY DEF RangesNest, CommentsAreNear, Accepted
<1> DEFINE
  token == ValueToken(pos)
  t     == AddComments(pos, token.start)
  u     == [t EXCEPT ![<<>>].after = Waiting(pos, token.start)]
<1>1. /\ pc = "return" /\ frames = <<>> /\ ok
      /\ tree' = t \/ tree' = u
      /\ pos' = token.end /\ pc' = "done" /\ commentsBefore' = Waiting(pos, token.start)
      /\ conf' = conf /\ doc' = doc
  BY DEF FinishParse
<1>2. KindsOK /\ RangesOK /\ ElementsOK /\ CommentsOK
  BY <1>1 DEF PlacesOK
<1>3. /\ token.start \in Nat /\ pos <= token.start /\ token.start <= pos'
      /\ pos \in Nat /\ pos' \in Int
  BY <1>1, TokenIs DEF Token
<1> HIDE DEF token
<1>4. /\ TreeOK(t) /\ DOMAIN t = DOMAIN tree
      /\ \A v \in DOMAIN tree : /\ Placed(t, v) /\ SameOf(t, v, token.start)
                                /\ t[v].before = tree[v].before
  BY <1>3, AddedIs
<1>5. <<>> \in DOMAIN tree
  <2>1. OpenValuesOK /\ Len(frames) = 0
    BY <1>1, Parts, EmptySeq
  <2> QED BY <1>1, <2>1, EmptyPath DEF OpenValuesOK
<1> HIDE DEF t
<1>6. /\ DOMAIN tree' = DOMAIN t
      /\ \A v \in DOMAIN t :
           /\ tree'[v].type = t[v].type /\ tree'[v].start = t[v].start /\ tree'[v].limit = t[v].limit
           /\ tree'[v].same = t[v].same /\ tree'[v].before = t[v].before
  <2>1. CASE tree' = t
    BY <2>1
  <2>2. CASE tree' = u
    BY <1>4, <1>5, <2>2, AfterSet
  <2> QED BY <1>1, <2>1, <2>2
<1>7. /\ DOMAIN tree' = DOMAIN tree /\ Below' = Below
      /\ \A v \in DOMAIN tree : /\ tree'[v].type = tree[v].type
                                /\ tree'[v].start = tree[v].start
                                /\ tree'[v].limit = tree[v].limit
                                /\ SameOf(tree', v, token.start)
                                /\ BeforeOf(tree', v, token.start)
  <2>1. ASSUME NEW v \in DOMAIN tree
        PROVE  /\ tree'[v].type = tree[v].type /\ tree'[v].start = tree[v].start
               /\ tree'[v].limit = tree[v].limit
               /\ SameOf(tree', v, token.start) /\ BeforeOf(tree', v, token.start)
    BY <1>4, <1>6 DEF Placed, SameOf, BeforeOf
  <2> QED BY <1>4, <1>6, <2>1 DEF Below
<1>8. \A v \in DOMAIN tree : Complete(v)
  BY <1>1, AllComplete
<1>9. \A v \in Below : v \in DOMAIN tree /\ Front(v) \in DOMAIN tree /\ ~Stale(v)
  BY <1>2, <1>8 DEF KindsOK, Complete, Below
<1>10. RangesNest'
  <2>1. ASSUME NEW v \in Below
        PROVE  /\ tree'[Front(v)].start <= tree'[v].start /\ tree'[v].start <= tree'[v].limit
               /\ tree'[v].limit <= tree'[Front(v)].limit
               /\ \A w \in Below : Precedes(v, w) => tree'[v].limit <= tree'[w].start
    <3>1. /\ v \in DOMAIN tree /\ Front(v) \in DOMAIN tree /\ ~Stale(v)
          /\ Complete(v) /\ Complete(Front(v))
      BY <1>8, <1>9
    <3>2. /\ tree[Front(v)].start <= tree[v].start /\ tree[v].start <= tree[v].limit
          /\ tree[v].limit <= tree[Front(v)].limit
      BY <1>2, <3>1 DEF RangesOK
    <3>3. ASSUME NEW w \in Below, Precedes(v, w) PROVE tree'[v].limit <= tree'[w].start
      <4>1. tree[v].limit <= tree[w].start
        BY <1>2, <1>9, <3>3 DEF ElementsOK
      <4> QED BY <1>7, <1>9, <4>1
    <3> QED BY <1>7, <3>1, <3>2, <3>3
  <2> QED BY <1>7, <2>1 DEF RangesNest, Precedes
<1>11. Carries(token.start, DOMAIN tree)
  <2>1. token.start \in pos .. pos'
    BY <1>3
  <2> QED BY <1>1, <1>7, <2>1, CarriesFrom
<1>12. CommentsAreNear'
  <2>1. NoNameRepeats' <=> NoNameRepeats
    BY <1>1, TextSame
  <2>2. ASSUME NoNameRepeats, NEW v \in DOMAIN tree PROVE CommentsNear(v)'
    BY <1>1, <1>2, <1>7, <1>11, <2>2, NearKept
  <2> QED BY <1>7, <2>1, <2>2 DEF CommentsAreNear
<1> QED BY <1>10, <1>12

-----------------------------------------------------------------------------
(* The beginning, and what does not read.                                  *)

LEMMA IdleTree ==
  ASSUME Idle, pc = "value"
  PROVE  /\ DOMAIN tree = {<<>>} /\ tree[<<>>] = Null /\ Below = {} /\ DOMAIN frames = {}
         /\ Path(frames) = <<>> /\ Len(frames) = 0 /\ Stale(<<>>) /\ ~Open(<<>>)
<1>1. frames = <<>> /\ tree = [v \in {<<>>} |-> Null]
  BY DEF Idle
<1>2. frames \in Seq(Frame) /\ Len(frames) = 0 /\ DOMAIN frames = {} /\ <<>> \in Seq(Keys)
  BY <1>1, EmptySeq
<1>3. Path(frames) = <<>>
  <2>1. 0 \in 0 .. Len(frames)
    BY <1>2
  <2>2. Path(frames) = PathTo(frames, Len(frames))
    BY <1>2, <2>1, PathsAre
  <2> QED BY <1>1, <1>2, <2>2, EmptyPath
<1>4. Stale(<<>>)
  BY <1>2, <1>3, PrefixOfItself DEF Stale
<1>5. ~Open(<<>>)
  BY <1>2, EmptySeq DEF Open
<1> QED BY <1>1, <1>2, <1>3, <1>4, <1>5 DEF Below

LEMMA NoneOpen == Depth(0) = 0
<1>1. {i \in 1 .. 0 : doc[i] \in {"{", "["}} = {} /\ {i \in 1 .. 0 : doc[i] \in {"}", "]"}} = {}
  OBVIOUS
<1> QED BY <1>1, FS_EmptySet DEF Depth, Count

LEMMA IdlePlaces == (Idle /\ pc = "value") => PlacesOK
<1> SUFFICES ASSUME Idle, pc = "value" PROVE PlacesOK
  OBVIOUS
<1>1. /\ DOMAIN tree = {<<>>} /\ tree[<<>>] = Null /\ Below = {} /\ DOMAIN frames = {}
      /\ Path(frames) = <<>> /\ Len(frames) = 0 /\ Stale(<<>>) /\ ~Open(<<>>)
  BY IdleTree
<1>2. Len(frames) = Depth(pos)
  BY <1>1, NoneOpen DEF Idle
<1>3. KindsOK
  BY <1>1 DEF KindsOK
<1>4. RangesOK
  BY <1>1 DEF RangesOK, Complete
<1>5. ElementsOK
  BY <1>1 DEF ElementsOK
<1>6. CommentsOK
  <2>1. lastEnd <= pos /\ commentsBefore = {} /\ lastValue = {}
    BY DEF Idle
  <2>2. Null.before = {} /\ Null.same = {}
    BY DEF Null
  <2>3. \A v \in DOMAIN tree : CommentsNear(v) /\ tree[v].same = {}
    BY <1>1, <2>2 DEF CommentsNear
  <2> QED BY <1>1, <2>1, <2>3 DEF CommentsOK
<1> QED BY <1>2, <1>3, <1>4, <1>5, <1>6 DEF PlacesOK

LEMMA IdlePlacesNext == (Idle /\ pc = "value")' => PlacesOK'
BY IdlePlaces, PTL

LEMMA PlacesUnchanged ==
  ASSUME PlacesOK, RangesNest, CommentsAreNear, UNCHANGED vars
  PROVE  PlacesOK' /\ RangesNest' /\ CommentsAreNear'
<1> USE DEF vars
<1>1. /\ \A v : Open(v)' <=> Open(v)
      /\ \A v : Stale(v)' <=> Stale(v)
      /\ \A v : Complete(v)' <=> Complete(v)
  BY DEF Open, Stale, Complete, Path, PathTo
<1>2. Below' = Below
  BY DEF Below
<1>3. /\ \A i : Lex(i)' = Lex(i) /\ (NameAt(i)' <=> NameAt(i))
      /\ NoNameRepeats' <=> NoNameRepeats
      /\ \A p, i : ContainsNewLine(p, i)' <=> ContainsNewLine(p, i)
  BY TextSame
<1>4. KindsOK' <=> KindsOK
  BY DEF KindsOK, Below, PathTo
<1>5. RangesOK' <=> RangesOK
  BY <1>1, <1>2 DEF RangesOK
<1>6. ElementsOK' <=> ElementsOK
  BY <1>1, <1>2 DEF ElementsOK, PathTo
<1>7. ASSUME NEW v PROVE CommentsNear(v)' <=> CommentsNear(v)
  BY <1>3 DEF CommentsNear, InText
<1>8. CommentsOK' <=> CommentsOK
  BY <1>1, <1>2, <1>3, <1>7 DEF CommentsOK, Path
<1>9. Depth(pos)' = Depth(pos) /\ (Mentions(Comments)' <=> Mentions(Comments))
  BY DEF Depth, Count, Mentions, Comments, LineComments
<1>10. PlacesOK'
  BY <1>4, <1>5, <1>6, <1>8, <1>9 DEF PlacesOK
<1>11. RangesNest'
  BY <1>2 DEF RangesNest, Accepted
<1>12. CommentsAreNear'
  BY <1>3, <1>7 DEF CommentsAreNear, Accepted
<1> QED BY <1>10, <1>11, <1>12

LEMMA NotReading ==
  ASSUME pc' \in {"pushed", "thrown"}
  PROVE  PlacesOK' /\ RangesNest' /\ CommentsAreNear'
BY DEF PlacesOK, RangesNest, CommentsAreNear, Accepted

LEMMA StillReading ==
  ASSUME pc' \in {"value", "member", "return"}, ok' => Settled' /\ Mirrors'
  PROVE  PlacesOK' /\ RangesNest' /\ CommentsAreNear'
<1>1. PlacesOK'
  BY DEF PlacesOK, Settled, Mirrors
<1> QED BY <1>1 DEF RangesNest, CommentsAreNear, Accepted

LEMMA StepPlaces ==
  ASSUME IInv, IInv', PlacesOK, Step
  PROVE  PlacesOK' /\ RangesNest' /\ CommentsAreNear'
<1>1. ok /\ pc \in {"value", "member", "return"} => Settled /\ Mirrors
  BY DEF PlacesOK, Settled, Mirrors
<1>2. CASE ExceedStackLimit
  BY <1>2, NotReading DEF ExceedStackLimit
<1>3. CASE ReadScalar
  <2>1. pc = "value" /\ pc' = "return"
    BY <1>3 DEF ReadScalar, ReadValue, Return
  <2> QED BY <1>1, <1>3, <2>1, FailedBefore, ReadScalarPlaces, StillReading
<1>4. CASE BeginObject
  <2>1. pc = "value" /\ pc' = "member"
    BY <1>4 DEF BeginObject, ReadValue
  <2> QED BY <1>1, <1>4, <2>1, FailedBefore, BeginObjectPlaces, StillReading
<1>5. CASE BeginArray
  <2>1. pc = "value" /\ pc' \in {"return", "value"}
    BY <1>5 DEF BeginArray, ReadValue, Return
  <2> QED BY <1>1, <1>5, <2>1, FailedBefore, BeginArrayPlaces, StillReading
<1>6. CASE DropNull
  <2>1. pc = "value" /\ pc' = "return"
    BY <1>6 DEF DropNull, ReadValue, Return
  <2> QED BY <1>1, <1>6, <2>1, FailedBefore, DropNullPlaces, StillReading
<1>7. CASE SyntaxError
  <2>1. pc' = "return" /\ ~ok'
    BY <1>7 DEF SyntaxError
  <2> QED BY <2>1, StillReading
<1>8. CASE ReadMember
  <2>1. pc = "member" /\ pc' \in {"return", "value", "thrown"}
    BY <1>8 DEF ReadMember, RecoverFromError, CloseContainer, Return
  <2>2. CASE pc' = "thrown"
    BY <2>2, NotReading
  <2>3. CASE pc' # "thrown"
    BY <1>1, <1>8, <2>1, <2>3, FailedBefore, ReadMemberPlaces, StillReading
  <2> QED BY <2>2, <2>3
<1>9. CASE AfterMember
  <2>1. pc = "return" /\ ok /\ pc' \in {"return", "member"}
    BY <1>9 DEF AfterMember, RecoverFromError, CloseContainer, Return
  <2> QED BY <1>1, <1>9, <2>1, AfterMemberPlaces, StillReading
<1>10. CASE AfterElement
  <2>1. pc = "return" /\ ok /\ pc' \in {"return", "value"}
    BY <1>10 DEF AfterElement, RecoverFromError, CloseContainer, Return
  <2> QED BY <1>1, <1>10, <2>1, AfterElementPlaces, StillReading
<1>11. CASE AfterFailure
  <2>1. pc' = "return" /\ ~ok'
    BY <1>11 DEF AfterFailure, RecoverFromError, CloseContainer, Return
  <2> QED BY <2>1, StillReading
<1>12. CASE FinishParse
  <2>1. PlacesOK'
    BY <1>12 DEF FinishParse, PlacesOK
  <2> QED BY <1>12, <2>1, FinishParsePlaces
<1> QED BY <1>2, <1>3, <1>4, <1>5, <1>6, <1>7, <1>8, <1>9, <1>10, <1>11, <1>12 DEF Step

\* The places as an invariant of the reader.
THEOREM PlacesKept == Spec => [](PlacesOK /\ RangesNest /\ CommentsAreNear)
<1> DEFINE Places == PlacesOK /\ RangesNest /\ CommentsAreNear
<1>1. Init => Places
  <2> SUFFICES ASSUME Init PROVE Places
    OBVIOUS
  <2>1. PlacesOK
    BY IdlePlaces DEF Init
  <2> QED BY <2>1 DEF Init, RangesNest, CommentsAreNear, Accepted
<1>2. IInv /\ IInv' /\ Places /\ [Next]_vars => Places'
  <2> SUFFICES ASSUME IInv, IInv', Places, [Next]_vars PROVE Places'
    OBVIOUS
  <2>1. ASSUME NEW d \in Reparsed, Parse(d) PROVE Places'
    <3>1. Idle' /\ pc' = "value"
      BY <2>1 DEF Parse, Idle
    <3>2. PlacesOK'
      BY <3>1, IdlePlacesNext
    <3> QED BY <3>1, <3>2 DEF RangesNest, CommentsAreNear, Accepted
  <2>2. ASSUME NEW v \in DOMAIN tree, NEW extra \in DOMAIN tree,
               PushError(v) \/ PushErrorWithExtra(v, extra)
        PROVE  Places'
    <3>1. pc' = "pushed"
      BY <2>2 DEF PushError, PushErrorWithExtra, PushErrorToken
    <3> QED BY <3>1, NotReading
  <2>3. CASE Step
    BY <2>3, StepPlaces
  <2>4. CASE UNCHANGED vars
    BY <2>4, PlacesUnchanged
  <2> QED BY <2>1, <2>2, <2>3, <2>4 DEF Next
<1> QED BY <1>1, <1>2, Invariant, PTL DEF Spec

\* PLACES ARE RIGHT: on every text, of any size and nesting, what is on the
\* stack mirrors the brackets that are open, the ranges of an accepted document
\* nest as its values do, and, where no name repeats, the comments kept with a
\* value lie where they were written.
THEOREM PlacesRight == Spec => []PlacesAreRight
<1>1. (IInv /\ PlacesOK /\ RangesNest /\ CommentsAreNear) => PlacesAreRight
  <2> SUFFICES ASSUME IInv, PlacesOK, RangesNest, CommentsAreNear PROVE StackMirrorsText
    BY DEF PlacesAreRight
  <2> QED BY FailedBefore DEF StackMirrorsText, PlacesOK
<1> QED BY <1>1, Invariant, PlacesKept, PTL

-----------------------------------------------------------------------------
(* The text around a place: what is before it and what it is in.           *)

LEMMA MaxIs ==
  ASSUME NEW n \in Nat, NEW T \in SUBSET (0 .. n - 1)
  PROVE  /\ Max({-1} \cup T) \in {-1} \cup T /\ Max({-1} \cup T) \in -1 .. n - 1
         /\ \A y \in T : y <= Max({-1} \cup T)
<1>1. \E m \in {-1} \cup T : \A y \in {-1} \cup T : m >= y
  <2>1. CASE T = {}
    BY <2>1
  <2>2. CASE T # {}
    <3>1. T \in SUBSET (0 .. n)
      OBVIOUS
    <3>2. PICK x \in T : \A y \in T : y <= x
      BY <2>2, <3>1, Greatest
    <3>3. x >= -1 /\ \A y \in T : x >= y
      BY <3>1, <3>2
    <3> QED BY <3>3
  <2> QED BY <2>1, <2>2
<1>2. /\ Max({-1} \cup T) \in {-1} \cup T
      /\ \A y \in {-1} \cup T : Max({-1} \cup T) >= y
  BY <1>1 DEF Max
<1> HIDE DEF Max
<1>3. Max({-1} \cup T) \in -1 .. n - 1
  <2>1. CASE Max({-1} \cup T) = -1
    BY <2>1
  <2>2. CASE Max({-1} \cup T) \in T
    <3>1. Max({-1} \cup T) \in 0 .. n - 1
      BY <2>2
    <3> QED BY <3>1
  <2> QED BY <1>2, <2>1, <2>2
<1>4. ASSUME NEW y \in T PROVE y <= Max({-1} \cup T)
  BY <1>2, <1>3
<1> QED BY <1>2, <1>3, <1>4

LEMMA MaxUnique ==
  ASSUME NEW n \in Nat, NEW T \in SUBSET (0 .. n - 1), NEW m \in {-1} \cup T, \A y \in T : y <= m
  PROVE  Max({-1} \cup T) = m
<1> DEFINE x == Max({-1} \cup T)
<1>1. x \in {-1} \cup T /\ x \in -1 .. n - 1 /\ \A y \in T : y <= x
  BY MaxIs
<1> HIDE DEF x
<1>2. m <= x
  BY <1>1
<1>3. x <= m
  BY <1>1
<1>4. x \in Int /\ m \in Int
  BY <1>1
<1> QED BY <1>2, <1>3, <1>4 DEF x

LEMMA PriorIs ==
  ASSUME NEW p \in Nat
  PROVE  /\ Prior(p) \in -1 .. p - 1 /\ (Prior(p) # -1 => Lex(Prior(p)) \notin Blanks)
         /\ \A i \in 0 .. p - 1 : Lex(i) \notin Blanks => i <= Prior(p)
<1> DEFINE T == {i \in 0 .. p - 1 : Lex(i) \notin Blanks}
<1>1. T \in SUBSET (0 .. p - 1) /\ Prior(p) = Max({-1} \cup T)
  BY DEF Prior
<1>2. /\ Prior(p) \in {-1} \cup T /\ Prior(p) \in -1 .. p - 1 /\ \A y \in T : y <= Prior(p)
  BY <1>1, MaxIs
<1> QED BY <1>2

LEMMA PriorUnique ==
  ASSUME NEW p \in Nat, NEW m \in -1 .. p - 1, m # -1 => Lex(m) \notin Blanks,
         \A i \in 0 .. p - 1 : Lex(i) \notin Blanks => i <= m
  PROVE  Prior(p) = m
<1> DEFINE T == {i \in 0 .. p - 1 : Lex(i) \notin Blanks}
<1>1. T \in SUBSET (0 .. p - 1) /\ Prior(p) = Max({-1} \cup T)
  BY DEF Prior
<1>2. m \in {-1} \cup T /\ \A y \in T : y <= m
  OBVIOUS
<1> HIDE DEF T
<1> QED BY <1>1, <1>2, MaxUnique

LEMMA HolderIs ==
  ASSUME NEW p \in Nat
  PROVE  /\ Holder(p) \in -1 .. p - 1 /\ (Holder(p) # -1 => Depth(Holder(p)) < Depth(p))
         /\ \A i \in 0 .. p - 1 : Depth(i) < Depth(p) => i <= Holder(p)
<1> DEFINE T == {i \in 0 .. p - 1 : Depth(i) < Depth(p)}
<1>1. T \in SUBSET (0 .. p - 1) /\ Holder(p) = Max({-1} \cup T)
  BY DEF Holder
<1>2. /\ Holder(p) \in {-1} \cup T /\ Holder(p) \in -1 .. p - 1 /\ \A y \in T : y <= Holder(p)
  BY <1>1, MaxIs
<1> QED BY <1>2

LEMMA HolderUnique ==
  ASSUME NEW p \in Nat, NEW m \in -1 .. p - 1, m # -1 => Depth(m) < Depth(p),
         \A i \in 0 .. p - 1 : Depth(i) < Depth(p) => i <= m
  PROVE  Holder(p) = m
<1> DEFINE T == {i \in 0 .. p - 1 : Depth(i) < Depth(p)}
<1>1. T \in SUBSET (0 .. p - 1) /\ Holder(p) = Max({-1} \cup T)
  BY DEF Holder
<1>2. m \in {-1} \cup T /\ \A y \in T : y <= m
  OBVIOUS
<1> HIDE DEF T
<1> QED BY <1>1, <1>2, MaxUnique

\* From p to q, over what is blank.
BlankTo(p, q) == p <= q /\ \A j \in p .. q - 1 : Lex(j) \in Blanks
SamePlace(p, q)  == Prior(q) = Prior(p) /\ Holder(q) = Holder(p)

LEMMA PriorOver ==
  ASSUME NEW p \in Nat, NEW q \in Nat, BlankTo(p, q)
  PROVE  Prior(q) = Prior(p)
<1>1. /\ Prior(p) \in -1 .. p - 1 /\ (Prior(p) # -1 => Lex(Prior(p)) \notin Blanks)
      /\ \A i \in 0 .. p - 1 : Lex(i) \notin Blanks => i <= Prior(p)
  BY PriorIs
<1>2. Prior(p) \in -1 .. q - 1
  BY <1>1 DEF BlankTo
<1>3. ASSUME NEW i \in 0 .. q - 1, Lex(i) \notin Blanks PROVE i <= Prior(p)
  <2>1. i \notin p .. q - 1
    BY <1>3 DEF BlankTo
  <2>2. i \in 0 .. p - 1
    BY <2>1
  <2> QED BY <1>1, <1>3, <2>2
<1> QED BY <1>1, <1>2, <1>3, PriorUnique

LEMMA PriorNext ==
  ASSUME NEW i \in Nat, Lex(i) \notin Blanks
  PROVE  Prior(i + 1) = i
<1>1. i \in -1 .. (i + 1) - 1 /\ \A j \in 0 .. (i + 1) - 1 : j <= i
  OBVIOUS
<1> QED BY <1>1, PriorUnique

\* Where no bracket that is open at p is closed before q, or opened and left open.
LEMMA HolderOver ==
  ASSUME NEW p \in Nat, NEW q \in Nat, p <= q, Depth(q) = Depth(p),
         \A r \in p .. q : Depth(r) >= Depth(p)
  PROVE  Holder(q) = Holder(p)
<1>1. /\ Holder(p) \in -1 .. p - 1 /\ (Holder(p) # -1 => Depth(Holder(p)) < Depth(p))
      /\ \A i \in 0 .. p - 1 : Depth(i) < Depth(p) => i <= Holder(p)
  BY HolderIs
<1>2. Holder(p) \in -1 .. q - 1
  BY <1>1
<1>3. ASSUME NEW i \in 0 .. q - 1, Depth(i) < Depth(q) PROVE i <= Holder(p)
  <2>1. Depth(i) < Depth(p) /\ Depth(i) \in Int /\ Depth(p) \in Int
    BY <1>3, DepthIs
  <2>2. i \notin p .. q
    BY <2>1
  <2>3. i \in 0 .. p - 1
    BY <2>2
  <2> QED BY <1>1, <2>1, <2>3
<1> QED BY <1>1, <1>2, <1>3, HolderUnique

LEMMA DepthLex ==
  ASSUME NEW n \in Nat, n < Len(doc)
  PROVE  Depth(n + 1) = Depth(n) + Weight(Lex(n)) /\ Depth(n) \in Int
<1>1. Lex(n) = doc[n + 1]
  BY DEF Lex
<1> QED BY <1>1, DepthNext, DepthIs

LEMMA DepthBlank ==
  ASSUME Len(doc) \in Nat, NEW p \in Nat, NEW q \in Nat, BlankTo(p, q), NEW r \in p .. q
  PROVE  Depth(r) = Depth(p)
<1>1. ASSUME NEW j \in p .. r - 1 PROVE doc[j + 1] \notin {"{", "["} /\ doc[j + 1] \notin {"}", "]"}
  <2>1. j \in p .. q - 1
    OBVIOUS
  <2>2. Lex(j) \in Blanks
    BY <2>1 DEF BlankTo
  <2>3. doc[j + 1] \in Blanks
    BY <2>2 DEF Lex, Blanks
  <2> QED BY <2>3 DEF Blanks
<1>2. r \in Nat /\ p <= r
  OBVIOUS
<1>3. Count({"{", "["}, r) = Count({"{", "["}, p)
  BY <1>1, <1>2, CountSkip
<1>4. Count({"}", "]"}, r) = Count({"}", "]"}, p)
  BY <1>1, <1>2, CountSkip
<1> QED BY <1>3, <1>4 DEF Depth

LEMMA OverBlanks ==
  ASSUME Len(doc) \in Nat, NEW p \in Nat, NEW q \in Nat, BlankTo(p, q)
  PROVE  SamePlace(p, q) /\ Depth(q) = Depth(p) /\ \A r \in p .. q : Depth(r) = Depth(p)
<1>1. \A r \in p .. q : Depth(r) = Depth(p)
  BY DepthBlank
<1>2. p <= q /\ q \in p .. q /\ Depth(p) \in Int
  BY DepthIs DEF BlankTo
<1>3. Holder(q) = Holder(p)
  BY <1>1, <1>2, HolderOver
<1> QED BY <1>1, <1>2, <1>3, PriorOver DEF SamePlace

\* What comes next is the same at both.
LEMMA AlikeWants ==
  ASSUME NEW p, NEW q, SamePlace(p, q)
  PROVE  /\ Previous(q) = Previous(p) /\ Around(q) = Around(p) /\ Holder(q) = Holder(p)
         /\ WantsName(q) <=> WantsName(p)
         /\ WantsValue(q) <=> WantsValue(p)
         /\ WantsColon(q) <=> WantsColon(p)
         /\ ValueEnds(q) <=> ValueEnds(p)
         /\ NameBefore(q) = NameBefore(p)
<1>1. Previous(q) = Previous(p) /\ Around(q) = Around(p) /\ Holder(q) = Holder(p)
  BY DEF SamePlace, Previous, Around
<1>2. WantsColon(q) <=> WantsColon(p)
  BY DEF SamePlace, WantsColon
<1>3. NameBefore(q) = NameBefore(p)
  BY DEF SamePlace, NameBefore
<1> QED BY <1>1, <1>2, <1>3 DEF WantsName, WantsValue, ValueEnds

-----------------------------------------------------------------------------
(* What was read fits, and the brackets that are open are those on the     *)
(* stack.                                                                  *)

LEMMA BlanksAreNothing ==
  \A lex \in Blanks : lex \notin Names /\ lex \notin Scalars \cup Openers
BY DEF Blanks, Names, Scalars, Openers, Strings, Numbers, Literals

LEMMA FitsSkip ==
  ASSUME NEW n \in Nat, NEW m \in Nat, BlankTo(n, m), FitsBefore(n)
  PROVE  FitsBefore(m)
<1>1. \A j \in 0 .. m - 1 : j \in 0 .. n - 1 \/ (j \notin 0 .. n - 1 /\ j \in n .. m - 1)
  BY DEF BlankTo
<1>2. \A j \in n .. m - 1 : Lex(j) \in Blanks
  BY DEF BlankTo
<1>3. \A j \in n .. m - 1 : Fits(j) /\ ~IsName(j)
  BY <1>2, BlanksAreNothing DEF Fits, IsName
<1>4. \A j \in 0 .. m - 1 : Fits(j)
  BY <1>1, <1>3 DEF FitsBefore
<1>5. \A j \in 0 .. m - 1 : IsName(j) => j \in 0 .. n - 1
  BY <1>1, <1>3
<1>6. NamesDiffer(m)
  BY <1>5 DEF FitsBefore, NamesDiffer
<1> QED BY <1>4, <1>6 DEF FitsBefore

LEMMA FitsOver ==
  ASSUME NEW n \in Nat, FitsBefore(n), Fits(n),
         IsName(n) => \A j \in 0 .. n - 1 : ~(IsName(j) /\ Lex(j) = Lex(n) /\ Holder(j) = Holder(n))
  PROVE  FitsBefore(n + 1)
<1>1. \A j \in 0 .. (n + 1) - 1 : j \in 0 .. n - 1 \/ j = n
  OBVIOUS
<1>2. \A j \in 0 .. (n + 1) - 1 : Fits(j)
  BY <1>1 DEF FitsBefore
<1>3. ASSUME NEW i \in 0 .. (n + 1) - 1, NEW j \in 0 .. (n + 1) - 1, IsName(i), IsName(j),
             Lex(i) = Lex(j), Holder(i) = Holder(j)
      PROVE  i = j
  <2>1. CASE i = n /\ j \in 0 .. n - 1
    BY <1>3, <2>1
  <2>2. CASE j = n /\ i \in 0 .. n - 1
    BY <1>3, <2>2
  <2>3. CASE i \in 0 .. n - 1 /\ j \in 0 .. n - 1
    BY <1>3, <2>3 DEF FitsBefore, NamesDiffer
  <2> QED BY <1>1, <2>1, <2>2, <2>3
<1> QED BY <1>2, <1>3 DEF FitsBefore, NamesDiffer

\* A stack fs at n becomes gs at m: its first c containers stay open, and gs may
\* have one more, opened between the two.
SameContainers(t, fs, u, gs, c) ==
  \A k \in 1 .. c : /\ gs[k].kind = fs[k].kind
                    /\ u[PathTo(gs, k - 1)].start = t[PathTo(fs, k - 1)].start
StayOpen(c, n, m) == \A q \in n .. m : Depth(q) >= c
OpenedAt(u, gs, c, n, m) ==
  \E s \in n .. m - 1 : /\ u[PathTo(gs, c)].start = s /\ Lex(s) = Bracket(gs[c + 1].kind)
                        /\ Depth(s) = c /\ StayOpen(c + 1, s + 1, m)
Stack(fs) == DOMAIN fs = 1 .. Len(fs) /\ Len(fs) \in Nat

LEMMA Betweens ==
  ASSUME NEW n \in Nat, NEW m \in Nat, n <= m
  PROVE  /\ \A q \in 0 .. m : q \in 0 .. n \/ q \in n .. m
         /\ \A s \in 0 .. n - 1 : s \in 0 .. m - 1 /\ (\A q \in s + 1 .. m : q \in s + 1 .. n \/ q \in n .. m)
         /\ \A s \in n .. m - 1 : s \in 0 .. m - 1
OBVIOUS

LEMMA StayOpenBelow ==
  ASSUME NEW n \in Nat, NEW m \in Nat, NEW c \in Nat, StayOpen(c, n, m), NEW k \in Nat, k <= c,
         NEW q \in n .. m
  PROVE  Depth(q) >= k
<1>1. Depth(q) >= c
  BY DEF StayOpen
<1>2. q \in Nat
  OBVIOUS
<1>3. Depth(q) \in Int
  BY <1>2, DepthIs
<1> QED BY <1>1, <1>3

LEMMA ContainerStays ==
  ASSUME NEW n \in Nat, NEW m \in Nat, n <= m, NEW c \in Nat, StayOpen(c, n, m),
         NEW k \in 1 .. c, NEW s \in 0 .. n - 1, StayOpen(k, s + 1, n)
  PROVE  s \in 0 .. m - 1 /\ StayOpen(k, s + 1, m)
<1>1. s \in 0 .. m - 1 /\ \A q \in s + 1 .. m : q \in s + 1 .. n \/ q \in n .. m
  BY Betweens
<1>2. ASSUME NEW q \in s + 1 .. m PROVE Depth(q) >= k
  <2>1. CASE q \in s + 1 .. n
    BY <2>1 DEF StayOpen
  <2>2. CASE q \in n .. m
    <3>1. k \in Nat /\ k <= c
      OBVIOUS
    <3> QED BY <2>2, <3>1, StayOpenBelow
  <2> QED BY <1>1, <2>1, <2>2
<1> QED BY <1>1, <1>2 DEF StayOpen

LEMMA OpenAre ==
  ASSUME NEW t, NEW fs, NEW n
  PROVE  BracketsOpen(t, fs, n) <=>
           /\ StayOpen(0, 0, n) /\ Depth(n) = Len(fs)
           /\ \A k \in DOMAIN fs :
                LET s == t[PathTo(fs, k - 1)].start
                IN  /\ s \in 0 .. n - 1 /\ Lex(s) = Bracket(fs[k].kind) /\ Depth(s) = k - 1
                    /\ StayOpen(k, s + 1, n)
BY DEF BracketsOpen, StayOpen

LEMMA BracketsTo ==
  ASSUME NEW n \in Nat, NEW m \in Nat, n <= m, NEW t, NEW fs, NEW u, NEW gs, NEW c \in Nat,
         BracketsOpen(t, fs, n), Stack(fs), c <= Len(fs),
         Stack(gs), Len(gs) \in {c, c + 1}, SameContainers(t, fs, u, gs, c),
         StayOpen(c, n, m), Depth(m) = Len(gs),
         Len(gs) = c \/ OpenedAt(u, gs, c, n, m)
  PROVE  BracketsOpen(u, gs, m)
<1>1. StayOpen(0, 0, m)
  <2>1. StayOpen(0, 0, n)
    BY OpenAre
  <2>2. ASSUME NEW q \in 0 .. m PROVE Depth(q) >= 0
    <3>1. CASE q \in 0 .. n
      BY <2>1, <3>1 DEF StayOpen
    <3>2. CASE q \in n .. m
      BY <3>2, StayOpenBelow
    <3> QED BY <3>1, <3>2
  <2> QED BY <2>2 DEF StayOpen
<1>2. ASSUME NEW k \in DOMAIN gs
      PROVE  LET s == u[PathTo(gs, k - 1)].start
             IN  /\ s \in 0 .. m - 1 /\ Lex(s) = Bracket(gs[k].kind) /\ Depth(s) = k - 1
                 /\ StayOpen(k, s + 1, m)
  <2> DEFINE s == u[PathTo(gs, k - 1)].start
  <2>1. CASE k \in 1 .. c
    <3>1. k \in DOMAIN fs
      <4>1. DOMAIN fs = 1 .. Len(fs) /\ Len(fs) \in Nat
        BY DEF Stack
      <4>2. k \in 1 .. Len(fs)
        BY <2>1, <4>1
      <4> QED BY <4>1, <4>2
    <3>2. gs[k].kind = fs[k].kind /\ s = t[PathTo(fs, k - 1)].start
      BY <2>1 DEF SameContainers
    <3>3. /\ s \in 0 .. n - 1 /\ Lex(s) = Bracket(gs[k].kind) /\ Depth(s) = k - 1
          /\ StayOpen(k, s + 1, n)
      BY <3>1, <3>2, OpenAre
    <3> HIDE DEF s
    <3>4. s \in 0 .. m - 1 /\ StayOpen(k, s + 1, m)
      BY <2>1, <3>3, ContainerStays
    <3> QED BY <3>3, <3>4 DEF s
  <2>2. CASE k = c + 1 /\ Len(gs) = c + 1
    <3>1. k - 1 = c /\ Len(gs) # c
      BY <2>2
    <3>2. PICK r \in n .. m - 1 : /\ u[PathTo(gs, c)].start = r /\ Lex(r) = Bracket(gs[c + 1].kind)
                                  /\ Depth(r) = c /\ StayOpen(c + 1, r + 1, m)
      BY <3>1 DEF OpenedAt
    <3>3. r \in 0 .. m - 1
      BY Betweens
    <3> QED BY <2>2, <3>1, <3>2, <3>3
  <2>3. k \in 1 .. c \/ (k = c + 1 /\ Len(gs) = c + 1)
    <3>1. k \in 1 .. Len(gs)
      BY Zenon DEF Stack
    <3>2. Len(gs) = c \/ Len(gs) = c + 1
      BY Zenon
    <3> HIDE DEF s
    <3> QED BY <3>1, <3>2
  <2> QED BY <2>1, <2>2, <2>3
<1> QED BY <1>1, <1>2, OpenAre

LEMMA HolderOfStack ==
  ASSUME NEW n \in Nat, NEW t, NEW fs, BracketsOpen(t, fs, n), Stack(fs)
  PROVE  /\ Len(fs) = 0 => Holder(n) = -1 /\ Around(n) = "none"
         /\ Len(fs) # 0 => /\ Holder(n) = t[PathTo(fs, Len(fs) - 1)].start /\ Holder(n) \in 0 .. n - 1
                           /\ Around(n) = Bracket(fs[Len(fs)].kind)
<1>1. /\ \A q \in 0 .. n : Depth(q) >= 0
      /\ Depth(n) = Len(fs)
  BY DEF BracketsOpen
<1>2. \A q \in 0 .. n : Depth(q) \in Int
  BY DepthIs
<1>3. CASE Len(fs) = 0
  <2>1. \A i \in 0 .. n - 1 : ~(Depth(i) < Depth(n))
    BY <1>1, <1>2, <1>3
  <2>2. Holder(n) = -1
    BY <2>1, HolderUnique
  <2> QED BY <1>3, <2>2 DEF Around, At
<1>4. CASE Len(fs) # 0
  <2> DEFINE s == t[PathTo(fs, Len(fs) - 1)].start
  <2>1. Len(fs) \in DOMAIN fs /\ Len(fs) \in Nat
    BY <1>4 DEF Stack
  <2>2. /\ s \in 0 .. n - 1 /\ Lex(s) = Bracket(fs[Len(fs)].kind) /\ Depth(s) = Len(fs) - 1
        /\ \A q \in s + 1 .. n : Depth(q) >= Len(fs)
    BY <2>1 DEF BracketsOpen
  <2> HIDE DEF s
  <2>3. Depth(s) < Depth(n)
    BY <1>1, <2>2
  <2>4. ASSUME NEW i \in 0 .. n - 1, Depth(i) < Depth(n) PROVE i <= s
    <3>1. i \notin s + 1 .. n
      BY <1>1, <1>2, <2>2, <2>4
    <3> QED BY <2>2, <3>1
  <2>5. s \in -1 .. n - 1 /\ s # -1
    BY <2>2
  <2>6. Holder(n) = s
    BY <2>3, <2>4, <2>5, HolderUnique
  <2> QED BY <1>4, <2>2, <2>5, <2>6 DEF Around, At, s
<1> QED BY <1>3, <1>4

-----------------------------------------------------------------------------
(* The tree is what was read.                                              *)

LEMMA BelongsStill ==
  ASSUME NEW t, NEW S, NEW u, NEW R, S \subseteq R, NEW v, NEW i \in Nat, NEW j \in Nat, i <= j,
         \A w \in S : u[w].start = t[w].start /\ t[w].start \in Int,
         SamePlace(i, j), Belongs(t, S, v, i)
  PROVE  Belongs(u, R, v, j)
<1>1. /\ Holder(j) = Holder(i) /\ Around(j) = Around(i) /\ Previous(j) = Previous(i)
      /\ NameBefore(j) = NameBefore(i)
  BY AlikeWants
<1>2. CASE v = <<>>
  BY <1>1, <1>2 DEF Belongs
<1>3. CASE v # <<>>
  <2>1. Front(v) \in R /\ Holder(j) = u[Front(v)].start
    BY <1>1, <1>3, Zenon DEF Belongs
  <2>2. Around(i) = "{" => Last(v) = <<"name", NameBefore(i)>>
    BY <1>3 DEF Belongs
  <2>3. Around(i) # "{" /\ Previous(i) = "[" => Last(v) = <<"index", 0>>
    BY <1>3 DEF Belongs
  <2>4. ASSUME Around(i) # "{", Previous(i) # "["
        PROVE  /\ Last(v)[1] = "index" /\ Last(v)[2] > 0
               /\ Neighbour(v) \in R /\ u[Neighbour(v)].start < j
    <3>1. /\ Last(v)[1] = "index" /\ Last(v)[2] > 0
          /\ Neighbour(v) \in S /\ t[Neighbour(v)].start < i
      BY <1>3, <2>4, Zenon DEF Belongs
    <3>2. u[Neighbour(v)].start = t[Neighbour(v)].start /\ t[Neighbour(v)].start \in Int
      BY <3>1, Zenon
    <3>3. u[Neighbour(v)].start < j
      BY <3>1, <3>2
    <3>4. Neighbour(v) \in R
      BY <3>1, Zenon
    <3> QED BY <3>1, <3>3, <3>4
  <2> QED BY <1>1, <1>3, <2>1, <2>2, <2>3, <2>4, Zenon DEF Belongs
<1> QED BY <1>2, <1>3

LEMMA BelongsSame ==
  ASSUME NEW t, NEW S, NEW u, NEW R, S \subseteq R, NEW v, NEW i \in Nat,
         \A w \in S : u[w].start = t[w].start /\ t[w].start \in Int, Belongs(t, S, v, i)
  PROVE  Belongs(u, R, v, i)
<1>1. SamePlace(i, i) /\ i <= i
  BY DEF SamePlace
<1> QED BY <1>1, BelongsStill

\* What S holds of t is in u, and R is it and N, read between n and m.
Keeps(t, S, u, R) == /\ S \subseteq R
                     /\ \A v \in S : u[v].start = t[v].start /\ u[v].type = t[v].type
DenotesOne(u, R, v, n, m) == LET i == u[v].start
                           IN  /\ i \in n .. m - 1 /\ IsValue(i)
                               /\ u[v].type = TypeAt(i) /\ Belongs(u, R, v, i)
Finds(u, N, n, m) == \A i \in n .. m - 1 : IsValue(i) => \E v \in N : u[v].start = i

LEMMA DenotesMore ==
  ASSUME NEW n \in Nat, NEW m \in Nat, n <= m, NEW t, NEW S, NEW u, NEW R, NEW N,
         Denotes(t, S, n), Keeps(t, S, u, R), R = S \cup N,
         \A v \in N : DenotesOne(u, R, v, n, m), Finds(u, N, n, m)
  PROVE  Denotes(u, R, m)
<1>1. ASSUME NEW v \in R
      PROVE  LET i == u[v].start
             IN  /\ i \in 0 .. m - 1 /\ IsValue(i)
                 /\ u[v].type = TypeAt(i) /\ Belongs(u, R, v, i)
  <2>1. CASE v \in S
    <3> DEFINE i == t[v].start
    <3>1. i \in 0 .. n - 1 /\ IsValue(i) /\ t[v].type = TypeAt(i) /\ Belongs(t, S, v, i)
      BY <2>1, Zenon DEF Denotes
    <3>2. \A w \in S : u[w].start = t[w].start /\ t[w].start \in Int
      <4>1. \A w \in S : t[w].start \in 0 .. n - 1
        BY Zenon DEF Denotes
      <4>2. \A x \in 0 .. n - 1 : x \in Int
        OBVIOUS
      <4> QED BY <4>1, <4>2, Zenon DEF Keeps
    <3>3. u[v].start = i /\ u[v].type = TypeAt(i) /\ S \subseteq R
      BY <2>1, <3>1, Zenon DEF Keeps
    <3> HIDE DEF i
    <3>4. i \in Nat /\ i \in 0 .. m - 1
      <4>1. \A x \in 0 .. n - 1 : x \in Nat /\ x \in 0 .. m - 1
        OBVIOUS
      <4> QED BY <3>1, <4>1, Zenon
    <3>5. Belongs(u, R, v, i)
      BY <3>1, <3>2, <3>3, <3>4, BelongsSame
    <3> QED BY <3>1, <3>3, <3>4, <3>5, Zenon
  <2>2. CASE v \in N
    <3>1. \A x \in n .. m - 1 : x \in 0 .. m - 1
      OBVIOUS
    <3> QED BY <2>2, <3>1, Zenon DEF DenotesOne
  <2> QED BY <2>1, <2>2, Zenon
<1>2. ASSUME NEW i \in 0 .. m - 1, IsValue(i) PROVE \E v \in R : u[v].start = i
  <2>1. i \in 0 .. n - 1 \/ i \in n .. m - 1
    BY Betweens
  <2>2. CASE i \in 0 .. n - 1
    BY <1>2, <2>2, Zenon DEF Denotes, Keeps
  <2>3. CASE i \in n .. m - 1
    BY <1>2, <2>3, Zenon DEF Finds
  <2> QED BY <2>1, <2>2, <2>3
<1> QED BY <1>1, <1>2, Zenon DEF Denotes

LEMMA StartsDifferMore ==
  ASSUME NEW n \in Nat, NEW m \in Nat, NEW t, NEW S, NEW u, NEW R, NEW N,
         Denotes(t, S, n), StartsDiffer(t, S), Keeps(t, S, u, R), R = S \cup N,
         \A v \in N : u[v].start \in n .. m - 1, \A v, w \in N : v = w
  PROVE  StartsDiffer(u, R)
<1>1. \A x \in 0 .. n - 1, y \in n .. m - 1 : x # y
  OBVIOUS
<1>2. \A v \in S : u[v].start \in 0 .. n - 1 /\ u[v].start = t[v].start
  BY Zenon DEF Denotes, Keeps
<1>3. ASSUME NEW v \in R, NEW w \in R, u[v].start = u[w].start PROVE v = w
  <2>1. CASE v \in S /\ w \in S
    BY <1>2, <1>3, <2>1, Zenon DEF StartsDiffer
  <2>2. CASE v \in S /\ w \in N
    BY <1>1, <1>2, <1>3, <2>2, Zenon
  <2>3. CASE v \in N /\ w \in S
    BY <1>1, <1>2, <1>3, <2>3, Zenon
  <2>4. CASE v \in N /\ w \in N
    BY <2>4, Zenon
  <2> QED BY <2>1, <2>2, <2>3, <2>4, Zenon
<1> QED BY <1>3, Zenon DEF StartsDiffer

\* Every name read before n is in t; n1 is the one read between n and m, if any,
\* and u has more than t: one node that is there for it, or one without a name.
LEMMA NamesAreKeysMore ==
  ASSUME NEW n \in Nat, NEW m \in Nat, n <= m, NEW t, NEW u, DOMAIN t \subseteq DOMAIN u,
         NamesAreKeys(t, n),
         \A v \in DOMAIN t \ {<<>>} : u[Front(v)].start = t[Front(v)].start,
         \A i \in n .. m - 1 : IsName(i) =>
           \E v \in DOMAIN u \ {<<>>} : Last(v) = <<"name", Lex(i)>> /\ u[Front(v)].start = Holder(i),
         \A v \in DOMAIN u \ DOMAIN t : (v # <<>> /\ Last(v)[1] = "name") =>
           \E i \in n .. m - 1 : /\ IsName(i) /\ Lex(i) = Last(v)[2]
                                 /\ u[Front(v)].start = Holder(i)
  PROVE  NamesAreKeys(u, m)
<1>0. /\ \A i \in 0 .. m - 1 : i \in 0 .. n - 1 \/ i \in n .. m - 1
      /\ \A i \in 0 .. n - 1 : i \in 0 .. m - 1
      /\ \A i \in n .. m - 1 : i \in 0 .. m - 1
  OBVIOUS
<1>1. ASSUME NEW i \in 0 .. m - 1, IsName(i)
      PROVE  \E v \in DOMAIN u \ {<<>>} : Last(v) = <<"name", Lex(i)>> /\ u[Front(v)].start = Holder(i)
  <2>1. CASE i \in 0 .. n - 1
    <3>1. PICK v \in DOMAIN t \ {<<>>} : Last(v) = <<"name", Lex(i)>> /\ t[Front(v)].start = Holder(i)
      BY <1>1, <2>1, Zenon DEF NamesAreKeys
    <3> QED BY <3>1, Zenon
  <2>2. CASE i \in n .. m - 1
    BY <1>1, <2>2, Zenon
  <2> QED BY <1>0, <2>1, <2>2, Zenon
<1>2. ASSUME NEW v \in DOMAIN u \ {<<>>}, Last(v)[1] = "name"
      PROVE  \E i \in 0 .. m - 1 : /\ IsName(i) /\ Lex(i) = Last(v)[2]
                                   /\ u[Front(v)].start = Holder(i)
  <2>1. CASE v \in DOMAIN t
    <3>1. PICK i \in 0 .. n - 1 : /\ IsName(i) /\ Lex(i) = Last(v)[2]
                                  /\ t[Front(v)].start = Holder(i)
      BY <1>2, <2>1, Zenon DEF NamesAreKeys
    <3> QED BY <1>0, <2>1, <3>1, Zenon
  <2>2. CASE v \notin DOMAIN t
    BY <1>0, <1>2, <2>2, Zenon
  <2> QED BY <2>1, <2>2
<1> QED BY <1>1, <1>2, Zenon DEF NamesAreKeys

-----------------------------------------------------------------------------
(* What was parsed, after blanks and after each kind of step.              *)

LEMMA StackIs ==
  ASSUME NEW fs \in Seq(Frame)
  PROVE  Stack(fs)
BY LenProperties DEF Stack

LEMMA SkipBrackets ==
  ASSUME Len(doc) \in Nat, NEW n \in Nat, NEW m \in Nat, BlankTo(n, m), NEW t, NEW fs, Stack(fs),
         BracketsOpen(t, fs, n)
  PROVE  BracketsOpen(t, fs, m)
<1>1. Depth(m) = Depth(n) /\ \A r \in n .. m : Depth(r) = Depth(n)
  BY OverBlanks
<1>2. Depth(n) = Len(fs) /\ Len(fs) \in Nat
  BY DEF BracketsOpen, Stack
<1>3. StayOpen(Len(fs), n, m)
  <2>1. ASSUME NEW q \in n .. m PROVE Depth(q) >= Len(fs)
    <3>1. Depth(q) = Len(fs)
      BY <1>1, <1>2, Zenon
    <3> QED BY <1>2, <3>1
  <2> QED BY <2>1 DEF StayOpen
<1>4. SameContainers(t, fs, t, fs, Len(fs))
  BY DEF SameContainers
<1>5. n <= m /\ Len(fs) <= Len(fs)
  BY <1>2 DEF BlankTo
<1>6. Len(fs) \in {Len(fs), Len(fs) + 1}
  OBVIOUS
<1> QED BY <1>1, <1>2, <1>3, <1>4, <1>5, <1>6, BracketsTo

LEMMA SkipTree ==
  ASSUME Len(doc) \in Nat, NEW n \in Nat, NEW m \in Nat, BlankTo(n, m), NEW t, NEW S, NEW A,
         TreeDenotes(t, S, A, n)
  PROVE  TreeDenotes(t, S, A, m)
<1>1. n <= m /\ SamePlace(n, m) /\ \A j \in n .. m - 1 : Lex(j) \in Blanks
  BY OverBlanks DEF BlankTo
<1>2. Denotes(t, S, n) /\ StartsDiffer(t, S)
      /\ \A v \in A : Belongs(t, S, v, n) /\ \A w \in S : ~IsStrictPrefix(v, w)
  BY DEF TreeDenotes
<1>3. \A w \in S : t[w].start \in Int
  <2>1. \A w \in S : t[w].start \in 0 .. n - 1
    BY <1>2, Zenon DEF Denotes
  <2>2. \A x \in 0 .. n - 1 : x \in Int
    OBVIOUS
  <2> QED BY <2>1, <2>2, Zenon
<1>4. Denotes(t, S, m)
  <2>1. Keeps(t, S, t, S) /\ S = S \cup {}
    BY DEF Keeps
  <2>2. Finds(t, {}, n, m)
    BY <1>1, BlanksAreNothing DEF Finds, IsValue
  <2> QED BY <1>1, <1>2, <2>1, <2>2, DenotesMore
<1>5. ASSUME NEW v \in A PROVE Belongs(t, S, v, m)
  BY <1>1, <1>2, <1>3, BelongsStill
<1> QED BY <1>2, <1>4, <1>5 DEF TreeDenotes

LEMMA ParsedSkip ==
  ASSUME Len(doc) \in Nat, NEW n \in Nat, NEW m \in Nat, BlankTo(n, m), NEW t, NEW fs, Stack(fs),
         NEW state, Parsed(t, fs, state, n)
  PROVE  Parsed(t, fs, state, m)
<1>1. /\ BracketsOpen(t, fs, n) /\ FitsBefore(n) /\ WantsWhatComes(fs, state, n)
      /\ TreeDenotes(t, Held(t, fs, state), Awaited(fs, state), n) /\ NamesAreKeys(t, n)
  BY DEF Parsed
<1>2. /\ n <= m /\ SamePlace(n, m) /\ \A j \in n .. m - 1 : Lex(j) \in Blanks
  BY OverBlanks DEF BlankTo
<1>3. WantsWhatComes(fs, state, m)
  <2>1. /\ Previous(m) = Previous(n) /\ (WantsName(m) <=> WantsName(n))
        /\ WantsValue(m) <=> WantsValue(n)
        /\ ValueEnds(m) <=> ValueEnds(n)
    BY <1>2, AlikeWants
  <2>2. ASSUME state = "value", Previous(m) = "[" PROVE Lex(m) \notin Blanks \cup {"]"}
    <3>1. Lex(n) \notin Blanks \cup {"]"}
      BY <1>1, <2>1, <2>2 DEF WantsWhatComes
    <3>2. n \notin n .. m - 1
      BY <1>2, <3>1
    <3>3. n = m
      BY <1>2, <3>2
    <3> QED BY <3>1, <3>3
  <2> QED BY <1>1, <2>1, <2>2 DEF WantsWhatComes
<1>4. NamesAreKeys(t, m)
  <2>1. \A i \in n .. m - 1 : ~IsName(i)
    BY <1>2, BlanksAreNothing DEF IsName
  <2> QED BY <1>1, <1>2, <2>1, NamesAreKeysMore
<1> QED BY <1>1, <1>3, <1>4, SkipBrackets, SkipTree, FitsSkip DEF Parsed

\* What is below a value that was read, or awaited, was read.
LEMMA FrontsHeld ==
  ASSUME NEW t, NEW S, NEW A, NEW n, TreeDenotes(t, S, A, n), NEW v \in S \cup A, v # <<>>
  PROVE  Front(v) \in S
<1>1. CASE v \in S
  BY <1>1, Zenon DEF TreeDenotes, Denotes, Belongs
<1>2. CASE v \in A
  BY <1>2, Zenon DEF TreeDenotes, Belongs
<1> QED BY <1>1, <1>2

\* A step that reads what N holds, at most one value, and awaits what B holds.
ReadsOne(u, R, N, n, m) == /\ \A v \in N : DenotesOne(u, R, v, n, m)
                           /\ \A v, w \in N : v = w
                           /\ Finds(u, N, n, m)
Awaits(u, R, B, m) == \A v \in B : Belongs(u, R, v, m) /\ \A w \in R : ~IsStrictPrefix(v, w)

LEMMA TreeMore ==
  ASSUME NEW n \in Nat, NEW m \in Nat, n <= m, NEW t, NEW S, NEW A, NEW u, NEW R, NEW N, NEW B,
         TreeDenotes(t, S, A, n), Keeps(t, S, u, R), R = S \cup N,
         ReadsOne(u, R, N, n, m), Awaits(u, R, B, m)
  PROVE  TreeDenotes(u, R, B, m)
<1>1. Denotes(t, S, n) /\ StartsDiffer(t, S)
  BY DEF TreeDenotes
<1>2. Denotes(u, R, m)
  BY <1>1, DenotesMore DEF ReadsOne
<1>3. (\A v \in N : u[v].start \in n .. m - 1) /\ \A v, w \in N : v = w
  BY Zenon DEF DenotesOne, ReadsOne
<1>4. StartsDiffer(u, R)
  BY <1>1, <1>3, StartsDifferMore
<1> QED BY <1>2, <1>4 DEF TreeDenotes, Awaits

\* The stack while a value is awaited.
LEMMA TopHeld ==
  ASSUME IInv, pc = "value", NEW i, Parsed(tree, frames, "value", i)
  PROVE  /\ Stack(frames) /\ Top \in DOMAIN tree /\ Kept = DOMAIN tree
         /\ Awaited(frames, "value") = {Top}
         /\ Held(tree, frames, "value") = DOMAIN tree \ {Top}
         /\ \A k \in 1 .. Len(frames) : PathTo(frames, k - 1) \in DOMAIN tree \ {Top}
<1>1. Awaited(frames, "value") = {Top} /\ Held(tree, frames, "value") = DOMAIN tree \ {Top}
  BY DEF Awaited, Held, Top
<1>2. Stack(frames) /\ Len(frames) \in Nat
  BY Parts, StackIs
<1>3. Top \in DOMAIN tree /\ \A k \in 0 .. Len(frames) - 1 : PathTo(frames, k) \in DOMAIN tree
                                                       /\ PathTo(frames, k) # Top
  BY KeptIs DEF Kept
<1>4. \A v \in DOMAIN tree : ~IsStrictPrefix(Top, v)
  <2>1. \A v \in DOMAIN tree \ {Top} : ~IsStrictPrefix(Top, v)
    BY <1>1 DEF Parsed, TreeDenotes
  <2> QED BY <2>1 DEF IsStrictPrefix
<1>5. \A k \in 1 .. Len(frames) : k - 1 \in 0 .. Len(frames) - 1
  BY <1>2
<1> QED BY <1>1, <1>2, <1>3, <1>4, <1>5 DEF Kept

\* A value is read into the top.
LEMMA ParsedRead ==
  ASSUME IInv, IInv', ReadsTop, NEW i \in Nat, NEW m \in Nat, i < m, Parsed(tree, frames, "value", i),
         tree'[Top].start = i, tree'[Top].type = TypeAt(i), IsValue(i), FitsBefore(m), ValueEnds(m),
         Depth(m) = Depth(i), StayOpen(Len(frames), i, m),
         \A j \in i .. m - 1 : ~IsName(j) /\ (IsValue(j) => j = i)
  PROVE  Parsed(tree', frames', "return", m)
<1> DEFINE S == DOMAIN tree \ {Top}
<1>1. /\ BracketsOpen(tree, frames, i) /\ WantsWhatComes(frames, "value", i)
      /\ Awaited(frames, "value") = {Top} /\ Held(tree, frames, "value") = S
      /\ TreeDenotes(tree, S, {Top}, i) /\ NamesAreKeys(tree, i)
      /\ pc = "value" /\ Stack(frames) /\ Top \in DOMAIN tree /\ Kept = DOMAIN tree
      /\ \A k \in 1 .. Len(frames) : PathTo(frames, k - 1) \in S
  BY TopHeld DEF Parsed, ReadsTop
<1>2. /\ frames' = frames /\ DOMAIN tree' = DOMAIN tree
      /\ \A v \in S : tree'[v].start = tree[v].start /\ tree'[v].type = tree[v].type
  BY <1>1 DEF ReadsTop, Alike
<1>3. Held(tree', frames', "return") = DOMAIN tree /\ Awaited(frames', "return") = {}
  BY <1>2 DEF Held, Awaited
<1>4. i <= m /\ Len(frames) \in Nat /\ Len(frames) <= Len(frames) /\ Len(frames) \in {Len(frames), Len(frames) + 1}
  BY <1>1 DEF Stack
<1>5. BracketsOpen(tree', frames', m)
  <2>1. SameContainers(tree, frames, tree', frames, Len(frames))
    BY <1>1, <1>2 DEF SameContainers
  <2>2. Depth(m) = Len(frames)
    BY <1>1 DEF BracketsOpen
  <2> HIDE DEF S
  <2> QED BY <1>1, <1>2, <1>4, <2>1, <2>2, BracketsTo
<1>6. WantsWhatComes(frames', "return", m)
  BY <1>1, <1>2 DEF WantsWhatComes
<1>7. TreeDenotes(tree', DOMAIN tree, {}, m)
  <2>1. DOMAIN tree = S \cup {Top}
    BY <1>1
  <2>2. Keeps(tree, S, tree', DOMAIN tree)
    BY <1>2 DEF Keeps
  <2>3. i \in i .. m - 1
    OBVIOUS
  <2>4. Belongs(tree', DOMAIN tree, Top, i)
    <3>1. Belongs(tree, S, Top, i) /\ S \subseteq DOMAIN tree
      BY <1>1 DEF TreeDenotes
    <3>2. \A w \in S : tree'[w].start = tree[w].start /\ tree[w].start \in Int
      BY <1>2, Parts, NodeIs
    <3> HIDE DEF S
    <3> QED BY <3>1, <3>2, BelongsSame
  <2>5. \A v \in {Top} : DenotesOne(tree', DOMAIN tree, v, i, m)
    BY <2>3, <2>4 DEF DenotesOne
  <2>6. Finds(tree', {Top}, i, m)
    BY DEF Finds
  <2>7. ReadsOne(tree', DOMAIN tree, {Top}, i, m) /\ Awaits(tree', DOMAIN tree, {}, m)
    BY <2>5, <2>6 DEF ReadsOne, Awaits
  <2> HIDE DEF S
  <2> QED BY <1>1, <1>4, <2>1, <2>2, <2>7, TreeMore
<1>8. NamesAreKeys(tree', m)
  <2>1. ASSUME NEW v \in DOMAIN tree \ {<<>>} PROVE tree'[Front(v)].start = tree[Front(v)].start
    <3>1. v \in S \cup {Top} /\ v # <<>>
      BY <1>1
    <3>2. Front(v) \in S
      BY <1>1, <3>1, FrontsHeld
    <3> QED BY <1>2, <3>2
  <2>2. \A j \in i .. m - 1 : ~IsName(j)
    OBVIOUS
  <2> HIDE DEF S
  <2> QED BY <1>1, <1>2, <1>4, <2>1, <2>2, NamesAreKeysMore
<1> QED BY <1>3, <1>5, <1>6, <1>7, <1>8 DEF Parsed

\* A container is opened at the top.
LEMMA ParsedOpened ==
  ASSUME IInv, IInv', KindsOK, NEW f, OpensTop(f), NEW i \in Nat, NEW m \in Nat, i < m,
         Parsed(tree, frames, "value", i),
         tree'[Top].start = i, f.kind = TypeAt(i), IsValue(i), FitsBefore(m),
         Lex(i) = Bracket(f.kind), Previous(m) = Lex(i), Depth(m) = Depth(i) + 1,
         StayOpen(Len(frames), i, m), StayOpen(Len(frames) + 1, i + 1, m),
         \A j \in i .. m - 1 : ~IsName(j) /\ (IsValue(j) => j = i),
         pc' = "member" => f.key = <<"name", "empty">>,
         pc' = "value" => f.kind = "array" /\ Lex(m) \notin Blanks \cup {"]"}
  PROVE  Parsed(tree', frames', pc', m)
<1> DEFINE S == DOMAIN tree \ {Top}  new == Append(Top, f.key)
<1>1. /\ BracketsOpen(tree, frames, i) /\ WantsWhatComes(frames, "value", i)
      /\ Awaited(frames, "value") = {Top} /\ Held(tree, frames, "value") = S
      /\ TreeDenotes(tree, S, {Top}, i) /\ NamesAreKeys(tree, i)
      /\ pc = "value" /\ Stack(frames) /\ Top \in DOMAIN tree /\ Kept = DOMAIN tree
      /\ \A k \in 1 .. Len(frames) : PathTo(frames, k - 1) \in S
  BY TopHeld DEF Parsed, OpensTop
<1>2. /\ f.kind = KindOf(f.key)
      /\ \/ pc' = "member" /\ f.kind = "object" /\ DOMAIN tree' = DOMAIN tree
         \/ pc' = "value" /\ f.key = <<"index", 0>> /\ DOMAIN tree' = DOMAIN tree \cup {new}
      /\ \A v \in S : tree'[v].start = tree[v].start /\ tree'[v].type = tree[v].type
      /\ tree'[Top].type = f.kind
  BY <1>1 DEF OpensTop, Alike
<1>3. /\ Len(frames) \in Nat /\ DOMAIN frames = 1 .. Len(frames)
      /\ Len(frames') = Len(frames) + 1 /\ DOMAIN frames' = 1 .. Len(frames) + 1
      /\ \A k \in 1 .. Len(frames) : frames'[k] = frames[k]
      /\ frames'[Len(frames) + 1] = f
      /\ \A k \in 0 .. Len(frames) : PathTo(frames', k) = PathTo(frames, k)
      /\ Path(frames') = new /\ Top = PathTo(frames, Len(frames))
      /\ new \in Seq(Keys) /\ new # <<>> /\ Front(new) = Top /\ Last(new) = f.key
  BY FramesOpened
<1>4. new \notin DOMAIN tree
  <2>1. Front(new) = Top /\ new # <<>> /\ Stale(Top)
    BY <1>1, <1>3, TopIs DEF Top
  <2> QED BY <1>1, <2>1, KeptIs
<1>5. Held(tree', frames', pc') = DOMAIN tree
  BY <1>2, <1>3, <1>4 DEF Held, Awaited
<1>6. Awaited(frames', pc') = {} \/ (pc' = "value" /\ f.key = <<"index", 0>> /\ Awaited(frames', pc') = {new})
  BY <1>2, <1>3 DEF Awaited
<1>7. i <= m /\ Len(frames) <= Len(frames) /\ Len(frames') \in {Len(frames), Len(frames) + 1}
  BY <1>3
<1>8. Stack(frames')
  BY <1>3 DEF Stack
<1>9. BracketsOpen(tree', frames', m)
  <2>1. SameContainers(tree, frames, tree', frames', Len(frames))
    <3>1. ASSUME NEW k \in 1 .. Len(frames)
          PROVE  /\ frames'[k].kind = frames[k].kind
                 /\ tree'[PathTo(frames', k - 1)].start = tree[PathTo(frames, k - 1)].start
      <4>1. k - 1 \in 0 .. Len(frames)
        BY <1>3
      <4>2. frames'[k] = frames[k] /\ PathTo(frames', k - 1) = PathTo(frames, k - 1)
            /\ PathTo(frames, k - 1) \in S
        BY <1>1, <1>3, <4>1
      <4> QED BY <1>2, <4>2
    <3> QED BY <3>1 DEF SameContainers
  <2>2. Depth(i) = Len(frames) /\ Depth(m) = Len(frames')
    BY <1>1, <1>3 DEF BracketsOpen
  <2>3. OpenedAt(tree', frames', Len(frames), i, m)
    <3>1. i \in i .. m - 1 /\ Len(frames) \in 0 .. Len(frames)
      BY <1>3
    <3>2. tree'[PathTo(frames', Len(frames))].start = i
      BY <1>3, <3>1
    <3>3. Lex(i) = Bracket(frames'[Len(frames) + 1].kind)
      BY <1>3
    <3> QED BY <2>2, <3>1, <3>2, <3>3 DEF OpenedAt
  <2> HIDE DEF S, new
  <2> QED BY <1>1, <1>3, <1>7, <1>8, <2>1, <2>2, <2>3, BracketsTo
<1>10. Around(m) = Bracket(f.kind) /\ Holder(m) = i
  <2>1. /\ Len(frames') # 0 /\ Len(frames') - 1 = Len(frames) /\ Len(frames) \in 0 .. Len(frames)
    BY <1>3
  <2>2. /\ Holder(m) = tree'[PathTo(frames', Len(frames') - 1)].start
        /\ Around(m) = Bracket(frames'[Len(frames')].kind)
    BY <1>8, <1>9, <2>1, HolderOfStack
  <2> QED BY <1>3, <2>1, <2>2
<1>11. WantsWhatComes(frames', pc', m)
  <2>1. ASSUME pc' = "member" PROVE WantsName(m) /\ Previous(m) = "{"
    BY <1>2, <2>1 DEF WantsName, Bracket
  <2>2. ASSUME pc' = "value" PROVE WantsValue(m) /\ (Previous(m) = "[" => Lex(m) \notin Blanks \cup {"]"})
    BY <1>2, <2>2 DEF WantsValue, Bracket
  <2>3. ASSUME NEW k \in DOMAIN frames'
        PROVE  frames'[k].key = <<"name", "empty">> <=>
                 pc' = "member" /\ k = Len(frames') /\ Previous(m) = "{"
    <3>1. CASE k \in 1 .. Len(frames)
      <4>1. frames[k].key # <<"name", "empty">>
        BY <1>1, <1>3, <3>1 DEF WantsWhatComes
      <4>2. k # Len(frames') /\ frames'[k] = frames[k]
        BY <1>3, <3>1
      <4> QED BY <4>1, <4>2
    <3>2. CASE k = Len(frames) + 1
      <4>1. frames'[k] = f /\ k = Len(frames') /\ frames'[k].key = f.key
        BY <1>3, <3>2
      <4>2. CASE pc' = "member"
        <5>1. f.key = <<"name", "empty">> /\ Previous(m) = "{"
          BY <2>1, <4>2
        <5> QED BY <4>1, <4>2, <5>1
      <4>3. CASE pc' = "value"
        <5>1. f.key = <<"index", 0>>
          BY <1>2, <4>3
        <5>2. f.key # <<"name", "empty">>
          BY <5>1
        <5>3. pc' # "member" /\ frames'[k].key # <<"name", "empty">>
          BY <4>1, <4>3, <5>2, Zenon
        <5> QED BY <5>3
      <4> QED BY <1>2, <4>2, <4>3
    <3>3. k \in 1 .. Len(frames) \/ k = Len(frames) + 1
      <4>1. k \in 1 .. Len(frames) + 1 /\ Len(frames) \in Nat
        BY <1>3, Zenon
      <4> QED BY <4>1
    <3> QED BY <3>1, <3>2, <3>3
  <2>4. pc' # "return"
    BY <1>2
  <2> QED BY <2>1, <2>2, <2>3, <2>4 DEF WantsWhatComes
<1>12. TreeDenotes(tree', DOMAIN tree, Awaited(frames', pc'), m)
  <2>1. DOMAIN tree = S \cup {Top}
    BY <1>1
  <2>2. Keeps(tree, S, tree', DOMAIN tree)
    BY <1>2 DEF Keeps
  <2>3. i \in i .. m - 1
    OBVIOUS
  <2>4. Belongs(tree', DOMAIN tree, Top, i)
    <3>1. Belongs(tree, S, Top, i) /\ S \subseteq DOMAIN tree
      BY <1>1 DEF TreeDenotes
    <3>2. \A w \in S : tree'[w].start = tree[w].start /\ tree[w].start \in Int
      BY <1>2, Parts, NodeIs
    <3> HIDE DEF S
    <3> QED BY <3>1, <3>2, BelongsSame
  <2>5. \A v \in {Top} : DenotesOne(tree', DOMAIN tree, v, i, m)
    BY <1>2, <2>3, <2>4 DEF DenotesOne
  <2>6. Finds(tree', {Top}, i, m)
    BY DEF Finds
  <2>7. ASSUME NEW v \in Awaited(frames', pc')
        PROVE  Belongs(tree', DOMAIN tree, v, m) /\ \A w \in DOMAIN tree : ~IsStrictPrefix(v, w)
    <3>1. v = new /\ f.key = <<"index", 0>> /\ pc' = "value"
      BY <1>6, <2>7
    <3>2. Around(m) = "[" /\ Previous(m) = "["
      BY <1>10, <3>1 DEF Bracket
    <3>3. Belongs(tree', DOMAIN tree, new, m)
      BY <1>1, <1>3, <1>10, <3>1, <3>2 DEF Belongs
    <3>4. \A w \in DOMAIN tree : ~IsPrefix(new, w)
      BY <1>3, <1>4, NothingUnder
    <3> QED BY <3>1, <3>3, <3>4 DEF IsStrictPrefix
  <2>8. ReadsOne(tree', DOMAIN tree, {Top}, i, m)
    BY <2>5, <2>6 DEF ReadsOne
  <2>9. Awaits(tree', DOMAIN tree, Awaited(frames', pc'), m)
    BY <2>7 DEF Awaits
  <2>10. TreeDenotes(tree, S, {Top}, i) /\ i <= m
    BY <1>1, <1>7
  <2> HIDE DEF S, new
  <2> QED BY <2>1, <2>2, <2>8, <2>9, <2>10, TreeMore
<1>13. NamesAreKeys(tree', m)
  <2>1. ASSUME NEW v \in DOMAIN tree \ {<<>>} PROVE tree'[Front(v)].start = tree[Front(v)].start
    <3>1. v \in S \cup {Top} /\ v # <<>>
      BY <1>1
    <3>2. Front(v) \in S
      BY <1>1, <3>1, FrontsHeld
    <3> QED BY <1>2, <3>2
  <2>2. \A j \in i .. m - 1 : ~IsName(j)
    OBVIOUS
  <2>3. \A v \in DOMAIN tree' \ DOMAIN tree : Last(v)[1] # "name"
    <3>1. ASSUME NEW v \in DOMAIN tree' \ DOMAIN tree PROVE Last(v)[1] # "name"
      <4>1. v = new /\ f.key = <<"index", 0>>
        BY <1>2, <3>1
      <4> QED BY <1>3, <4>1
    <3> QED BY <3>1
  <2>4. DOMAIN tree \subseteq DOMAIN tree'
    BY <1>2
  <2> HIDE DEF S, new
  <2> QED BY <1>1, <1>7, <2>1, <2>2, <2>3, <2>4, NamesAreKeysMore
<1> QED BY <1>5, <1>9, <1>11, <1>12, <1>13 DEF Parsed

LEMMA OtherLexemes ==
  /\ \A lex \in Enders \cup {",", ":", "NUL"} :
        lex \notin Blanks /\ lex \notin Names /\ lex \notin Scalars \cup Openers
  /\ \A lex \in Scalars \cup Openers : lex \notin Blanks /\ lex \notin {",", ":", "NUL", "}", "]"}
  /\ \A lex \in Names : lex \notin Blanks /\ lex \notin {",", ":", "NUL", "}", "]", "{", "["}
BY DEF Enders, Blanks, Names, Scalars, Openers, Strings, Numbers, Literals, Undecodable

\* Every value of the tree is read where a value is not awaited.
LEMMA AllHeld ==
  ASSUME NEW t, NEW fs, NEW state, state # "value", NEW n, Parsed(t, fs, state, n)
  PROVE  /\ Awaited(fs, state) = {} /\ Held(t, fs, state) = DOMAIN t
         /\ TreeDenotes(t, DOMAIN t, {}, n)
         /\ \A v \in DOMAIN t \ {<<>>} : Front(v) \in DOMAIN t
<1>1. Awaited(fs, state) = {} /\ Held(t, fs, state) = DOMAIN t
  BY DEF Awaited, Held
<1>2. TreeDenotes(t, DOMAIN t, {}, n)
  BY <1>1 DEF Parsed
<1>3. ASSUME NEW v \in DOMAIN t \ {<<>>} PROVE Front(v) \in DOMAIN t
  <2>1. v \in DOMAIN t \cup {} /\ v # <<>>
    OBVIOUS
  <2> QED BY <1>2, <2>1, FrontsHeld
<1> QED BY <1>1, <1>2, <1>3

\* Which containers are open while nothing new is read.
LEMMA OpenInTree ==
  ASSUME IInv, NEW k \in 1 .. Len(frames)
  PROVE  PathTo(frames, k - 1) \in DOMAIN tree
<1>1. Len(frames) \in Nat /\ OpenValuesOK
  BY Parts
<1>2. k - 1 \in 0 .. Len(frames) - 1
  BY <1>1
<1> QED BY <1>1, <1>2 DEF OpenValuesOK

\* A container is closed.
LEMMA ParsedClosed ==
  ASSUME IInv, IInv', ClosesTop, NEW i \in Nat, i < Len(doc), Parsed(tree, frames, pc, i),
         Lex(i) \in Enders, Fits(i)
  PROVE  Parsed(tree', frames', "return", i + 1)
<1>1. /\ BracketsOpen(tree, frames, i) /\ FitsBefore(i) /\ WantsWhatComes(frames, pc, i)
      /\ TreeDenotes(tree, DOMAIN tree, {}, i) /\ NamesAreKeys(tree, i)
      /\ \A v \in DOMAIN tree \ {<<>>} : Front(v) \in DOMAIN tree
      /\ pc # "value"
  <2>1. pc # "value"
    BY DEF ClosesTop
  <2> QED BY <2>1, AllHeld DEF Parsed
<1>2. /\ DOMAIN tree' = DOMAIN tree
      /\ \A v \in DOMAIN tree : tree'[v].start = tree[v].start /\ tree'[v].type = tree[v].type
  BY DEF ClosesTop, Alike
<1>3. /\ Len(frames) \in Nat /\ Len(frames) >= 1
      /\ Len(frames') = Len(frames) - 1 /\ DOMAIN frames' = 1 .. Len(frames) - 1
      /\ \A k \in 1 .. Len(frames) - 1 : frames'[k] = frames[k]
      /\ \A k \in 0 .. Len(frames) - 1 : PathTo(frames', k) = PathTo(frames, k)
  BY FramesClosed
<1>4. Stack(frames) /\ Stack(frames') /\ DOMAIN frames = 1 .. Len(frames)
  BY <1>3, Parts DEF Stack
<1>5. Lex(i) \notin Blanks /\ ~IsName(i) /\ ~IsValue(i)
  BY OtherLexemes DEF IsName, IsValue
<1>6. Depth(i) = Len(frames) /\ Depth(i + 1) = Len(frames) - 1
  <2>1. Depth(i) = Len(frames)
    BY <1>1 DEF BracketsOpen
  <2>2. Weight(Lex(i)) = -1
    BY Weights DEF Enders
  <2>3. Depth(i + 1) = Depth(i) + Weight(Lex(i))
    BY DepthLex
  <2> QED BY <1>3, <2>1, <2>2, <2>3
<1>7. BracketsOpen(tree', frames', i + 1)
  <2> DEFINE c == Len(frames) - 1
  <2>1. c \in Nat /\ c <= Len(frames) /\ Len(frames') \in {c, c + 1} /\ i + 1 \in Nat /\ i <= i + 1
    BY <1>3
  <2>2. SameContainers(tree, frames, tree', frames', c)
    <3>1. ASSUME NEW k \in 1 .. c
          PROVE  /\ frames'[k].kind = frames[k].kind
                 /\ tree'[PathTo(frames', k - 1)].start = tree[PathTo(frames, k - 1)].start
      <4>1. k - 1 \in 0 .. c /\ k \in 1 .. Len(frames)
        BY <1>3
      <4>2. PathTo(frames, k - 1) \in DOMAIN tree
        BY <4>1, OpenInTree
      <4> QED BY <1>2, <1>3, <4>1, <4>2
    <3> QED BY <3>1 DEF SameContainers
  <2>3. StayOpen(c, i, i + 1)
    <3>1. \A q \in i .. i + 1 : q = i \/ q = i + 1
      OBVIOUS
    <3> QED BY <1>3, <1>6, <3>1 DEF StayOpen
  <2>4. Len(frames') = c /\ Depth(i + 1) = Len(frames')
    BY <1>3, <1>6
  <2> HIDE DEF c
  <2> QED BY <1>1, <1>4, <2>1, <2>2, <2>3, <2>4, BracketsTo
<1>8. FitsBefore(i + 1)
  BY <1>1, <1>5, FitsOver
<1>9. WantsWhatComes(frames', "return", i + 1)
  <2>1. Prior(i + 1) = i /\ i # -1
    BY <1>5, PriorNext
  <2>2. ValueEnds(i + 1)
    BY <1>5, <2>1 DEF ValueEnds, Previous, At, WantsColon
  <2>3. ASSUME NEW k \in DOMAIN frames' PROVE frames'[k].key # <<"name", "empty">>
    <3>1. k \in 1 .. Len(frames) - 1
      BY <1>3, Zenon
    <3>2. k \in 1 .. Len(frames) /\ k # Len(frames)
      BY <1>3, <3>1
    <3>3. frames[k].key # <<"name", "empty">>
      BY <1>1, <1>4, <3>2 DEF WantsWhatComes
    <3> QED BY <1>3, <3>1, <3>3
  <2> QED BY <2>2, <2>3 DEF WantsWhatComes
<1>10. TreeDenotes(tree', DOMAIN tree, {}, i + 1)
  <2>1. Keeps(tree, DOMAIN tree, tree', DOMAIN tree) /\ DOMAIN tree = DOMAIN tree \cup {}
    BY <1>2 DEF Keeps
  <2>2. ReadsOne(tree', DOMAIN tree, {}, i, i + 1) /\ Awaits(tree', DOMAIN tree, {}, i + 1)
    <3>1. \A q \in i .. (i + 1) - 1 : q = i
      OBVIOUS
    <3> QED BY <1>5, <3>1 DEF ReadsOne, Awaits, Finds
  <2>3. i <= i + 1 /\ i + 1 \in Nat
    OBVIOUS
  <2> QED BY <1>1, <2>1, <2>2, <2>3, TreeMore
<1>11. NamesAreKeys(tree', i + 1)
  <2>1. \A q \in i .. (i + 1) - 1 : ~IsName(q)
    <3>1. \A q \in i .. (i + 1) - 1 : q = i
      OBVIOUS
    <3> QED BY <1>5, <3>1
  <2>2. i <= i + 1 /\ i + 1 \in Nat
    OBVIOUS
  <2> QED BY <1>1, <1>2, <2>1, <2>2, NamesAreKeysMore
<1>12. Awaited(frames', "return") = {} /\ Held(tree', frames', "return") = DOMAIN tree
  BY <1>2 DEF Awaited, Held
<1> QED BY <1>7, <1>8, <1>9, <1>10, <1>11, <1>12 DEF Parsed

\* The reader moves on to a new member or element.
LEMMA ParsedMoved ==
  ASSUME IInv, IInv', KindsOK, NEW key, MovesOn(key), NEW i \in Nat, NEW m \in Nat, i < m,
         Parsed(tree, frames, pc, i), Append(Container, key) \notin DOMAIN tree,
         Belongs(tree, DOMAIN tree, Append(Container, key), m), key # <<"name", "empty">>,
         WantsValue(m), Previous(m) # "[", FitsBefore(m), Depth(m) = Depth(i),
         StayOpen(Len(frames), i, m), \A j \in i .. m - 1 : ~IsValue(j),
         \A j \in i .. m - 1 : IsName(j) => key = <<"name", Lex(j)>> /\ tree[Container].start = Holder(j),
         key[1] = "name" => \E j \in i .. m - 1 : /\ IsName(j) /\ Lex(j) = key[2]
                                                  /\ tree[Container].start = Holder(j)
  PROVE  Parsed(tree', frames', "value", m)
<1> DEFINE new == Append(Container, key)
<1>1. /\ BracketsOpen(tree, frames, i) /\ WantsWhatComes(frames, pc, i)
      /\ TreeDenotes(tree, DOMAIN tree, {}, i) /\ NamesAreKeys(tree, i)
      /\ \A v \in DOMAIN tree \ {<<>>} : Front(v) \in DOMAIN tree
      /\ pc # "value" /\ frames # <<>> /\ key \in Keys
  <2>1. pc # "value" /\ frames # <<>> /\ key \in Keys
    BY DEF MovesOn
  <2> QED BY <2>1, AllHeld DEF Parsed
<1>2. /\ DOMAIN tree' = DOMAIN tree \cup {new}
      /\ \A v \in DOMAIN tree : tree'[v].start = tree[v].start /\ tree'[v].type = tree[v].type
  BY DEF MovesOn, Alike
<1>3. /\ Len(frames) \in Nat /\ Len(frames) >= 1
      /\ Len(frames') = Len(frames) /\ DOMAIN frames' = 1 .. Len(frames)
      /\ \A k \in 1 .. Len(frames) - 1 : frames'[k] = frames[k]
      /\ \A k \in 1 .. Len(frames) : frames'[k].kind = frames[k].kind
      /\ frames'[Len(frames)].key = key
      /\ \A k \in 0 .. Len(frames) - 1 : PathTo(frames', k) = PathTo(frames, k)
      /\ Path(frames') = new
  BY FramesMoved
<1>4. Stack(frames) /\ Stack(frames') /\ DOMAIN frames = 1 .. Len(frames)
  BY <1>3, Parts DEF Stack
<1>5. /\ Container \in DOMAIN tree /\ Container \in Seq(Keys)
      /\ new \in Seq(Keys) /\ new # <<>> /\ Front(new) = Container /\ Last(new) = key
  BY <1>1, ContainerIs, FrontOfAppend
<1>6. i <= m /\ Len(frames) <= Len(frames) /\ Len(frames') \in {Len(frames), Len(frames) + 1}
  BY <1>3
<1>7. BracketsOpen(tree', frames', m)
  <2>1. SameContainers(tree, frames, tree', frames', Len(frames))
    <3>1. ASSUME NEW k \in 1 .. Len(frames)
          PROVE  /\ frames'[k].kind = frames[k].kind
                 /\ tree'[PathTo(frames', k - 1)].start = tree[PathTo(frames, k - 1)].start
      <4>1. k - 1 \in 0 .. Len(frames) - 1
        BY <1>3
      <4>2. PathTo(frames, k - 1) \in DOMAIN tree
        BY OpenInTree
      <4> QED BY <1>2, <1>3, <4>1, <4>2
    <3> QED BY <3>1 DEF SameContainers
  <2>2. Depth(m) = Len(frames')
    BY <1>1, <1>3 DEF BracketsOpen
  <2> HIDE DEF new
  <2> QED BY <1>1, <1>3, <1>4, <1>6, <2>1, <2>2, BracketsTo
<1>8. WantsWhatComes(frames', "value", m)
  <2>1. ASSUME NEW k \in DOMAIN frames' PROVE frames'[k].key # <<"name", "empty">>
    <3>1. k \in 1 .. Len(frames)
      BY <1>3, Zenon
    <3>2. CASE k = Len(frames)
      BY <1>3, <3>2
    <3>3. CASE k # Len(frames)
      <4>1. k \in 1 .. Len(frames) - 1
        BY <1>3, <3>1, <3>3
      <4>2. frames[k].key # <<"name", "empty">>
        BY <1>1, <1>4, <3>1, <3>3 DEF WantsWhatComes
      <4> QED BY <1>3, <4>1, <4>2
    <3> QED BY <3>2, <3>3
  <2> QED BY <2>1 DEF WantsWhatComes
<1>9. Awaited(frames', "value") = {new} /\ Held(tree', frames', "value") = DOMAIN tree
  BY <1>2, <1>3 DEF Awaited, Held
<1>10. TreeDenotes(tree', DOMAIN tree, {new}, m)
  <2>1. Keeps(tree, DOMAIN tree, tree', DOMAIN tree) /\ DOMAIN tree = DOMAIN tree \cup {}
    BY <1>2 DEF Keeps
  <2>2. ReadsOne(tree', DOMAIN tree, {}, i, m)
    BY DEF ReadsOne, Finds
  <2>3. Awaits(tree', DOMAIN tree, {new}, m)
    <3>1. \A w \in DOMAIN tree : ~IsPrefix(new, w)
      BY <1>5, NothingUnder
    <3>2. Belongs(tree', DOMAIN tree, new, m)
      <4>1. \A w \in DOMAIN tree : tree'[w].start = tree[w].start /\ tree[w].start \in Int
        BY <1>2, Parts, NodeIs
      <4>2. DOMAIN tree \subseteq DOMAIN tree
        OBVIOUS
      <4> HIDE DEF new
      <4> QED BY <4>1, <4>2, BelongsSame DEF new
    <3> QED BY <3>1, <3>2 DEF Awaits, IsStrictPrefix
  <2> HIDE DEF new
  <2> QED BY <1>1, <1>6, <2>1, <2>2, <2>3, TreeMore
<1>11. NamesAreKeys(tree', m)
  <2>1. \A v \in DOMAIN tree \ {<<>>} : tree'[Front(v)].start = tree[Front(v)].start
    BY <1>1, <1>2
  <2>2. tree'[Container].start = tree[Container].start
    BY <1>2, <1>5
  <2>3. ASSUME NEW j \in i .. m - 1, IsName(j)
        PROVE  \E v \in DOMAIN tree' \ {<<>>} : Last(v) = <<"name", Lex(j)>>
                                                /\ tree'[Front(v)].start = Holder(j)
    <3>1. new \in DOMAIN tree' \ {<<>>} /\ Last(new) = <<"name", Lex(j)>>
          /\ tree'[Front(new)].start = Holder(j)
      BY <1>2, <1>5, <2>2, <2>3
    <3> QED BY <3>1
  <2>4. ASSUME NEW v \in DOMAIN tree' \ DOMAIN tree, Last(v)[1] = "name"
        PROVE  \E j \in i .. m - 1 : /\ IsName(j) /\ Lex(j) = Last(v)[2]
                                     /\ tree'[Front(v)].start = Holder(j)
    <3>1. v = new
      BY <1>2, <2>4
    <3> QED BY <1>5, <2>2, <2>4, <3>1
  <2>5. DOMAIN tree \subseteq DOMAIN tree'
    BY <1>2
  <2> HIDE DEF new
  <2> QED BY <1>1, <1>6, <2>1, <2>3, <2>4, <2>5, NamesAreKeysMore
<1> QED BY <1>7, <1>8, <1>9, <1>10, <1>11 DEF Parsed

\* These are named, as the SMT solver is not given them as they are.
Comma == ","
OpeningBrace == "{"
ClosingBrace == "}"

\* The reader stays in an object, after a comma.
LEMMA ParsedStayed ==
  ASSUME IInv, IInv', StaysIn, NEW i \in Nat, i < Len(doc), Parsed(tree, frames, pc, i),
         Lex(i) = Comma, Fits(i), Around(i) = Bracket("object")
  PROVE  Parsed(tree', frames', "member", i + 1)
<1>1. /\ BracketsOpen(tree, frames, i) /\ FitsBefore(i) /\ WantsWhatComes(frames, "return", i)
      /\ TreeDenotes(tree, DOMAIN tree, {}, i) /\ NamesAreKeys(tree, i)
      /\ \A v \in DOMAIN tree \ {<<>>} : Front(v) \in DOMAIN tree
      /\ frames' = frames
  <2>1. pc = "return" /\ pc # "value" /\ frames' = frames
    BY DEF StaysIn
  <2> QED BY <2>1, AllHeld DEF Parsed
<1>2. /\ DOMAIN tree' = DOMAIN tree
      /\ \A v \in DOMAIN tree : tree'[v].start = tree[v].start /\ tree'[v].type = tree[v].type
  BY DEF StaysIn, Alike
<1>3. Stack(frames) /\ Len(frames) \in Nat /\ DOMAIN frames = 1 .. Len(frames)
  BY Parts DEF Stack
<1>4. Lex(i) \notin Blanks /\ ~IsName(i) /\ ~IsValue(i)
  BY OtherLexemes, Zenon DEF IsName, IsValue, Comma
<1>5. Depth(i) = Len(frames) /\ Depth(i + 1) = Depth(i) /\ Depth(i) \in Int
  <2>1. Depth(i) = Len(frames)
    BY <1>1 DEF BracketsOpen
  <2>2. Weight(Lex(i)) = 0
    BY Weights, Zenon DEF Comma
  <2>3. Depth(i + 1) = Depth(i) + Weight(Lex(i))
    BY DepthLex
  <2> QED BY <1>3, <2>1, <2>2, <2>3
<1>6. \A r \in i .. i + 1 : Depth(r) >= Depth(i)
  <2>1. \A r \in i .. i + 1 : r = i \/ r = i + 1
    OBVIOUS
  <2> QED BY <1>5, <2>1
<1>7. BracketsOpen(tree', frames', i + 1)
  <2>1. SameContainers(tree, frames, tree', frames', Len(frames))
    <3>1. ASSUME NEW k \in 1 .. Len(frames)
          PROVE  tree'[PathTo(frames, k - 1)].start = tree[PathTo(frames, k - 1)].start
      BY <1>2, OpenInTree
    <3> QED BY <1>1, <3>1 DEF SameContainers
  <2>2. StayOpen(Len(frames), i, i + 1)
    BY <1>5, <1>6 DEF StayOpen
  <2>3. /\ i <= i + 1 /\ i + 1 \in Nat /\ Len(frames) <= Len(frames)
        /\ Len(frames) \in {Len(frames), Len(frames) + 1} /\ Depth(i + 1) = Len(frames)
    BY <1>3, <1>5
  <2> QED BY <1>1, <1>3, <2>1, <2>2, <2>3, BracketsTo
<1>8. FitsBefore(i + 1)
  BY <1>1, <1>4, FitsOver
<1>9. WantsWhatComes(frames', "member", i + 1)
  <2>1. Prior(i + 1) = i /\ i # -1
    BY <1>4, PriorNext
  <2>2. Previous(i + 1) = Comma
    BY <2>1 DEF Previous, At
  <2>3. Holder(i + 1) = Holder(i)
    <3>1. i <= i + 1 /\ i + 1 \in Nat
      OBVIOUS
    <3> QED BY <1>5, <1>6, <3>1, HolderOver
  <2>4. WantsName(i + 1)
    <3>1. Around(i + 1) = Around(i)
      BY <2>3 DEF Around
    <3> QED BY <2>2, <3>1, Zenon DEF WantsName, Bracket, Comma
  <2>5. \A k \in DOMAIN frames : frames[k].key # <<"name", "empty">>
    BY <1>1 DEF WantsWhatComes
  <2>6. Previous(i + 1) # "{"
    BY <2>2, Zenon DEF Comma
  <2> QED BY <1>1, <2>4, <2>5, <2>6, Zenon DEF WantsWhatComes
<1>10. TreeDenotes(tree', DOMAIN tree, {}, i + 1)
  <2>1. Keeps(tree, DOMAIN tree, tree', DOMAIN tree) /\ DOMAIN tree = DOMAIN tree \cup {}
    BY <1>2 DEF Keeps
  <2>2. ReadsOne(tree', DOMAIN tree, {}, i, i + 1) /\ Awaits(tree', DOMAIN tree, {}, i + 1)
    <3>1. \A q \in i .. (i + 1) - 1 : q = i
      OBVIOUS
    <3> QED BY <1>4, <3>1 DEF ReadsOne, Awaits, Finds
  <2>3. i <= i + 1 /\ i + 1 \in Nat
    OBVIOUS
  <2> QED BY <1>1, <2>1, <2>2, <2>3, TreeMore
<1>11. NamesAreKeys(tree', i + 1)
  <2>1. \A q \in i .. (i + 1) - 1 : ~IsName(q)
    <3>1. \A q \in i .. (i + 1) - 1 : q = i
      OBVIOUS
    <3> QED BY <1>4, <3>1
  <2>2. i <= i + 1 /\ i + 1 \in Nat
    OBVIOUS
  <2> QED BY <1>1, <1>2, <2>1, <2>2, NamesAreKeysMore
<1>12. Awaited(frames', "member") = {} /\ Held(tree', frames', "member") = DOMAIN tree
  BY <1>2 DEF Awaited, Held
<1> QED BY <1>7, <1>8, <1>9, <1>10, <1>11, <1>12 DEF Parsed

-----------------------------------------------------------------------------
(* What may come next.                                                     *)

\* What comes before p tells what p wants, one thing at most.
LEMMA OneWant ==
  ASSUME NEW p
  PROVE  /\ WantsValue(p) => ~WantsName(p) /\ ~WantsColon(p) /\ ~ValueEnds(p) /\ Previous(p) # "{"
         /\ WantsName(p) => ~WantsColon(p) /\ ~ValueEnds(p) /\ Previous(p) # "["
         /\ WantsColon(p) => ~ValueEnds(p) /\ Previous(p) # "{" /\ Previous(p) # "["
         /\ ValueEnds(p) => Previous(p) # "{" /\ Previous(p) # "["
<1>1. WantsColon(p) => Previous(p) \in Names
  BY Zenon DEF WantsColon, Previous, At, IsName
<1>2. WantsValue(p) => Previous(p) \in {"none", ":", "[", ","} /\ (Previous(p) = "," => Around(p) = "[")
  BY Zenon DEF WantsValue
<1>3. WantsName(p) => Previous(p) \in {"{", ","} /\ (Previous(p) = "," => Around(p) = "{")
  BY Zenon DEF WantsName
<1>4. ValueEnds(p) => ~WantsColon(p) /\ Previous(p) \in Scalars \cup Enders
  BY Zenon DEF ValueEnds
<1>5. \A x \in {"none", ":", "[", "{", ","} : x \notin Names /\ x \notin Scalars \cup Enders
  BY Zenon DEF Names, Scalars, Enders, Strings, Numbers, Literals, Undecodable
<1>6. WantsValue(p) => Previous(p) # "{" /\ ~WantsName(p)
  <2>1. "none" # "{" /\ ":" # "{" /\ "[" # "{" /\ "," # "{" /\ "none" # "," /\ ":" # "," /\ "[" # ","
    OBVIOUS
  <2> QED BY <1>2, <1>3, <2>1, Zenon
<1>7. WantsName(p) => Previous(p) # "["
  <2>1. "{" # "[" /\ "," # "["
    OBVIOUS
  <2> QED BY <1>3, <2>1, Zenon
<1>8. WantsValue(p) => ~WantsColon(p) /\ ~ValueEnds(p)
  BY <1>1, <1>2, <1>4, <1>5, Zenon
<1>9. WantsName(p) => ~WantsColon(p) /\ ~ValueEnds(p)
  BY <1>1, <1>3, <1>4, <1>5, Zenon
<1>10. WantsColon(p) => ~ValueEnds(p) /\ Previous(p) # "{" /\ Previous(p) # "["
  BY <1>1, <1>4, <1>5, Zenon
<1>11. ValueEnds(p) => Previous(p) # "{" /\ Previous(p) # "["
  BY <1>4, <1>5, Zenon
<1> QED BY <1>6, <1>7, <1>8, <1>9, <1>10, <1>11

LEMMA FitsAValue ==
  ASSUME NEW i, WantsValue(i), Lex(i) \notin Blanks, Fits(i)
  PROVE  IsValue(i) \/ (Lex(i) = "]" /\ Previous(i) = "[")
<1>1. ~WantsName(i) /\ ~WantsColon(i) /\ ~ValueEnds(i) /\ Previous(i) # "{"
  BY OneWant
<1> QED BY <1>1, Zenon DEF Fits, IsName

LEMMA FitsAName ==
  ASSUME NEW i, WantsName(i), Lex(i) \notin Blanks, Fits(i)
  PROVE  IsName(i) \/ (Lex(i) = "}" /\ Previous(i) = "{")
<1>1. ~WantsValue(i) /\ ~WantsColon(i) /\ ~ValueEnds(i) /\ Previous(i) # "["
  BY OneWant
<1> QED BY <1>1, Zenon DEF Fits, IsValue

LEMMA FitsAColon ==
  ASSUME NEW i, WantsColon(i), Lex(i) \notin Blanks, Fits(i)
  PROVE  Lex(i) = ":"
<1>1. ~WantsValue(i) /\ ~WantsName(i) /\ ~ValueEnds(i) /\ Previous(i) # "{" /\ Previous(i) # "["
  BY OneWant
<1> QED BY <1>1, Zenon DEF Fits, IsValue, IsName

LEMMA FitsAnEnd ==
  ASSUME NEW i, ValueEnds(i), Lex(i) \notin Blanks
  PROVE  Fits(i) <=> \/ Lex(i) = "," /\ Holder(i) # -1
                     \/ Lex(i) = "}" /\ Around(i) = "{"
                     \/ Lex(i) = "]" /\ Around(i) = "["
                     \/ Lex(i) = "NUL" /\ Holder(i) = -1
<1>1. ~WantsValue(i) /\ ~WantsName(i) /\ ~WantsColon(i) /\ Previous(i) # "{" /\ Previous(i) # "["
  BY OneWant
<1> QED BY <1>1, Zenon DEF Fits, IsValue, IsName

\* What does not fit is not JSON.
LEMMA NotJson ==
  ASSUME Len(doc) \in Nat, NEW i \in 0 .. Len(doc), ~Fits(i)
  PROVE  ~IsJson
BY DEF IsJson

-----------------------------------------------------------------------------
(* Tokens of plain texts.                                                  *)

\* The token t after p.
TokenGiven(t, p) ==
  /\ t.start \in Nat /\ t.start \in 0 .. Len(doc) /\ BlankTo(p, t.start)
  /\ Lex(t.start) \notin Blanks /\ Lex(t.start) \notin Comments
  /\ t.lex = IF Lex(t.start) = "NaN" THEN "?" ELSE Lex(t.start)
  /\ Lex(t.start) = "NUL" <=> t.start = Len(doc)
  /\ t.lex \notin {"open", "NUL", "?"} => t.start < Len(doc) /\ t.end = t.start + 1
                                          /\ t.lex = Lex(t.start)

LEMMA TokenIsGiven ==
  ASSUME IInv, Strict, Plain, NEW p \in 0 .. Len(doc)
  PROVE  /\ CommentsSkipped(p) = AnyToken(p) /\ ValueToken(p) = AnyToken(p)
         /\ TokenGiven(AnyToken(p), p)
<1> DEFINE t == AnyToken(p)
<1>1. doc \in Seq(Lexemes) /\ Len(doc) \in Nat /\ p \in Nat
  BY Parts
<1>2. ~Mentions(Comments)
  BY DEF Plain, Mentions
<1>3. CommentsSkipped(p) = t /\ ValueToken(p) = t /\ t.lex \notin Comments
  <2>1. CommentsSkipped(p) = t /\ t.lex \notin Comments
    BY <1>2, NoComments
  <2> QED BY <2>1 DEF ValueToken
<1>4. /\ \A j \in p .. t.start - 1 : Lex(j) \in Blanks
      /\ t.start \in p .. Len(doc)
      /\ t.lex \notin {"open", "NUL", "?"} =>
           Lex(t.start) = t.lex /\ t.start < Len(doc) /\ t.end = t.start + 1
  BY <1>1, TokenText DEF AnyToken
<1>5. t.lex = IF Lex(t.start) = "NaN" THEN "?" ELSE Lex(t.start)
  BY DEF AnyToken, TokenFrom, Strict
<1>6. t.lex \notin Blanks
  BY <1>1, TokenFromIs DEF AnyToken
<1>7. "NaN" \notin Blanks /\ "NaN" \notin Comments
  BY Zenon DEF Blanks, Comments, LineComments
<1> HIDE DEF t
<1>8. Lex(t.start) \notin Blanks /\ Lex(t.start) \notin Comments
  BY <1>3, <1>5, <1>6, <1>7, Zenon
<1>9. Lex(t.start) = "NUL" <=> t.start = Len(doc)
  <2>1. CASE t.start < Len(doc)
    <3>1. t.start + 1 \in DOMAIN doc /\ Lex(t.start) = doc[t.start + 1] /\ t.start # Len(doc)
      BY <1>1, <1>4, <2>1, LenProperties DEF Lex
    <3> QED BY <3>1 DEF Plain, Mentions
  <2>2. CASE t.start = Len(doc)
    BY <2>2 DEF Lex
  <2> QED BY <1>1, <1>4, <2>1, <2>2
<1>10. t.start \in Nat /\ t.start \in 0 .. Len(doc) /\ BlankTo(p, t.start)
  BY <1>1, <1>4 DEF BlankTo
<1> QED BY <1>3, <1>4, <1>5, <1>8, <1>9, <1>10 DEF TokenGiven, t

\* One lexeme on.
LEMMA DepthStep ==
  ASSUME NEW i \in Nat, i < Len(doc), NEW c, Depth(i) = c, c \in Nat
  PROVE  /\ Lex(i) \in Openers => Depth(i + 1) = c + 1 /\ StayOpen(c, i, i + 1) /\ StayOpen(c + 1, i + 1, i + 1)
                                  /\ Holder(i + 1) = i
         /\ Lex(i) \in Enders => Depth(i + 1) = c - 1
         /\ Lex(i) \notin Openers \cup Enders => Depth(i + 1) = c /\ StayOpen(c, i, i + 1)
                                                 /\ Holder(i + 1) = Holder(i)
<1>1. Depth(i + 1) = Depth(i) + Weight(Lex(i)) /\ Depth(i) \in Int
  BY DepthLex
<1>2. \A q \in i .. i + 1 : q = i \/ q = i + 1
  OBVIOUS
<1>3. \A q \in i + 1 .. i + 1 : q = i + 1
  OBVIOUS
<1>4. ASSUME Lex(i) \in Openers
      PROVE  /\ Depth(i + 1) = c + 1 /\ StayOpen(c, i, i + 1) /\ StayOpen(c + 1, i + 1, i + 1)
             /\ Holder(i + 1) = i
  <2>1. Weight(Lex(i)) = 1
    BY <1>4 DEF Weight
  <2>2. Depth(i + 1) = c + 1
    BY <1>1, <2>1
  <2>3. StayOpen(c, i, i + 1)
    <3>1. c >= c /\ c + 1 >= c
      OBVIOUS
    <3> QED BY <1>2, <2>2, <3>1 DEF StayOpen
  <2>4. StayOpen(c + 1, i + 1, i + 1)
    <3>1. c + 1 >= c + 1
      OBVIOUS
    <3> QED BY <1>3, <2>2, <3>1 DEF StayOpen
  <2>5. Holder(i + 1) = i
    <3>1. i + 1 \in Nat /\ i \in -1 .. (i + 1) - 1 /\ \A q \in 0 .. (i + 1) - 1 : q <= i
      OBVIOUS
    <3>2. Depth(i) < Depth(i + 1)
      BY <2>2
    <3> QED BY <3>1, <3>2, HolderUnique
  <2> QED BY <2>2, <2>3, <2>4, <2>5
<1>5. ASSUME Lex(i) \in Enders PROVE Depth(i + 1) = c - 1
  <2>1. Weight(Lex(i)) = -1
    <3>1. Lex(i) \notin Openers
      BY <1>5, Zenon DEF Openers, Enders
    <3> QED BY <1>5, <3>1 DEF Weight
  <2> QED BY <1>1, <2>1
<1>6. ASSUME Lex(i) \notin Openers \cup Enders
      PROVE  Depth(i + 1) = c /\ StayOpen(c, i, i + 1) /\ Holder(i + 1) = Holder(i)
  <2>1. Weight(Lex(i)) = 0
    BY <1>6 DEF Weight
  <2>2. Depth(i + 1) = c
    BY <1>1, <2>1
  <2>3. \A q \in i .. i + 1 : Depth(q) >= c
    <3>1. c >= c
      OBVIOUS
    <3> QED BY <1>2, <2>2, <3>1
  <2>4. i + 1 \in Nat /\ i <= i + 1
    OBVIOUS
  <2> QED BY <2>2, <2>3, <2>4, HolderOver DEF StayOpen
<1> QED BY <1>4, <1>5, <1>6

\* What is over blanks stays open, and so does what two stretches leave open.
LEMMA OpenOverBlanks ==
  ASSUME Len(doc) \in Nat, NEW p \in Nat, NEW q \in Nat, BlankTo(p, q), NEW c \in Nat, Depth(p) >= c
  PROVE  StayOpen(c, p, q)
<1>1. \A r \in p .. q : Depth(r) = Depth(p)
  BY OverBlanks
<1> QED BY <1>1, Zenon DEF StayOpen

LEMMA OpenOn ==
  ASSUME NEW p \in Nat, NEW q \in Nat, NEW r \in Nat, p <= q, q <= r, NEW c \in Nat,
         StayOpen(c, p, q), StayOpen(c, q, r)
  PROVE  StayOpen(c, p, r)
<1>1. \A x \in p .. r : x \in p .. q \/ x \in q .. r
  OBVIOUS
<1> QED BY <1>1, Zenon DEF StayOpen

LEMMA OpenLess ==
  ASSUME NEW p \in Nat, NEW q \in Nat, NEW c \in Nat, StayOpen(c + 1, p, q)
  PROVE  StayOpen(c, p, q)
<1>1. ASSUME NEW x \in p .. q PROVE Depth(x) >= c
  <2>1. Depth(x) >= c + 1
    BY DEF StayOpen
  <2>2. x \in Nat
    OBVIOUS
  <2>3. Depth(x) \in Int
    BY <2>2, DepthIs
  <2> QED BY <2>1, <2>3
<1> QED BY <1>1 DEF StayOpen

-----------------------------------------------------------------------------
(* What each step of a strict reader does on a plain text.                 *)

Good == Strict /\ Plain /\ Parsed(tree, frames, pc, pos)
\* What a step that goes on reading leaves.
Leaves == IF ok' THEN Parsed(tree', frames', pc', pos') ELSE ~IsJson

LEMMA AtToken ==
  ASSUME IInv, Good
  PROVE  LET i == AnyToken(pos).start
         IN  /\ Token = AnyToken(pos) /\ CommentsSkipped(pos) = AnyToken(pos)
             /\ i \in Nat /\ i \in 0 .. Len(doc) /\ Len(doc) \in Nat /\ TokenGiven(AnyToken(pos), pos)
             /\ Parsed(tree, frames, pc, i) /\ FitsBefore(i)
             /\ Depth(i) = Len(frames) /\ Len(frames) \in Nat
<1>1. pos \in Nat /\ pos \in 0 .. Len(doc) /\ Len(doc) \in Nat /\ frames \in Seq(Frame) /\ Len(frames) \in Nat
  BY Parts
<1>2. Token = AnyToken(pos) /\ CommentsSkipped(pos) = AnyToken(pos) /\ TokenGiven(AnyToken(pos), pos)
  BY <1>1, TokenIsGiven DEF Good, Token
<1> DEFINE i == AnyToken(pos).start
<1>3. i \in Nat /\ i \in 0 .. Len(doc) /\ BlankTo(pos, i)
  BY <1>2 DEF TokenGiven
<1> HIDE DEF i
<1>4. Parsed(tree, frames, pc, i)
  BY <1>1, <1>3, StackIs, ParsedSkip DEF Good
<1>5. FitsBefore(i) /\ Depth(i) = Len(frames)
  BY <1>4 DEF Parsed, BracketsOpen
<1> QED BY <1>1, <1>2, <1>3, <1>4, <1>5 DEF i

\* The value read at i is at most one, a name, or nothing.
LEMMA OnlyAt ==
  ASSUME NEW i \in Nat
  PROVE  \A j \in i .. (i + 1) - 1 : j = i
OBVIOUS

LEMMA ReadScalarParsed ==
  ASSUME IInv, IInv', Settled, Mirrors, Good, ReadScalar
  PROVE  Leaves
<1> DEFINE i == Token.start
<1>1. /\ i \in Nat /\ i \in 0 .. Len(doc) /\ Len(doc) \in Nat /\ TokenGiven(Token, pos)
      /\ Parsed(tree, frames, pc, i) /\ FitsBefore(i) /\ Depth(i) = Len(frames) /\ Len(frames) \in Nat
  BY AtToken
<1>2. /\ pc = "value" /\ pc' = "return" /\ pos' = Token.end
      /\ Token.lex \in Literals \cup Strings \cup Numbers \cup {"NaN"}
      /\ ok' <=> Token.lex \notin Undecodable
  BY DEF ReadScalar, ReadValue, Return
<1>3. /\ Lex(i) = Token.lex /\ i < Len(doc) /\ pos' = i + 1 /\ Lex(i) \notin Blanks
      /\ Lex(i) \in Literals \cup Strings \cup Numbers
  <2>1. \A x \in Literals \cup Strings \cup Numbers \cup {"NaN"} : x \notin {"open", "NUL", "?"}
    BY Weights, Zenon
  <2>2. /\ Lex(i) = Token.lex /\ i < Len(doc) /\ Token.end = i + 1 /\ Lex(i) \notin Blanks
        /\ Token.lex = IF Lex(i) = "NaN" THEN "?" ELSE Lex(i)
    BY <1>1, <1>2, <2>1, Zenon DEF TokenGiven
  <2>3. Lex(i) # "NaN"
    <3>1. "NaN" # "?"
      OBVIOUS
    <3> QED BY <2>2, <3>1, Zenon
  <2> QED BY <1>2, <2>2, <2>3, Zenon
<1>4. WantsValue(i)
  BY <1>1, <1>2 DEF Parsed, WantsWhatComes
<1> HIDE DEF i
<1>5. CASE ~ok'
  <2>1. Lex(i) \in Undecodable
    BY <1>2, <1>3, <1>5, Zenon
  <2>2. Lex(i) \notin Scalars \cup Openers /\ Lex(i) # "]"
    BY <2>1, Zenon DEF Undecodable, Scalars, Openers
  <2>3. ~Fits(i)
    BY <1>3, <1>4, <2>2, FitsAValue, Zenon DEF IsValue
  <2> QED BY <1>1, <1>5, <2>3, NotJson DEF Leaves
<1>6. CASE ok'
  <2>1. Lex(i) \in Scalars
    BY <1>2, <1>3, <1>6, Zenon DEF Scalars
  <2>2. /\ ReadsTop /\ tree'[Top].start = i /\ tree'[Top].type = Lex(i)
    BY <1>3, <1>6, ReadScalarPlaces DEF i
  <2>3. TypeAt(i) = Lex(i) /\ Lex(i) \notin Openers \cup Enders
    <3>1. Lex(i) \notin Openers \cup Enders
      BY <2>1, Zenon DEF Scalars, Openers, Enders, Literals, Strings, Numbers
    <3> QED BY <3>1, Zenon DEF TypeAt, Openers
  <2>4. IsValue(i) /\ ~IsName(i) /\ Fits(i)
    BY <1>4, <2>1, OneWant, Zenon DEF IsValue, IsName, Fits
  <2>5. FitsBefore(i + 1)
    BY <1>1, <2>4, FitsOver
  <2>6. ValueEnds(i + 1)
    <3>1. Prior(i + 1) = i
      BY <1>1, <1>3, PriorNext
    <3>2. Previous(i + 1) = Lex(i)
      BY <1>1, <3>1 DEF Previous, At
    <3> QED BY <2>1, <2>4, <3>1, <3>2, Zenon DEF ValueEnds, WantsColon
  <2>7. Depth(i + 1) = Depth(i) /\ StayOpen(Len(frames), i, i + 1)
    BY <1>1, <1>3, <2>3, DepthStep
  <2>8. \A j \in i .. (i + 1) - 1 : ~IsName(j) /\ (IsValue(j) => j = i)
    BY <1>1, <2>4, OnlyAt
  <2>9. i + 1 \in Nat /\ i < i + 1
    BY <1>1
  <2>10. tree'[Top].type = TypeAt(i) /\ Parsed(tree, frames, "value", i)
    BY <1>1, <1>2, <2>2, <2>3
  <2>11. Parsed(tree', frames', "return", i + 1)
    BY <1>1, <2>2, <2>4, <2>5, <2>6, <2>7, <2>8, <2>9, <2>10, ParsedRead
  <2> QED BY <1>2, <1>3, <1>6, <2>11 DEF Leaves
<1> QED BY <1>5, <1>6

\* A bracket is opened at i, where a value is wanted.
LEMMA OpensAt ==
  ASSUME NEW i \in Nat, i < Len(doc), FitsBefore(i), NEW c \in Nat, Depth(i) = c,
         WantsValue(i), Lex(i) \in Openers
  PROVE  /\ IsValue(i) /\ ~IsName(i) /\ FitsBefore(i + 1)
         /\ Prior(i + 1) = i /\ Previous(i + 1) = Lex(i) /\ Holder(i + 1) = i /\ Around(i + 1) = Lex(i)
         /\ Depth(i + 1) = c + 1 /\ StayOpen(c, i, i + 1) /\ StayOpen(c + 1, i + 1, i + 1)
<1>1. IsValue(i) /\ ~IsName(i) /\ Fits(i)
  BY OneWant, Zenon DEF IsValue, IsName, Fits
<1>2. FitsBefore(i + 1)
  BY <1>1, FitsOver
<1>3. Lex(i) \notin Blanks
  BY OtherLexemes
<1>4. Prior(i + 1) = i /\ i # -1
  BY <1>3, PriorNext
<1>5. /\ Depth(i + 1) = c + 1 /\ StayOpen(c, i, i + 1) /\ StayOpen(c + 1, i + 1, i + 1)
      /\ Holder(i + 1) = i
  BY DepthStep
<1> QED BY <1>1, <1>2, <1>4, <1>5 DEF Previous, Around, At

LEMMA BeginObjectParsed ==
  ASSUME IInv, IInv', Settled, Mirrors, Good, BeginObject
  PROVE  Leaves
<1> DEFINE i == Token.start
           f == [kind |-> "object", key |-> <<"name", "empty">>]
<1>1. /\ i \in Nat /\ i \in 0 .. Len(doc) /\ Len(doc) \in Nat /\ TokenGiven(Token, pos)
      /\ Parsed(tree, frames, pc, i) /\ FitsBefore(i) /\ Depth(i) = Len(frames) /\ Len(frames) \in Nat
  BY AtToken
<1>2. /\ pc = "value" /\ pc' = "member" /\ pos' = Token.end /\ ok' = ok /\ ok
      /\ Token.lex = OpeningBrace
  BY FailedBefore, Zenon DEF BeginObject, ReadValue, OpeningBrace
<1>3. Lex(i) = OpeningBrace /\ i < Len(doc) /\ pos' = i + 1
  <2>1. OpeningBrace \notin {"open", "NUL", "?"}
    BY Zenon DEF OpeningBrace
  <2> QED BY <1>1, <1>2, <2>1, Zenon DEF TokenGiven
<1>4. WantsValue(i)
  BY <1>1, <1>2 DEF Parsed, WantsWhatComes
<1>5. OpensTop(f) /\ tree'[Top].start = i
  BY BeginObjectPlaces
<1> HIDE DEF i
<1>6. Lex(i) \in Openers /\ TypeAt(i) = "object" /\ Bracket("object") = Lex(i)
  BY <1>3, Zenon DEF Openers, TypeAt, OpeningBrace, Bracket
<1>7. f.kind = TypeAt(i) /\ Lex(i) = Bracket(f.kind) /\ f.key = <<"name", "empty">>
  BY <1>6
<1> HIDE DEF f
<1>8. /\ IsValue(i) /\ ~IsName(i) /\ FitsBefore(i + 1) /\ Previous(i + 1) = Lex(i)
      /\ Depth(i + 1) = Depth(i) + 1
      /\ StayOpen(Len(frames), i, i + 1) /\ StayOpen(Len(frames) + 1, i + 1, i + 1)
  BY <1>1, <1>3, <1>4, <1>6, OpensAt
<1>9. \A j \in i .. (i + 1) - 1 : ~IsName(j) /\ (IsValue(j) => j = i)
  BY <1>1, <1>8, OnlyAt
<1>10. i + 1 \in Nat /\ i < i + 1
  BY <1>1
<1>11. KindsOK /\ Parsed(tree, frames, "value", i) /\ pc' # "value"
  BY <1>1, <1>2 DEF Settled
<1>12. Parsed(tree', frames', pc', i + 1)
  BY <1>1, <1>5, <1>7, <1>8, <1>9, <1>10, <1>11, ParsedOpened
<1> QED BY <1>2, <1>3, <1>12 DEF Leaves

LEMMA BeginArrayParsed ==
  ASSUME IInv, IInv', Settled, Mirrors, Good, BeginArray
  PROVE  Leaves
<1> DEFINE i == Token.start
           next == AnyToken(Token.end)
           j == next.start
           f == [kind |-> "array", key |-> <<"index", 0>>]
<1>1. /\ i \in Nat /\ i \in 0 .. Len(doc) /\ Len(doc) \in Nat /\ TokenGiven(Token, pos)
      /\ Parsed(tree, frames, pc, i) /\ FitsBefore(i) /\ Depth(i) = Len(frames) /\ Len(frames) \in Nat
  BY AtToken
<1>2. /\ pc = "value" /\ Token.lex = "[" /\ ok
      /\ \/ next.lex = "]" /\ pc' = "return" /\ pos' = next.end /\ ok' = TRUE
         \/ next.lex # "]" /\ pc' = "value" /\ pos' = j /\ ok' = ok
  BY FailedBefore, Zenon DEF BeginArray, ReadValue, Return
<1>3. Lex(i) = "[" /\ i < Len(doc) /\ Token.end = i + 1
  <2>1. "[" \notin {"open", "NUL", "?"}
    OBVIOUS
  <2> QED BY <1>1, <1>2, <2>1, Zenon DEF TokenGiven
<1>4. WantsValue(i)
  BY <1>1, <1>2 DEF Parsed, WantsWhatComes
<1>5. /\ tree'[Top].start = i
      /\ (ReadsTop /\ tree'[Top].type = "array") \/ OpensTop(f)
  BY BeginArrayPlaces
<1>6. /\ TokenGiven(next, i + 1) /\ i + 1 \in 0 .. Len(doc) /\ i + 1 \in Nat /\ i < i + 1
  <2>1. i + 1 \in 0 .. Len(doc) /\ i + 1 \in Nat /\ i < i + 1
    BY <1>1, <1>3
  <2> QED BY <1>3, <2>1, TokenIsGiven DEF Good
<1>7. j \in Nat /\ BlankTo(i + 1, j) /\ Lex(j) \notin Blanks /\ i + 1 <= j
  BY <1>6 DEF TokenGiven, BlankTo
<1>8. next.lex = "]" => Lex(j) = "]" /\ next.end = j + 1 /\ j < Len(doc)
  <2>1. "]" \notin {"open", "NUL", "?"}
    OBVIOUS
  <2> QED BY <1>6, <2>1, Zenon DEF TokenGiven
<1>9. next.lex # "]" => Lex(j) # "]"
  <2>1. "]" # "NaN"
    OBVIOUS
  <2> QED BY <1>6, <2>1, Zenon DEF TokenGiven
<1> HIDE DEF i, j, next
<1>10. Lex(i) \in Openers /\ TypeAt(i) = "array" /\ Bracket("array") = Lex(i)
  <2>1. "[" # "{" /\ "array" # "object"
    OBVIOUS
  <2> QED BY <1>3, <2>1, Zenon DEF Openers, TypeAt, Bracket
<1>11. f.kind = TypeAt(i) /\ Lex(i) = Bracket(f.kind) /\ f.key = <<"index", 0>> /\ f.kind = "array"
  BY <1>10
<1> HIDE DEF f
<1>12. /\ IsValue(i) /\ ~IsName(i) /\ FitsBefore(i + 1)
       /\ Previous(i + 1) = Lex(i) /\ Around(i + 1) = Lex(i)
       /\ Depth(i + 1) = Len(frames) + 1
       /\ StayOpen(Len(frames), i, i + 1) /\ StayOpen(Len(frames) + 1, i + 1, i + 1)
  BY <1>1, <1>3, <1>4, <1>10, OpensAt
<1>13. /\ SamePlace(i + 1, j) /\ Depth(j) = Len(frames) + 1
       /\ FitsBefore(j) /\ Previous(j) = "[" /\ Around(j) = "["
  <2>1. SamePlace(i + 1, j) /\ Depth(j) = Depth(i + 1)
    BY <1>1, <1>6, <1>7, OverBlanks
  <2>2. FitsBefore(j)
    BY <1>6, <1>7, <1>12, FitsSkip
  <2> QED BY <1>3, <1>12, <2>1, <2>2, AlikeWants
<1>14. StayOpen(Len(frames) + 1, i + 1, j) /\ StayOpen(Len(frames), i, j)
  <2>1. Len(frames) + 1 \in Nat /\ Depth(i + 1) >= Len(frames) + 1
    BY <1>1, <1>12
  <2>2. StayOpen(Len(frames) + 1, i + 1, j)
    BY <1>1, <1>6, <1>7, <2>1, OpenOverBlanks
  <2>3. StayOpen(Len(frames), i + 1, j)
    BY <1>1, <1>6, <1>7, <2>2, OpenLess
  <2>4. i <= i + 1
    BY <1>1
  <2> QED BY <1>1, <1>6, <1>7, <1>12, <2>2, <2>3, <2>4, OpenOn
<1>15. \A q \in i .. j - 1 : q = i \/ (q # i /\ q \in i + 1 .. j - 1)
  BY <1>1, <1>6, <1>7
<1>16. \A q \in i + 1 .. j - 1 : ~IsName(q) /\ ~IsValue(q)
  BY <1>7, BlanksAreNothing, Zenon DEF BlankTo, IsName, IsValue
<1>17. \A q \in i .. j - 1 : ~IsName(q) /\ (IsValue(q) => q = i)
  BY <1>12, <1>15, <1>16, Zenon
<1>18. CASE next.lex = "]"
  <2>1. Lex(j) = "]" /\ pos' = j + 1 /\ j < Len(doc) /\ pc' = "return" /\ ok' = TRUE
    BY <1>2, <1>8, <1>18
  <2>2. ReadsTop /\ tree'[Top].type = "array"
    BY <1>5, <1>11, <2>1 DEF OpensTop
  <2>3. Lex(j) \in Enders /\ ~IsName(j) /\ ~IsValue(j)
    <3>1. Lex(j) \in Enders
      BY <2>1, Zenon DEF Enders
    <3> QED BY <3>1, OtherLexemes, Zenon DEF IsName, IsValue
  <2>4. Fits(j)
    BY <1>13, <2>1, Zenon DEF Fits
  <2>5. FitsBefore(j + 1)
    BY <1>7, <1>13, <2>3, <2>4, FitsOver
  <2>6. ValueEnds(j + 1)
    <3>1. Prior(j + 1) = j
      BY <1>7, PriorNext
    <3>2. Previous(j + 1) = Lex(j)
      BY <1>7, <3>1 DEF Previous, At
    <3> QED BY <2>3, <3>1, <3>2, Zenon DEF ValueEnds, WantsColon
  <2>7. Depth(j + 1) = Len(frames)
    <3>1. Len(frames) + 1 \in Nat /\ (Len(frames) + 1) - 1 = Len(frames)
      BY <1>1
    <3>2. Depth(j + 1) = (Len(frames) + 1) - 1
      BY <1>7, <1>13, <2>1, <2>3, <3>1, DepthStep
    <3> QED BY <3>1, <3>2
  <2>8. StayOpen(Len(frames), i, j + 1)
    <3>1. \A q \in j .. j + 1 : q = j \/ q = j + 1
      BY <1>7
    <3>2. Len(frames) >= Len(frames) /\ Len(frames) + 1 >= Len(frames)
      BY <1>1
    <3>3. StayOpen(Len(frames), j, j + 1)
      BY <1>13, <2>7, <3>1, <3>2 DEF StayOpen
    <3>4. i <= j /\ j <= j + 1 /\ j + 1 \in Nat
      BY <1>1, <1>7
    <3> QED BY <1>1, <1>7, <1>14, <3>3, <3>4, OpenOn
  <2>9. \A q \in i .. (j + 1) - 1 : ~IsName(q) /\ (IsValue(q) => q = i)
    <3>1. \A q \in i .. (j + 1) - 1 : q = j \/ q \in i .. j - 1
      BY <1>1, <1>7
    <3> QED BY <1>17, <2>3, <3>1, Zenon
  <2>10. j + 1 \in Nat /\ i < j + 1
    BY <1>1, <1>7
  <2>11. tree'[Top].type = TypeAt(i) /\ Depth(j + 1) = Depth(i) /\ Parsed(tree, frames, "value", i)
    BY <1>1, <1>2, <1>10, <2>2, <2>7
  <2>12. Parsed(tree', frames', "return", j + 1)
    BY <1>1, <1>5, <1>12, <2>2, <2>5, <2>6, <2>8, <2>9, <2>10, <2>11, ParsedRead
  <2> QED BY <2>1, <2>12 DEF Leaves
<1>19. CASE next.lex # "]"
  <2>1. Lex(j) # "]" /\ pos' = j /\ pc' = "value" /\ ok'
    BY <1>2, <1>9, <1>19
  <2>2. OpensTop(f)
    BY <1>5, <2>1 DEF ReadsTop
  <2>3. Lex(j) \notin Blanks \cup {"]"}
    BY <1>7, <2>1
  <2>4. i < j /\ Depth(j) = Depth(i) + 1 /\ KindsOK /\ Parsed(tree, frames, "value", i)
        /\ Previous(j) = Lex(i) /\ pc' # "member"
    BY <1>1, <1>2, <1>3, <1>7, <1>13, <2>1 DEF Settled
  <2>5. Parsed(tree', frames', pc', j)
    BY <1>1, <1>5, <1>7, <1>11, <1>12, <1>13, <1>14, <1>17, <2>2, <2>3, <2>4, ParsedOpened
  <2> QED BY <2>1, <2>5 DEF Leaves
<1> QED BY <1>18, <1>19

LEMMA SyntaxErrorParsed ==
  ASSUME IInv, Good, SyntaxError
  PROVE  Leaves
<1> DEFINE i == Token.start
<1>1. /\ i \in Nat /\ i \in 0 .. Len(doc) /\ Len(doc) \in Nat /\ TokenGiven(Token, pos)
      /\ Parsed(tree, frames, pc, i)
  BY AtToken
<1>2. /\ pc = "value" /\ ok' = FALSE
      /\ Token.lex \in {":", "?", "open", "NUL"} \cup Comments \cup Closers
  BY Zenon DEF SyntaxError, ReadValue
<1>3. /\ WantsValue(i) /\ (Previous(i) = "[" => Lex(i) # "]")
  BY <1>1, <1>2 DEF Parsed, WantsWhatComes
<1>4. Token.lex \notin Scalars \cup Openers
  BY <1>2, Zenon DEF Scalars, Openers, Literals, Strings, Numbers, Comments, LineComments, Closers
<1>5. Lex(i) \notin Scalars \cup Openers /\ Lex(i) \notin Blanks
  <2>1. Lex(i) \notin Blanks /\ Token.lex = IF Lex(i) = "NaN" THEN "?" ELSE Lex(i)
    BY <1>1 DEF TokenGiven
  <2>2. "NaN" \notin Scalars \cup Openers
    BY Zenon DEF Scalars, Openers, Literals, Strings, Numbers
  <2> QED BY <1>4, <2>1, <2>2, Zenon
<1> HIDE DEF i
<1>6. ~Fits(i)
  BY <1>3, <1>5, FitsAValue, Zenon DEF IsValue
<1> QED BY <1>1, <1>2, <1>6, NotJson DEF Leaves

\* Where the reader is in a container.
LEMMA InContainer ==
  ASSUME IInv, frames # <<>>, NEW i \in Nat, Parsed(tree, frames, pc, i)
  PROVE  /\ Container \in DOMAIN tree /\ Container \in Seq(Keys)
         /\ Holder(i) = tree[Container].start /\ Holder(i) \in 0 .. i - 1 /\ Holder(i) # -1
         /\ Around(i) = Bracket(Last(frames).kind)
         /\ Len(frames) \in Nat /\ Len(frames) >= 1 /\ Len(frames) \in DOMAIN frames
         /\ Last(frames) = frames[Len(frames)]
<1>1. frames \in Seq(Frame) /\ Len(frames) \in Nat /\ DOMAIN frames = 1 .. Len(frames)
  BY Parts
<1>2. Len(frames) # 0
  BY <1>1, EmptySeq
<1>3. Len(frames) >= 1 /\ Len(frames) \in DOMAIN frames
  BY <1>1, <1>2
<1>4. Container = PathTo(frames, Len(frames) - 1) /\ Container \in DOMAIN tree /\ Container \in Seq(Keys)
  BY ContainerIs
<1>5. /\ Holder(i) = tree[PathTo(frames, Len(frames) - 1)].start /\ Holder(i) \in 0 .. i - 1
      /\ Around(i) = Bracket(frames[Len(frames)].kind)
  BY <1>1, <1>2, StackIs, HolderOfStack DEF Parsed
<1>6. Holder(i) # -1
  BY <1>5
<1> QED BY <1>1, <1>3, <1>4, <1>5, <1>6 DEF Last

\* What a lexeme that is not a bracket leaves as it was.
LEMMA LexemeOver ==
  ASSUME NEW i \in Nat, i < Len(doc), NEW c \in Nat, Depth(i) = c, Lex(i) \notin Blanks,
         Lex(i) \notin Openers \cup Enders
  PROVE  /\ Depth(i + 1) = c /\ StayOpen(c, i, i + 1)
         /\ Holder(i + 1) = Holder(i) /\ Around(i + 1) = Around(i)
         /\ Prior(i + 1) = i /\ Previous(i + 1) = Lex(i)
<1>1. Depth(i + 1) = c /\ StayOpen(c, i, i + 1) /\ Holder(i + 1) = Holder(i)
  BY DepthStep
<1>2. Prior(i + 1) = i /\ i # -1
  BY PriorNext
<1> QED BY <1>1, <1>2 DEF Around, Previous, At

LEMMA AfterMemberParsed ==
  ASSUME IInv, IInv', Settled, Mirrors, Good, AfterMember
  PROVE  Leaves
<1> DEFINE t == AnyToken(pos)
           i == t.start
<1>1. /\ CommentsSkipped(pos) = t
      /\ i \in Nat /\ i \in 0 .. Len(doc) /\ Len(doc) \in Nat /\ TokenGiven(t, pos)
      /\ Parsed(tree, frames, pc, i)
  BY AtToken
<1>2. pc = "return" /\ frames # <<>> /\ Last(frames).kind = "object"
  BY DEF AfterMember
<1>3. ValueEnds(i)
  BY <1>1, <1>2 DEF Parsed, WantsWhatComes
<1>4. t.lex \notin Comments
  <2>1. "?" \notin Comments
    BY Zenon DEF Comments, LineComments
  <2> QED BY <1>1, <2>1, Zenon DEF TokenGiven
<1>5. \/ ~ok' /\ t.lex # ClosingBrace /\ t.lex # Comma
      \/ t.lex = ClosingBrace /\ pos' = t.end /\ pc' = "return" /\ ok'
      \/ t.lex = Comma /\ pos' = t.end /\ pc' = "member" /\ ok'
  BY <1>1, <1>4, Recovers, Zenon
     DEF AfterMember, CloseContainer, Return, ClosingBrace, Comma
<1>6. /\ t.lex # ClosingBrace => Lex(i) # ClosingBrace
      /\ t.lex # Comma => Lex(i) # Comma
      /\ t.lex \in {ClosingBrace, Comma} =>
           Lex(i) = t.lex /\ i < Len(doc) /\ t.end = i + 1 /\ Lex(i) \notin Blanks
      /\ Lex(i) \notin Blanks
  <2>1. \A x \in {ClosingBrace, Comma} : x \notin {"open", "NUL", "?", "NaN"}
    BY Zenon DEF ClosingBrace, Comma
  <2> QED BY <1>1, <2>1, Zenon DEF TokenGiven
<1> HIDE DEF i, t
<1>7. /\ Holder(i) # -1 /\ Around(i) = Bracket("object")
      /\ Around(i) = OpeningBrace /\ Around(i) # "["
  <2>1. Holder(i) # -1 /\ Around(i) = Bracket("object")
    BY <1>1, <1>2, InContainer
  <2> QED BY <2>1, Zenon DEF Bracket, OpeningBrace
<1>8. Fits(i) <=> Lex(i) = Comma \/ Lex(i) = ClosingBrace
  BY <1>3, <1>6, <1>7, FitsAnEnd, Zenon DEF Comma, ClosingBrace, OpeningBrace
<1>9. CASE ~ok' /\ t.lex # ClosingBrace /\ t.lex # Comma
  BY <1>1, <1>6, <1>8, <1>9, NotJson, Zenon DEF Leaves
<1>10. CASE t.lex = ClosingBrace /\ pos' = t.end /\ pc' = "return" /\ ok'
  <2>1. ClosesTop
    BY <1>10, AfterMemberPlaces DEF StaysIn
  <2>2. Lex(i) \in Enders /\ i < Len(doc) /\ pos' = i + 1 /\ Fits(i)
    BY <1>6, <1>8, <1>10, Zenon DEF ClosingBrace, Enders
  <2>3. Parsed(tree', frames', "return", i + 1)
    BY <1>1, <2>1, <2>2, ParsedClosed
  <2> QED BY <1>10, <2>2, <2>3 DEF Leaves
<1>11. CASE t.lex = Comma /\ pos' = t.end /\ pc' = "member" /\ ok'
  <2>1. StaysIn
    BY <1>11, AfterMemberPlaces DEF ClosesTop
  <2>2. Lex(i) = Comma /\ i < Len(doc) /\ pos' = i + 1 /\ Fits(i)
    BY <1>6, <1>8, <1>11, Zenon
  <2>3. Parsed(tree', frames', "member", i + 1)
    BY <1>1, <1>7, <2>1, <2>2, ParsedStayed
  <2> QED BY <1>11, <2>2, <2>3 DEF Leaves
<1> QED BY <1>5, <1>9, <1>10, <1>11

\* The next element of an array is a new one, and follows its neighbour.
LEMMA ElementIsNew ==
  ASSUME IInv, Settled, pc = "return", frames # <<>>, Last(frames).kind = "array",
         NEW key, key = <<"index", Last(frames).key[2] + 1>>
  PROVE  /\ key \in Keys /\ key[1] = "index" /\ key[2] > 0
         /\ Append(Container, key) \notin DOMAIN tree /\ Append(Container, key) # <<>>
         /\ Front(Append(Container, key)) = Container /\ Last(Append(Container, key)) = key
         /\ Neighbour(Append(Container, key)) \in DOMAIN tree
<1> DEFINE new == Append(Container, key)
           old == Last(frames).key
<1>1. /\ frames \in Seq(Frame) /\ Len(frames) \in Nat /\ DOMAIN frames = 1 .. Len(frames)
      /\ FramesOK /\ OpenValuesOK
  BY Parts, ToParts
<1>2. Len(frames) \in 1 .. Len(frames) /\ Last(frames) = frames[Len(frames)]
  <2>1. Len(frames) # 0
    BY <1>1, EmptySeq
  <2> QED BY <1>1, <2>1 DEF Last
<1>3. old \in {"index"} \X Nat
  BY <1>1, <1>2 DEF FramesOK
<1>4. old = <<"index", old[2]>> /\ old[2] \in Nat /\ key = <<"index", old[2] + 1>>
  BY <1>3
<1>5. key \in Keys /\ key[1] = "index" /\ key[2] = old[2] + 1 /\ key[2] > 0 /\ key[2] - 1 = old[2]
  BY <1>4 DEF Keys
<1> HIDE DEF old
<1>6. /\ Container \in Seq(Keys) /\ Container = PathTo(frames, Len(frames) - 1)
      /\ new # <<>> /\ Front(new) = Container /\ Last(new) = key
  BY <1>5, ContainerIs, FrontOfAppend
<1>7. new \notin DOMAIN tree
  <2> SUFFICES ASSUME new \in DOMAIN tree PROVE FALSE
    OBVIOUS
  <2>1. new \in Below /\ ElementsOK
    BY <1>6 DEF Below, Settled
  <2>2. Last(new)[2] <= frames[Len(frames)].key[2]
    BY <1>1, <1>2, <1>6, <2>1 DEF ElementsOK
  <2>3. key[2] <= old[2]
    BY <1>2, <1>6, <2>2 DEF old
  <2> QED BY <1>4, <1>5, <2>3
<1>8. Neighbour(new) \in DOMAIN tree
  <2>1. Neighbour(new) = Append(Container, old)
    BY <1>4, <1>5, <1>6 DEF Neighbour
  <2>2. /\ PathTo(frames, Len(frames)) \in Seq(Keys) /\ PathTo(frames, Len(frames)) # <<>>
        /\ Front(PathTo(frames, Len(frames))) = Container /\ Last(PathTo(frames, Len(frames))) = old
    BY <1>1, <1>2, <1>6, PathToIs DEF old
  <2>3. PathTo(frames, Len(frames)) = Append(Container, old)
    BY <2>2, AppendOfFront
  <2>4. PathTo(frames, Len(frames)) \in DOMAIN tree
    BY <1>1 DEF OpenValuesOK
  <2> QED BY <2>1, <2>3, <2>4
<1> QED BY <1>5, <1>6, <1>7, <1>8

LEMMA AfterElementParsed ==
  ASSUME IInv, IInv', Settled, Mirrors, Good, AfterElement
  PROVE  Leaves
<1> DEFINE t == AnyToken(pos)
           i == t.start
           key == <<"index", Last(frames).key[2] + 1>>
           new == Append(Container, key)
<1>1. /\ CommentsSkipped(pos) = t
      /\ i \in Nat /\ i \in 0 .. Len(doc) /\ Len(doc) \in Nat /\ TokenGiven(t, pos)
      /\ Parsed(tree, frames, pc, i) /\ FitsBefore(i) /\ Depth(i) = Len(frames) /\ Len(frames) \in Nat
  BY AtToken
<1>2. pc = "return" /\ frames # <<>> /\ Last(frames).kind = "array"
  BY DEF AfterElement
<1>3. ValueEnds(i)
  BY <1>1, <1>2 DEF Parsed, WantsWhatComes
<1>4. \/ ~ok' /\ t.lex # "]" /\ t.lex # Comma
      \/ t.lex = "]" /\ pos' = t.end /\ pc' = "return" /\ ok'
      \/ t.lex = Comma /\ pos' = t.end /\ pc' = "value" /\ ok'
  BY <1>1, Recovers, Zenon
     DEF AfterElement, CloseContainer, Return, Comma
<1>5. /\ t.lex # "]" => Lex(i) # "]"
      /\ t.lex # Comma => Lex(i) # Comma
      /\ t.lex \in {"]", Comma} =>
           Lex(i) = t.lex /\ i < Len(doc) /\ t.end = i + 1
      /\ Lex(i) \notin Blanks
  <2>1. \A x \in {"]", Comma} : x \notin {"open", "NUL", "?", "NaN"}
    BY Zenon DEF Comma
  <2> QED BY <1>1, <2>1, Zenon DEF TokenGiven
<1>6. ClosesTop \/ MovesOn(key) \/ ~ok'
  BY AfterElementPlaces
<1>7. /\ key \in Keys /\ key[1] = "index" /\ key[2] > 0
      /\ new \notin DOMAIN tree /\ new # <<>> /\ Front(new) = Container /\ Last(new) = key
      /\ Neighbour(new) \in DOMAIN tree
  BY <1>2, ElementIsNew
<1> HIDE DEF i, t, key
<1>8. /\ Holder(i) # -1 /\ Around(i) = "[" /\ Around(i) # "{"
      /\ Container \in DOMAIN tree /\ Holder(i) = tree[Container].start
  <2>1. Around(i) = Bracket("array") /\ Holder(i) # -1
        /\ Container \in DOMAIN tree /\ Holder(i) = tree[Container].start
    BY <1>1, <1>2, InContainer
  <2>2. Bracket("array") = "[" /\ "[" # "{"
    BY Zenon DEF Bracket
  <2> QED BY <2>1, <2>2, Zenon
<1>9. Fits(i) <=> Lex(i) = Comma \/ Lex(i) = "]"
  BY <1>3, <1>5, <1>8, FitsAnEnd, Zenon DEF Comma
<1>10. CASE ~ok' /\ t.lex # "]" /\ t.lex # Comma
  BY <1>1, <1>5, <1>9, <1>10, NotJson, Zenon DEF Leaves
<1>11. CASE t.lex = "]" /\ pos' = t.end /\ pc' = "return" /\ ok'
  <2>1. ClosesTop
    BY <1>6, <1>11 DEF MovesOn
  <2>2. Lex(i) \in Enders /\ i < Len(doc) /\ pos' = i + 1 /\ Fits(i)
    BY <1>5, <1>9, <1>11, Zenon DEF Enders
  <2>3. Parsed(tree', frames', "return", i + 1)
    BY <1>1, <2>1, <2>2, ParsedClosed
  <2> QED BY <1>11, <2>2, <2>3 DEF Leaves
<1>12. CASE t.lex = Comma /\ pos' = t.end /\ pc' = "value" /\ ok'
  <2>1. MovesOn(key)
    BY <1>6, <1>12 DEF ClosesTop
  <2>2. Lex(i) = Comma /\ i < Len(doc) /\ pos' = i + 1 /\ Fits(i)
    BY <1>5, <1>9, <1>12, Zenon
  <2>3. Lex(i) \notin Openers \cup Enders /\ ~IsName(i) /\ ~IsValue(i) /\ Lex(i) # "["
    <3>1. Lex(i) \notin Openers \cup Enders /\ Lex(i) # "["
      BY <2>2, Zenon DEF Openers, Enders, Comma
    <3> QED BY <2>2, <3>1, OtherLexemes, Zenon DEF IsName, IsValue, Comma
  <2>4. /\ Depth(i + 1) = Depth(i) /\ StayOpen(Len(frames), i, i + 1)
        /\ Holder(i + 1) = Holder(i) /\ Around(i + 1) = Around(i) /\ Previous(i + 1) = Comma
        /\ Previous(i + 1) # "["
    BY <1>1, <1>5, <2>2, <2>3, LexemeOver
  <2>5. FitsBefore(i + 1)
    BY <1>1, <2>2, <2>3, FitsOver
  <2>6. WantsValue(i + 1)
    BY <1>8, <2>4, Zenon DEF WantsValue, Comma
  <2>7. tree[Neighbour(new)].start < i + 1
    <3>1. pc # "value"
      BY <1>2
    <3>2. Denotes(tree, DOMAIN tree, i)
      BY <1>1, <3>1, AllHeld DEF TreeDenotes
    <3>3. tree[Neighbour(new)].start \in 0 .. i - 1
      BY <1>7, <3>2 DEF Denotes
    <3> QED BY <1>1, <3>3
  <2>8. Belongs(tree, DOMAIN tree, new, i + 1)
    <3>1. Around(i + 1) # "{" /\ Holder(i + 1) = tree[Front(new)].start /\ Front(new) \in DOMAIN tree
      BY <1>7, <1>8, <2>4
    <3>2. Last(new)[1] = "index" /\ Last(new)[2] > 0
      BY <1>7
    <3> HIDE DEF new
    <3> QED BY <1>7, <2>4, <2>7, <3>1, <3>2, Zenon DEF Belongs
  <2>9. \A j \in i .. (i + 1) - 1 : ~IsValue(j) /\ ~IsName(j)
    BY <1>1, <2>3, OnlyAt
  <2>10. i + 1 \in Nat /\ i < i + 1
    BY <1>1
  <2>11. key # <<"name", "empty">> /\ key[1] # "name"
    BY <1>7
  <2>12. KindsOK
    BY DEF Settled
  <2>13. Parsed(tree', frames', "value", i + 1)
    BY <1>1, <1>7, <2>1, <2>4, <2>5, <2>6, <2>8, <2>9, <2>10, <2>11, <2>12, ParsedMoved
  <2> QED BY <1>12, <2>2, <2>13 DEF Leaves
<1> QED BY <1>4, <1>10, <1>11, <1>12

\* A name that comes again in its object is a member of the tree; one that is not
\* is new to its object.
LEMMA NameAgain ==
  ASSUME IInv, pc # "value", frames # <<>>, NEW i \in Nat, i < Len(doc), Parsed(tree, frames, pc, i),
         IsName(i), Append(Container, <<"name", Lex(i)>>) \in DOMAIN tree, Lex(i) \in Lexemes
  PROVE  ~IsJson
<1> DEFINE key == <<"name", Lex(i)>>
           member == Append(Container, key)
<1>1. /\ Container \in Seq(Keys) /\ Holder(i) = tree[Container].start
  BY InContainer
<1>2. key \in Keys /\ key[1] = "name" /\ key[2] = Lex(i)
  BY DEF Keys
<1>3. member # <<>> /\ Front(member) = Container /\ Last(member) = key
  BY <1>1, <1>2, FrontOfAppend
<1>4. NamesAreKeys(tree, i)
  BY DEF Parsed
<1>5. member \in DOMAIN tree \ {<<>>} /\ Last(member)[1] = "name"
  BY <1>2, <1>3
<1>6. \E j \in 0 .. i - 1 : /\ IsName(j) /\ Lex(j) = Last(member)[2]
                            /\ tree[Front(member)].start = Holder(j)
  <2> HIDE DEF member
  <2> QED BY <1>4, <1>5, Zenon DEF NamesAreKeys
<1> HIDE DEF member, key
<1>7. PICK j \in 0 .. i - 1 : IsName(j) /\ Lex(j) = Lex(i) /\ Holder(j) = Holder(i)
  BY <1>1, <1>2, <1>3, <1>6
<1>8. j \in 0 .. Len(doc) - 1 /\ i \in 0 .. Len(doc) - 1 /\ j # i
  <2>1. Len(doc) \in Nat
    BY Parts
  <2>2. j \in 0 .. i - 1 /\ i \in Nat /\ i < Len(doc)
    OBVIOUS
  <2> QED BY <2>1, <2>2
<1>9. ~NamesDiffer(Len(doc))
  BY <1>7, <1>8, Zenon DEF NamesDiffer
<1> QED BY <1>9 DEF IsJson

LEMMA NameIsNew ==
  ASSUME IInv, pc # "value", frames # <<>>, NEW i \in Nat, Parsed(tree, frames, pc, i),
         Append(Container, <<"name", Lex(i)>>) \notin DOMAIN tree
  PROVE  \A j \in 0 .. i - 1 : ~(IsName(j) /\ Lex(j) = Lex(i) /\ Holder(j) = Holder(i))
<1> SUFFICES ASSUME NEW j \in 0 .. i - 1, IsName(j), Lex(j) = Lex(i), Holder(j) = Holder(i)
             PROVE  FALSE
  BY Zenon
<1>1. /\ Container \in DOMAIN tree /\ Holder(i) = tree[Container].start
  BY InContainer
<1>2. /\ NamesAreKeys(tree, i) /\ TreeDenotes(tree, DOMAIN tree, {}, i)
      /\ \A v \in DOMAIN tree \ {<<>>} : Front(v) \in DOMAIN tree
  BY AllHeld DEF Parsed
<1>3. \E v \in DOMAIN tree \ {<<>>} : Last(v) = <<"name", Lex(j)>> /\ tree[Front(v)].start = Holder(j)
  BY <1>2, Zenon DEF NamesAreKeys
<1>4. PICK v \in DOMAIN tree \ {<<>>} : Last(v) = <<"name", Lex(j)>> /\ tree[Front(v)].start = Holder(j)
  BY <1>3
<1>5. Front(v) = Container
  <2>1. StartsDiffer(tree, DOMAIN tree)
    BY <1>2 DEF TreeDenotes
  <2>2. Front(v) \in DOMAIN tree /\ tree[Front(v)].start = tree[Container].start
    BY <1>1, <1>2, <1>4
  <2> QED BY <1>1, <2>1, <2>2, Zenon DEF StartsDiffer
<1>6. v \in Seq(Keys) /\ v # <<>>
  BY Parts, PathOfTree
<1>7. v = Append(Container, <<"name", Lex(i)>>)
  BY <1>4, <1>5, <1>6, AppendOfFront
<1> QED BY <1>7

LEMMA NoEmptyName ==
  ASSUME Plain, NEW i \in Nat, i < Len(doc), Len(doc) \in Nat, doc \in Seq(Lexemes)
  PROVE  Lex(i) # "empty" /\ Lex(i) \in Lexemes
<1>1. i + 1 \in 1 .. Len(doc) /\ Lex(i) = doc[i + 1]
  BY DEF Lex
<1>2. i + 1 \in DOMAIN doc
  BY <1>1, LenProperties
<1>3. doc[i + 1] \in Lexemes
  BY <1>1
<1>4. doc[i + 1] # "empty"
  BY <1>2, Zenon DEF Plain, Mentions
<1> QED BY <1>1, <1>3, <1>4

\* What ReadMember does where names are strings and no name may repeat.
MemberKey(lex) == <<"name", lex>>
MemberRead(name, colon) ==
  \/ /\ name.lex = ClosingBrace /\ Last(frames).key = MemberKey("empty")
     /\ pos' = name.end /\ pc' = "return" /\ ok'
  \/ /\ ~ok' /\ name.lex \notin Names
     /\ name.lex = ClosingBrace => Last(frames).key # MemberKey("empty")
  \/ ~ok' /\ name.lex \in Names /\ colon.lex # ":"
  \/ ~ok' /\ name.lex \in Names /\ Append(Container, MemberKey(name.lex)) \in DOMAIN tree
  \/ /\ name.lex \in Names /\ colon.lex = ":"
     /\ Append(Container, MemberKey(name.lex)) \notin DOMAIN tree
     /\ pos' = colon.end /\ pc' = "value" /\ ok'

LEMMA MemberReadIs ==
  ASSUME IInv, Strict, ReadMember, NEW name, name = CommentsSkipped(pos)
  PROVE  MemberRead(name, AnyToken(name.end)) /\ pc' # "thrown"
<1> DEFINE colon == AnyToken(name.end)
<1>1. ok /\ ~conf.numericKeys /\ conf.rejectDupKeys
  BY FailedBefore DEF ReadMember, Strict
<1>2. /\ \A x : x \in Strings => (x \notin Undecodable <=> x \in Names)
      /\ \A x : x \in Names => x \in Strings
      /\ \A x : x \in Numbers => x \notin Strings
      /\ ClosingBrace \notin Strings
  BY Zenon DEF Names, Strings, Numbers, ClosingBrace
<1>3. \/ /\ name.lex = "}" /\ Last(frames).key = <<"name", "empty">>
         /\ CloseContainer(AddComments(pos, name.start), name.end, TRUE)
      \/ /\ name.lex \notin Strings /\ (name.lex = "}" => Last(frames).key # <<"name", "empty">>)
         /\ RecoverFromError(pos, name.end)
      \/ name.lex \in Strings /\ name.lex \in Numbers
      \/ name.lex \in Strings /\ name.lex \in Undecodable /\ RecoverFromError(pos, name.end)
      \/ /\ name.lex \in Strings /\ name.lex \notin Undecodable
         /\ \/ colon.lex # ":" /\ RecoverFromError(pos, colon.end)
            \/ /\ colon.lex = ":" /\ Append(Container, <<"name", name.lex>>) \in DOMAIN tree
               /\ RecoverFromError(pos, colon.end)
            \/ /\ colon.lex = ":" /\ Append(Container, <<"name", name.lex>>) \notin DOMAIN tree
               /\ pos' = colon.end /\ pc' = "value" /\ ok' = ok
  BY <1>1, Zenon DEF ReadMember
<1> HIDE DEF colon
<1>4. MemberRead(name, colon)
  BY <1>1, <1>2, <1>3, Recovers, Zenon DEF MemberRead, MemberKey, CloseContainer, Return, ClosingBrace
<1>5. pc' # "thrown"
  <2>1. pc' \in {"return", "value"}
    BY <1>2, <1>3, Zenon DEF CloseContainer, Return, RecoverFromError
  <2>2. "return" # "thrown" /\ "value" # "thrown"
    OBVIOUS
  <2> QED BY <2>1, <2>2, Zenon
<1> QED BY <1>4, <1>5 DEF colon

\* After a name at i and a colon at j, in an object.
LEMMA NameAndColon ==
  ASSUME Len(doc) \in Nat, NEW i \in Nat, NEW j \in Nat, j < Len(doc), BlankTo(i + 1, j),
         NEW c \in Nat, Depth(i) = c, IsName(i), Lex(j) = ":", FitsBefore(i),
         \A q \in 0 .. i - 1 : ~(IsName(q) /\ Lex(q) = Lex(i) /\ Holder(q) = Holder(i))
  PROVE  /\ i < j + 1 /\ FitsBefore(j + 1) /\ WantsValue(j + 1) /\ Previous(j + 1) # "["
         /\ Depth(j + 1) = c /\ StayOpen(c, i, j + 1)
         /\ Holder(j + 1) = Holder(i) /\ Around(j + 1) = Around(i) /\ NameBefore(j + 1) = Lex(i)
         /\ \A q \in i .. (j + 1) - 1 : ~IsValue(q) /\ (IsName(q) => q = i)
         /\ i \in i .. (j + 1) - 1
<1>1. i < j /\ i + 1 \in Nat /\ i + 1 <= j /\ i < Len(doc)
  BY DEF BlankTo
<1>2. /\ WantsName(i) /\ Lex(i) \in Names /\ Lex(i) \notin Blanks
      /\ Lex(i) \notin Openers \cup Enders /\ ~IsValue(i) /\ Fits(i)
  <2>1. WantsName(i) /\ Lex(i) \in Names
    BY DEF IsName
  <2>2. Lex(i) \notin Openers \cup Enders
    BY <2>1, OtherLexemes, Zenon DEF Openers, Enders
  <2> QED BY <2>1, <2>2, OtherLexemes, OneWant, Zenon DEF IsValue, Fits
<1>3. /\ Depth(i + 1) = c /\ StayOpen(c, i, i + 1)
      /\ Holder(i + 1) = Holder(i) /\ Around(i + 1) = Around(i) /\ Prior(i + 1) = i
  BY <1>1, <1>2, LexemeOver
<1>4. /\ SamePlace(i + 1, j) /\ Depth(j) = c /\ Holder(j) = Holder(i) /\ Around(j) = Around(i)
      /\ Prior(j) = i /\ StayOpen(c, i + 1, j)
  <2>1. SamePlace(i + 1, j) /\ Depth(j) = Depth(i + 1)
    BY <1>1, OverBlanks
  <2>2. Holder(j) = Holder(i + 1) /\ Around(j) = Around(i + 1) /\ Prior(j) = Prior(i + 1)
    BY <2>1, AlikeWants DEF SamePlace
  <2>3. StayOpen(c, i + 1, j)
    <3>1. c >= c
      OBVIOUS
    <3> QED BY <1>1, <1>3, <3>1, OpenOverBlanks
  <2> QED BY <1>3, <2>1, <2>2, <2>3
<1>5. /\ Lex(j) \notin Blanks /\ Lex(j) \notin Openers \cup Enders /\ ~IsName(j) /\ ~IsValue(j)
      /\ ":" # "["
  <2>1. Lex(j) \notin Openers \cup Enders /\ ":" # "["
    BY Zenon DEF Openers, Enders
  <2> QED BY <2>1, OtherLexemes, Zenon DEF IsName, IsValue
<1>6. /\ Depth(j + 1) = c /\ StayOpen(c, j, j + 1)
      /\ Holder(j + 1) = Holder(i) /\ Around(j + 1) = Around(i)
      /\ Prior(j + 1) = j /\ Previous(j + 1) = ":"
  BY <1>4, <1>5, LexemeOver
<1>7. WantsValue(j + 1) /\ Previous(j + 1) # "["
  BY <1>5, <1>6, Zenon DEF WantsValue
<1>8. FitsBefore(j + 1)
  <2>1. FitsBefore(i + 1)
    BY <1>2, FitsOver
  <2>2. FitsBefore(j)
    BY <1>1, <2>1, FitsSkip
  <2>3. Fits(j)
    <3>1. Prior(j) # -1
      BY <1>4
    <3> QED BY <1>4, <3>1, Zenon DEF Fits, WantsColon
  <2> QED BY <1>5, <2>2, <2>3, FitsOver
<1>9. StayOpen(c, i, j + 1)
  <2>1. i <= i + 1 /\ i + 1 <= j /\ i <= j /\ j <= j + 1 /\ j + 1 \in Nat
    BY <1>1
  <2>2. StayOpen(c, i, j)
    BY <1>1, <1>3, <1>4, <2>1, OpenOn
  <2> QED BY <1>6, <2>1, <2>2, OpenOn
<1>10. NameBefore(j + 1) = Lex(i)
  <2>1. NameBefore(j + 1) = At(i) /\ i # -1
    BY <1>4, <1>6 DEF NameBefore
  <2> QED BY <2>1 DEF At
<1>11. \A q \in i .. (j + 1) - 1 : ~IsValue(q) /\ (IsName(q) => q = i)
  <2>1. \A q \in i .. (j + 1) - 1 : q = i \/ q = j \/ q \in i + 1 .. j - 1
    BY <1>1
  <2>2. \A q \in i + 1 .. j - 1 : ~IsName(q) /\ ~IsValue(q)
    BY BlanksAreNothing, Zenon DEF BlankTo, IsName, IsValue
  <2> QED BY <1>2, <1>5, <2>1, <2>2, Zenon
<1>12. i < j + 1 /\ i \in i .. (j + 1) - 1
  BY <1>1
<1> QED BY <1>6, <1>7, <1>8, <1>9, <1>10, <1>11, <1>12

LEMMA ReadMemberParsed ==
  ASSUME IInv, IInv', Settled, Mirrors, Good, ReadMember
  PROVE  Leaves
<1> DEFINE name == AnyToken(pos)
           i == name.start
           colon == AnyToken(name.end)
           j == colon.start
<1>1. /\ CommentsSkipped(pos) = name
      /\ i \in Nat /\ i \in 0 .. Len(doc) /\ Len(doc) \in Nat /\ TokenGiven(name, pos)
      /\ Parsed(tree, frames, pc, i) /\ FitsBefore(i) /\ Depth(i) = Len(frames) /\ Len(frames) \in Nat
  BY AtToken
<1>2. pc = "member" /\ frames # <<>> /\ Last(frames).kind = "object" /\ pc # "value"
  BY ToParts DEF ReadMember, FramesOK
<1>3. MemberRead(name, colon) /\ pc' # "thrown"
  BY <1>1, MemberReadIs DEF Good
<1>4. ClosesTop \/ MovesOn(MemberKey(name.lex)) \/ ~ok'
  BY <1>1, <1>3, ReadMemberPlaces DEF MemberKey
<1>5. /\ name.lex = ClosingBrace <=> Lex(i) = ClosingBrace
      /\ name.lex \in Names <=> Lex(i) \in Names
      /\ name.lex \in Names \cup {ClosingBrace} => Lex(i) = name.lex /\ i < Len(doc) /\ name.end = i + 1
      /\ Lex(i) \notin Blanks
  <2>1. \A x \in Names \cup {ClosingBrace} : x \notin {"open", "NUL", "?", "NaN"}
    BY Zenon DEF ClosingBrace, Names, Strings
  <2> QED BY <1>1, <2>1, Zenon DEF TokenGiven
<1>6. name.lex \in Names => /\ TokenGiven(colon, i + 1) /\ j \in Nat /\ j \in 0 .. Len(doc)
                            /\ BlankTo(i + 1, j) /\ Lex(j) \notin Blanks
                            /\ colon.lex = ":" <=> Lex(j) = ":"
                            /\ colon.lex = ":" => j < Len(doc) /\ colon.end = j + 1
  <2> SUFFICES ASSUME name.lex \in Names
               PROVE  /\ TokenGiven(colon, i + 1) /\ j \in Nat /\ j \in 0 .. Len(doc)
                      /\ BlankTo(i + 1, j) /\ Lex(j) \notin Blanks
                      /\ colon.lex = ":" <=> Lex(j) = ":"
                      /\ colon.lex = ":" => j < Len(doc) /\ colon.end = j + 1
    OBVIOUS
  <2>1. name.end = i + 1 /\ i + 1 \in 0 .. Len(doc)
    BY <1>1, <1>5
  <2>2. TokenGiven(colon, i + 1)
    BY <2>1, TokenIsGiven DEF Good
  <2>3. ":" \notin {"open", "NUL", "?", "NaN"}
    OBVIOUS
  <2> HIDE DEF i, name, colon
  <2> QED BY <2>2, <2>3, Zenon DEF TokenGiven
<1>7. /\ WantsName(i)
      /\ Last(frames).key = MemberKey("empty") <=> Previous(i) = OpeningBrace
  <2>1. /\ Last(frames) = frames[Len(frames)] /\ Len(frames) \in DOMAIN frames
    BY <1>1, <1>2, InContainer
  <2>2. WantsWhatComes(frames, "member", i)
    BY <1>1, <1>2 DEF Parsed
  <2> QED BY <2>1, <2>2, Zenon DEF WantsWhatComes, MemberKey, OpeningBrace
<1> HIDE DEF i, name, colon, j
<1>8. /\ Around(i) = Bracket("object") /\ Around(i) = OpeningBrace
      /\ Container \in DOMAIN tree /\ Container \in Seq(Keys) /\ Holder(i) = tree[Container].start
  <2>1. /\ Around(i) = Bracket("object")
        /\ Container \in DOMAIN tree /\ Container \in Seq(Keys) /\ Holder(i) = tree[Container].start
    BY <1>1, <1>2, InContainer
  <2> QED BY <2>1, Zenon DEF Bracket, OpeningBrace
<1>9. CASE /\ name.lex = ClosingBrace /\ Last(frames).key = MemberKey("empty")
           /\ pos' = name.end /\ pc' = "return" /\ ok'
  <2>1. ClosesTop
    BY <1>4, <1>9 DEF MovesOn
  <2>2. Lex(i) = ClosingBrace /\ i < Len(doc) /\ pos' = i + 1 /\ Previous(i) = OpeningBrace
    BY <1>5, <1>7, <1>9, Zenon
  <2>3. Lex(i) \in Enders /\ Fits(i)
    BY <1>8, <2>2, Zenon DEF ClosingBrace, OpeningBrace, Enders, Fits
  <2>4. Parsed(tree', frames', "return", i + 1)
    BY <1>1, <2>1, <2>2, <2>3, ParsedClosed
  <2> QED BY <1>9, <2>2, <2>4 DEF Leaves
<1>10. CASE /\ ~ok' /\ name.lex \notin Names
            /\ name.lex = ClosingBrace => Last(frames).key # MemberKey("empty")
  <2>1. ~Fits(i)
    BY <1>5, <1>7, <1>10, FitsAName, Zenon DEF IsName, ClosingBrace, OpeningBrace
  <2> QED BY <1>1, <1>10, <2>1, NotJson DEF Leaves
<1>11. name.lex \in Names => /\ IsName(i) /\ Prior(i + 1) = i /\ WantsColon(i + 1)
  <2> SUFFICES ASSUME name.lex \in Names PROVE IsName(i) /\ Prior(i + 1) = i /\ WantsColon(i + 1)
    OBVIOUS
  <2>1. IsName(i)
    BY <1>5, <1>7, Zenon DEF IsName
  <2>2. Prior(i + 1) = i /\ i # -1
    BY <1>1, <1>5, PriorNext
  <2> QED BY <2>1, <2>2, Zenon DEF WantsColon
<1>12. CASE ~ok' /\ name.lex \in Names /\ colon.lex # ":"
  <2>1. SamePlace(i + 1, j)
    <3>1. i + 1 \in Nat
      BY <1>1
    <3> QED BY <1>1, <1>6, <1>12, <3>1, OverBlanks
  <2>2. WantsColon(j)
    BY <1>11, <1>12, <2>1, AlikeWants
  <2>3. ~Fits(j)
    BY <1>6, <1>12, <2>2, FitsAColon, Zenon
  <2> QED BY <1>1, <1>6, <1>12, <2>3, NotJson DEF Leaves
<1>13. CASE ~ok' /\ name.lex \in Names /\ Append(Container, MemberKey(name.lex)) \in DOMAIN tree
  <2>1. Lex(i) = name.lex /\ i < Len(doc) /\ Lex(i) \in Lexemes
    BY <1>1, <1>5, <1>13, Parts, NoEmptyName DEF Good
  <2>2. Append(Container, <<"name", Lex(i)>>) \in DOMAIN tree
    BY <1>13, <2>1 DEF MemberKey
  <2>3. ~IsJson
    BY <1>1, <1>2, <1>11, <1>13, <2>1, <2>2, NameAgain
  <2> QED BY <1>13, <2>3 DEF Leaves
<1>14. CASE /\ name.lex \in Names /\ colon.lex = ":"
            /\ Append(Container, MemberKey(name.lex)) \notin DOMAIN tree
            /\ pos' = colon.end /\ pc' = "value" /\ ok'
  <2> DEFINE key == MemberKey(Lex(i))
             new == Append(Container, key)
  <2>1. Lex(i) = name.lex /\ i < Len(doc) /\ Lex(i) \in Lexemes /\ Lex(i) # "empty"
    BY <1>1, <1>5, <1>14, Parts, NoEmptyName DEF Good
  <2>2. /\ j \in Nat /\ j < Len(doc) /\ BlankTo(i + 1, j) /\ Lex(j) = ":" /\ pos' = j + 1 /\ IsName(i)
    BY <1>6, <1>11, <1>14, Zenon
  <2>3. \A q \in 0 .. i - 1 : ~(IsName(q) /\ Lex(q) = Lex(i) /\ Holder(q) = Holder(i))
    <3>1. Append(Container, <<"name", Lex(i)>>) \notin DOMAIN tree
      BY <1>14, <2>1 DEF MemberKey
    <3> QED BY <1>1, <1>2, <3>1, NameIsNew
  <2>4. /\ i < j + 1 /\ FitsBefore(j + 1) /\ WantsValue(j + 1) /\ Previous(j + 1) # "["
        /\ Depth(j + 1) = Len(frames) /\ StayOpen(Len(frames), i, j + 1)
        /\ Holder(j + 1) = Holder(i) /\ Around(j + 1) = Around(i) /\ NameBefore(j + 1) = Lex(i)
        /\ \A q \in i .. (j + 1) - 1 : ~IsValue(q) /\ (IsName(q) => q = i)
        /\ i \in i .. (j + 1) - 1
    BY <1>1, <2>2, <2>3, NameAndColon
  <2>5. key \in Keys /\ key[1] = "name" /\ key[2] = Lex(i) /\ key # <<"name", "empty">>
    BY <2>1 DEF Keys, MemberKey
  <2>6. new # <<>> /\ Front(new) = Container /\ Last(new) = key
    BY <1>8, <2>5, FrontOfAppend
  <2>7. key = <<"name", Lex(i)>>
    BY DEF MemberKey
  <2>8. MovesOn(key)
    BY <1>4, <1>14, <2>1 DEF ClosesTop
  <2>9. new \notin DOMAIN tree
    BY <1>14, <2>1
  <2>10. Belongs(tree, DOMAIN tree, new, j + 1)
    <3>1. Around(j + 1) = OpeningBrace /\ Holder(j + 1) = tree[Front(new)].start
          /\ Front(new) \in DOMAIN tree
      BY <1>8, <2>4, <2>6
    <3>2. Last(new) = <<"name", NameBefore(j + 1)>>
      BY <2>4, <2>6, <2>7
    <3> HIDE DEF new, key
    <3> QED BY <2>6, <3>1, <3>2, Zenon DEF Belongs, OpeningBrace
  <2>11. /\ \A q \in i .. (j + 1) - 1 : ~IsValue(q)
         /\ \A q \in i .. (j + 1) - 1 : IsName(q) => key = <<"name", Lex(q)>> /\ tree[Container].start = Holder(q)
    BY <1>8, <2>4, <2>7, Zenon
  <2>12. \E q \in i .. (j + 1) - 1 : IsName(q) /\ Lex(q) = key[2] /\ tree[Container].start = Holder(q)
    BY <1>8, <2>2, <2>4, <2>5, Zenon
  <2>13. KindsOK /\ j + 1 \in Nat /\ Depth(j + 1) = Depth(i)
    BY <1>1, <2>2, <2>4 DEF Settled
  <2> HIDE DEF key
  <2>14. Parsed(tree', frames', "value", j + 1)
    BY <1>1, <2>4, <2>5, <2>8, <2>9, <2>10, <2>11, <2>12, <2>13, ParsedMoved
  <2> QED BY <1>14, <2>2, <2>14 DEF Leaves
<1> QED BY <1>3, <1>9, <1>10, <1>12, <1>13, <1>14 DEF MemberRead

-----------------------------------------------------------------------------
(* The text stays the same while it is read.                               *)

LEMMA PlaceSame ==
  ASSUME conf' = conf, doc' = doc
  PROVE  /\ \A i : Lex(i)' = Lex(i)
         /\ \A p : Depth(p)' = Depth(p)
         /\ \A p : Prior(p)' = Prior(p)
         /\ \A p : Holder(p)' = Holder(p)
         /\ \A p : Previous(p)' = Previous(p)
         /\ \A p : Around(p)' = Around(p)
         /\ \A p : NameBefore(p)' = NameBefore(p)
         /\ \A p : TypeAt(p)' = TypeAt(p)
<1>1. \A i : Lex(i)' = Lex(i)
  BY TextSame
<1>2. \A p : Depth(p)' = Depth(p)
  BY DEF Depth, Count
<1>3. ASSUME NEW p PROVE Prior(p)' = Prior(p)
  BY <1>1 DEF Prior
<1>4. ASSUME NEW p PROVE Holder(p)' = Holder(p)
  BY <1>2 DEF Holder
<1>5. \A i : At(i)' = At(i)
  BY <1>1 DEF At
<1>6. ASSUME NEW p PROVE Previous(p)' = Previous(p)
  BY <1>3, <1>5 DEF Previous
<1>7. ASSUME NEW p PROVE Around(p)' = Around(p)
  BY <1>4, <1>5 DEF Around
<1>8. ASSUME NEW p PROVE NameBefore(p)' = NameBefore(p)
  BY <1>3, <1>5 DEF NameBefore
<1>9. ASSUME NEW p PROVE TypeAt(p)' = TypeAt(p)
  BY <1>1, Zenon DEF TypeAt
<1> QED BY <1>1, <1>2, <1>3, <1>4, <1>6, <1>7, <1>8, <1>9

LEMMA WantsSame ==
  ASSUME conf' = conf, doc' = doc
  PROVE  /\ \A p : WantsName(p)' <=> WantsName(p)
         /\ \A p : WantsValue(p)' <=> WantsValue(p)
         /\ \A p : IsName(p)' <=> IsName(p)
         /\ \A p : IsValue(p)' <=> IsValue(p)
         /\ \A p : ValueEnds(p)' <=> ValueEnds(p)
         /\ \A p : Fits(p)' <=> Fits(p)
         /\ \A n : NamesDiffer(n)' <=> NamesDiffer(n)
         /\ IsJson' <=> IsJson
         /\ Strict' <=> Strict
         /\ Plain' <=> Plain
<1>1. /\ \A i : Lex(i)' = Lex(i)
      /\ \A p : Prior(p)' = Prior(p)
      /\ \A p : Holder(p)' = Holder(p)
      /\ \A p : Previous(p)' = Previous(p)
      /\ \A p : Around(p)' = Around(p)
  BY PlaceSame
<1>2. ASSUME NEW p PROVE WantsName(p)' <=> WantsName(p)
  BY <1>1, Zenon DEF WantsName
<1>3. ASSUME NEW p PROVE WantsValue(p)' <=> WantsValue(p)
  BY <1>1, Zenon DEF WantsValue
<1>4. ASSUME NEW p PROVE IsName(p)' <=> IsName(p)
  BY <1>1, <1>2, Zenon DEF IsName
<1>5. ASSUME NEW p PROVE IsValue(p)' <=> IsValue(p)
  BY <1>1, <1>3, Zenon DEF IsValue
<1>6. ASSUME NEW p PROVE WantsColon(p)' <=> WantsColon(p)
  BY <1>1, <1>4 DEF WantsColon
<1>7. ASSUME NEW p PROVE ValueEnds(p)' <=> ValueEnds(p)
  BY <1>1, <1>6, Zenon DEF ValueEnds
<1>8. ASSUME NEW p PROVE Fits(p)' <=> Fits(p)
  BY <1>1, <1>4, <1>5, <1>6, <1>7, Zenon DEF Fits
<1>9. ASSUME NEW n PROVE NamesDiffer(n)' <=> NamesDiffer(n)
  BY <1>1, <1>4 DEF NamesDiffer
<1>10. IsJson' <=> IsJson
  BY <1>1, <1>8, <1>9, Zenon DEF IsJson
<1>11. (Strict' <=> Strict) /\ (Plain' <=> Plain)
  BY DEF Strict, Plain, Mentions
<1> QED BY <1>2, <1>3, <1>4, <1>5, <1>7, <1>8, <1>9, <1>10, <1>11

LEMMA TreesSame ==
  ASSUME conf' = conf, doc' = doc
  PROVE  /\ \A t, S, n : Denotes(t, S, n)' <=> Denotes(t, S, n)
         /\ \A t, fs, state, n : Parsed(t, fs, state, n)' <=> Parsed(t, fs, state, n)
<1>1. /\ \A i : Lex(i)' = Lex(i)
      /\ \A p : Depth(p)' = Depth(p)
      /\ \A p : Prior(p)' = Prior(p)
      /\ \A p : Holder(p)' = Holder(p)
      /\ \A p : Previous(p)' = Previous(p)
      /\ \A p : Around(p)' = Around(p)
      /\ \A p : NameBefore(p)' = NameBefore(p)
      /\ \A p : TypeAt(p)' = TypeAt(p)
  BY PlaceSame
<1>2. /\ \A p : WantsName(p)' <=> WantsName(p)
      /\ \A p : WantsValue(p)' <=> WantsValue(p)
      /\ \A p : IsName(p)' <=> IsName(p)
      /\ \A p : IsValue(p)' <=> IsValue(p)
      /\ \A p : ValueEnds(p)' <=> ValueEnds(p)
      /\ \A p : Fits(p)' <=> Fits(p)
      /\ \A n : NamesDiffer(n)' <=> NamesDiffer(n)
  BY WantsSame
<1>3. ASSUME NEW t, NEW S, NEW v, NEW i PROVE Belongs(t, S, v, i)' <=> Belongs(t, S, v, i)
  BY <1>1, Zenon DEF Belongs, Neighbour
<1>4. ASSUME NEW t, NEW S, NEW n PROVE Denotes(t, S, n)' <=> Denotes(t, S, n)
  BY <1>1, <1>2, <1>3, Zenon DEF Denotes
<1>5. ASSUME NEW t, NEW S, NEW A, NEW n PROVE TreeDenotes(t, S, A, n)' <=> TreeDenotes(t, S, A, n)
  BY <1>3, <1>4, Zenon DEF TreeDenotes, StartsDiffer
<1>6. ASSUME NEW t, NEW fs, NEW n PROVE BracketsOpen(t, fs, n)' <=> BracketsOpen(t, fs, n)
  BY <1>1, Zenon DEF BracketsOpen, PathTo, Bracket
<1>7. ASSUME NEW fs, NEW state, NEW n PROVE WantsWhatComes(fs, state, n)' <=> WantsWhatComes(fs, state, n)
  BY <1>1, <1>2, Zenon DEF WantsWhatComes, Blanks
<1>8. ASSUME NEW t, NEW n PROVE NamesAreKeys(t, n)' <=> NamesAreKeys(t, n)
  BY <1>1, <1>2, Zenon DEF NamesAreKeys
<1>9. ASSUME NEW n PROVE FitsBefore(n)' <=> FitsBefore(n)
  BY <1>2, Zenon DEF FitsBefore
<1>10. ASSUME NEW t, NEW fs, NEW state, NEW n PROVE Parsed(t, fs, state, n)' <=> Parsed(t, fs, state, n)
  BY <1>5, <1>6, <1>7, <1>8, <1>9, Zenon DEF Parsed, Held, Awaited, Path
<1> QED BY <1>4, <1>10

-----------------------------------------------------------------------------
(* What parse() answers.                                                   *)

LEMMA FinishedTree ==
  ASSUME IInv, FinishParse
  PROVE  /\ DOMAIN tree' = DOMAIN tree /\ <<>> \in DOMAIN tree
         /\ \A v \in DOMAIN tree : tree'[v].start = tree[v].start /\ tree'[v].type = tree[v].type
         /\ AddComments(pos, ValueToken(pos).start)[<<>>].type = tree[<<>>].type
<1> DEFINE
  token == ValueToken(pos)
  t     == AddComments(pos, token.start)
  u     == [t EXCEPT ![<<>>].after = Waiting(pos, token.start)]
<1>1. pc = "return" /\ frames = <<>> /\ (tree' = t \/ tree' = u)
  BY DEF FinishParse
<1>2. token.start \in Nat /\ pos <= token.start /\ pos \in Nat
  BY <1>1, TokenIs DEF Token
<1> HIDE DEF token
<1>3. /\ TreeOK(t) /\ DOMAIN t = DOMAIN tree
      /\ \A v \in DOMAIN tree : Placed(t, v)
  BY <1>2, AddedIs
<1>4. <<>> \in DOMAIN tree
  <2>1. OpenValuesOK /\ Len(frames) = 0
    BY <1>1, Parts, EmptySeq
  <2> QED BY <1>1, <2>1, EmptyPath DEF OpenValuesOK
<1> HIDE DEF t
<1>5. DOMAIN tree' = DOMAIN t /\ \A v \in DOMAIN t : tree'[v].start = t[v].start /\ tree'[v].type = t[v].type
  <2>1. CASE tree' = t
    BY <2>1
  <2>2. CASE tree' = u
    BY <1>3, <1>4, <2>2, AfterSet
  <2> QED BY <1>1, <2>1, <2>2
<1>6. \A v \in DOMAIN tree : t[v].start = tree[v].start /\ t[v].type = tree[v].type
  BY <1>3 DEF Placed
<1>7. DOMAIN tree' = DOMAIN tree /\ \A v \in DOMAIN tree : tree'[v].start = tree[v].start /\ tree'[v].type = tree[v].type
  BY <1>3, <1>5, <1>6
<1> QED BY <1>4, <1>6, <1>7 DEF t, token

\* Of a text that was read to its end, only the root may be outside of all brackets.
LEMMA RootIsRight ==
  ASSUME IInv, Len(doc) \in Nat, Parsed(tree, frames, "return", Len(doc)), <<>> \in DOMAIN tree,
         Fits(Len(doc))
  PROVE  IsJson <=> tree[<<>>].type \in {"array", "object"}
<1> DEFINE n == Len(doc)
           r == tree[<<>>].start
<1>1. /\ FitsBefore(n) /\ NamesAreKeys(tree, n) /\ Denotes(tree, DOMAIN tree, n)
      /\ \A v \in DOMAIN tree \ {<<>>} : Front(v) \in DOMAIN tree
  <2>1. "return" # "value"
    OBVIOUS
  <2> QED BY <2>1, AllHeld, Zenon DEF Parsed, TreeDenotes
<1>2. /\ \A v \in DOMAIN tree : /\ tree[v].start \in 0 .. n - 1 /\ IsValue(tree[v].start)
                                /\ tree[v].type = TypeAt(tree[v].start)
                                /\ Belongs(tree, DOMAIN tree, v, tree[v].start)
      /\ \A i \in 0 .. n - 1 : IsValue(i) => \E v \in DOMAIN tree : tree[v].start = i
  BY <1>1, Zenon DEF Denotes
<1>3. /\ r \in 0 .. n - 1 /\ IsValue(r) /\ tree[<<>>].type = TypeAt(r) /\ Holder(r) = -1
  BY <1>2, Zenon DEF Belongs
<1>4. /\ \A p \in 0 .. n : Fits(p)
      /\ NamesDiffer(n)
  <2>1. \A p \in 0 .. n : p \in 0 .. n - 1 \/ p = n
    OBVIOUS
  <2> QED BY <1>1, <2>1, Zenon DEF FitsBefore
<1>5. tree[<<>>].type \in {"array", "object"} <=> Lex(r) \notin Scalars
  <2>1. Lex(r) \in Scalars \cup Openers
    BY <1>3, Zenon DEF IsValue
  <2>2. /\ \A x \in Scalars : x \notin Openers /\ x # "array" /\ x # "object"
        /\ \A x \in Openers : x = "{" \/ x = "["
    BY Zenon DEF Scalars, Openers, Literals, Strings, Numbers
  <2>3. /\ Lex(r) = "{" => TypeAt(r) = "object"
        /\ Lex(r) = "[" => TypeAt(r) = "array"
        /\ Lex(r) \notin Openers => TypeAt(r) = Lex(r)
    <3>1. "[" # "{"
      OBVIOUS
    <3> QED BY <3>1, Zenon DEF TypeAt, Openers
  <2> QED BY <1>3, <2>1, <2>2, <2>3, Zenon
<1> HIDE DEF n, r
<1>6. ASSUME Lex(r) \in Scalars PROVE ~IsJson
  <2>1. r \in 0 .. Len(doc)
    BY <1>3 DEF n
  <2> QED BY <1>3, <1>6, <2>1, Zenon DEF IsJson
<1>7. ASSUME Lex(r) \notin Scalars, NEW p \in 0 .. n, Lex(p) \in Scalars PROVE Holder(p) # -1
  <2>1. p \in 0 .. n - 1
    <3>1. p # n
      <4>1. Lex(n) = "NUL"
        BY DEF Lex, n
      <4>2. "NUL" \notin Scalars
        BY OtherLexemes, Zenon
      <4> QED BY <1>7, <4>1, <4>2, Zenon
    <3> QED BY <3>1 DEF n
  <2>2. \A v \in DOMAIN tree : tree[v].start # -1
    <3>1. -1 \notin 0 .. n - 1
      BY DEF n
    <3> QED BY <1>2, <3>1, Zenon
  <2>3. IsName(p) \/ IsValue(p)
    BY <1>4, <1>7, OtherLexemes, Zenon DEF Fits
  <2>4. CASE IsName(p)
    <3>1. PICK v \in DOMAIN tree \ {<<>>} : tree[Front(v)].start = Holder(p)
      BY <1>1, <2>1, <2>4, Zenon DEF NamesAreKeys
    <3>2. Front(v) \in DOMAIN tree
      BY <1>1
    <3> QED BY <2>2, <3>1, <3>2
  <2>5. CASE IsValue(p)
    <3>1. PICK v \in DOMAIN tree : tree[v].start = p
      BY <1>2, <2>1, <2>5
    <3>2. v # <<>>
      BY <1>7, <3>1 DEF r
    <3>3. Front(v) \in DOMAIN tree /\ Holder(p) = tree[Front(v)].start
      BY <1>2, <3>1, <3>2, Zenon DEF Belongs
    <3> QED BY <2>2, <3>3
  <2> QED BY <2>3, <2>4, <2>5
<1>8. ASSUME Lex(r) \notin Scalars PROVE IsJson
  BY <1>4, <1>7, <1>8, Zenon DEF IsJson, n
<1> QED BY <1>5, <1>6, <1>8

LEMMA FinishParseAccepts ==
  ASSUME IInv, SyntaxOK, FinishParse
  PROVE  AcceptsJson'
<1> DEFINE t == AnyToken(pos)
           i == t.start
<1>1. /\ pc = "return" /\ frames = <<>> /\ conf' = conf /\ doc' = doc
      /\ ok' <=> /\ ok /\ ~TrailingText(ValueToken(pos))
                 /\ ~(conf.strictRoot /\ AddComments(pos, ValueToken(pos).start)[<<>>].type
                                          \notin {"array", "object"})
  BY DEF FinishParse
<1>2. /\ (Strict' <=> Strict) /\ (Plain' <=> Plain) /\ (IsJson' <=> IsJson)
      /\ Denotes(tree, DOMAIN tree, Len(doc))' <=> Denotes(tree', DOMAIN tree', Len(doc))
  BY <1>1, WantsSame, TreesSame
<1> SUFFICES ASSUME Strict, Plain
             PROVE  (ok' <=> IsJson) /\ (ok' => Denotes(tree', DOMAIN tree', Len(doc)))
  BY <1>2 DEF AcceptsJson
<1>3. CASE ~ok
  BY <1>1, <1>3 DEF SyntaxOK
<1>4. CASE ok
  <2>1. Good
    BY <1>1, <1>4 DEF SyntaxOK, Good
  <2>2. /\ Token = t /\ i \in Nat /\ i \in 0 .. Len(doc) /\ Len(doc) \in Nat /\ TokenGiven(t, pos)
        /\ Parsed(tree, frames, "return", i)
    BY <1>1, <2>1, AtToken
  <2>3. ValueEnds(i)
    BY <2>2 DEF Parsed, WantsWhatComes
  <2>4. Holder(i) = -1 /\ Around(i) = "none"
    <3>1. frames \in Seq(Frame) /\ Len(frames) = 0
      BY <1>1, Parts, EmptySeq
    <3> QED BY <2>2, <3>1, StackIs, HolderOfStack DEF Parsed
  <2>5. /\ TrailingText(ValueToken(pos)) <=> Lex(i) # "NUL"
        /\ Lex(i) = "NUL" <=> i = Len(doc)
        /\ Lex(i) \notin Blanks
    <3>1. TrailingText(t) <=> t.lex # "NUL"
      BY Zenon DEF TrailingText, Strict
    <3>2. t.lex = "NUL" <=> Lex(i) = "NUL"
      <4>1. "NaN" # "NUL" /\ "?" # "NUL"
        OBVIOUS
      <4> QED BY <2>2, <4>1, Zenon DEF TokenGiven
    <3>3. ValueToken(pos) = t
      BY <2>2 DEF Token
    <3> QED BY <2>2, <3>1, <3>2, <3>3 DEF TokenGiven
  <2> HIDE DEF i, t
  <2>6. Fits(i) <=> Lex(i) = "NUL"
    <3>1. "none" # "{" /\ "none" # "["
      OBVIOUS
    <3> QED BY <2>3, <2>4, <2>5, <3>1, FitsAnEnd, Zenon
  <2>7. CASE Lex(i) # "NUL"
    BY <1>1, <2>2, <2>5, <2>6, <2>7, NotJson
  <2>8. CASE Lex(i) = "NUL"
    <3>1. /\ DOMAIN tree' = DOMAIN tree /\ <<>> \in DOMAIN tree
          /\ \A v \in DOMAIN tree : tree'[v].start = tree[v].start /\ tree'[v].type = tree[v].type
          /\ AddComments(pos, ValueToken(pos).start)[<<>>].type = tree[<<>>].type
      BY FinishedTree
    <3>2. i = Len(doc) /\ Parsed(tree, frames, "return", Len(doc)) /\ Fits(Len(doc))
      BY <2>2, <2>5, <2>6, <2>8
    <3>3. IsJson <=> tree[<<>>].type \in {"array", "object"}
      BY <2>2, <3>1, <3>2, RootIsRight
    <3>4. ok' <=> tree[<<>>].type \in {"array", "object"}
      BY <1>1, <1>4, <2>5, <2>8, <3>1 DEF Strict
    <3>5. Denotes(tree', DOMAIN tree', Len(doc))
      <4>1. Denotes(tree, DOMAIN tree, Len(doc))
        <5>1. "return" # "value"
          OBVIOUS
        <5> QED BY <3>2, <5>1, AllHeld, Zenon DEF TreeDenotes
      <4>2. Keeps(tree, DOMAIN tree, tree', DOMAIN tree) /\ DOMAIN tree = DOMAIN tree \cup {}
        BY <3>1 DEF Keeps
      <4>3. Finds(tree', {}, Len(doc), Len(doc)) /\ Len(doc) <= Len(doc)
        BY <2>2 DEF Finds
      <4>4. \A v \in {} : DenotesOne(tree', DOMAIN tree, v, Len(doc), Len(doc))
        OBVIOUS
      <4>5. Denotes(tree', DOMAIN tree, Len(doc))
        BY <2>2, <4>1, <4>2, <4>3, <4>4, DenotesMore
      <4> QED BY <3>1, <4>5
    <3> QED BY <3>3, <3>4, <3>5
  <2> QED BY <2>7, <2>8
<1> QED BY <1>3, <1>4

LEMMA IdleSyntax == (Idle /\ pc = "value") => SyntaxOK
<1> SUFFICES ASSUME Idle, pc = "value" PROVE SyntaxOK
  OBVIOUS
<1>1. /\ DOMAIN tree = {<<>>} /\ DOMAIN frames = {} /\ Path(frames) = <<>> /\ Len(frames) = 0
      /\ ok /\ pos = 0
  BY IdleTree DEF Idle
<1>2. \A q \in 0 .. 0 : q = 0
  OBVIOUS
<1>3. 0 .. 0 - 1 = {}
  OBVIOUS
<1>4. BracketsOpen(tree, frames, 0)
  <2>1. \A q \in 0 .. 0 : Depth(q) >= 0
    BY <1>2, NoneOpen
  <2> QED BY <1>1, <2>1, NoneOpen DEF BracketsOpen
<1>5. FitsBefore(0)
  BY <1>3, Zenon DEF FitsBefore, NamesDiffer
<1>6. Prior(0) = -1 /\ Holder(0) = -1
  <2>1. 0 \in Nat /\ -1 .. 0 - 1 = {-1}
    OBVIOUS
  <2> QED BY <2>1, PriorIs, HolderIs
<1>7. WantsWhatComes(frames, "value", 0)
  <2>1. Previous(0) = "none"
    BY <1>6 DEF Previous, At
  <2>2. WantsValue(0) /\ Previous(0) # "["
    BY <2>1, Zenon DEF WantsValue
  <2> QED BY <1>1, <2>2 DEF WantsWhatComes
<1>8. Awaited(frames, "value") = {<<>>} /\ Held(tree, frames, "value") = {}
  BY <1>1 DEF Awaited, Held
<1>9. TreeDenotes(tree, {}, {<<>>}, 0)
  <2>1. Denotes(tree, {}, 0) /\ StartsDiffer(tree, {})
    BY <1>3, Zenon DEF Denotes, StartsDiffer
  <2>2. Belongs(tree, {}, <<>>, 0)
    BY <1>6 DEF Belongs
  <2> QED BY <2>1, <2>2, Zenon DEF TreeDenotes
<1>10. NamesAreKeys(tree, 0)
  <2>1. DOMAIN tree \ {<<>>} = {}
    BY <1>1
  <2> QED BY <1>3, <2>1, Zenon DEF NamesAreKeys
<1>11. Parsed(tree, frames, pc, pos)
  BY <1>1, <1>4, <1>5, <1>7, <1>8, <1>9, <1>10 DEF Parsed
<1> QED BY <1>1, <1>11 DEF SyntaxOK

LEMMA IdleSyntaxNext == (Idle /\ pc = "value")' => SyntaxOK'
BY IdleSyntax, PTL

LEMMA SyntaxUnchanged ==
  ASSUME SyntaxOK, AcceptsJson, UNCHANGED vars
  PROVE  SyntaxOK' /\ AcceptsJson'
<1>1. /\ conf' = conf /\ doc' = doc /\ tree' = tree /\ frames' = frames /\ pc' = pc /\ pos' = pos /\ ok' = ok
  BY DEF vars
<1>2. /\ (Strict' <=> Strict) /\ (Plain' <=> Plain) /\ (IsJson' <=> IsJson)
      /\ Denotes(tree, DOMAIN tree, Len(doc))' <=> Denotes(tree, DOMAIN tree, Len(doc))
      /\ Parsed(tree, frames, pc, pos)' <=> Parsed(tree, frames, pc, pos)
  BY <1>1, WantsSame, TreesSame
<1> QED BY <1>1, <1>2 DEF SyntaxOK, AcceptsJson

LEMMA StillParsing ==
  ASSUME conf' = conf, doc' = doc, pc' # "done", (Strict /\ Plain) => Leaves
  PROVE  SyntaxOK' /\ AcceptsJson'
<1>1. /\ (Strict' <=> Strict) /\ (Plain' <=> Plain) /\ (IsJson' <=> IsJson)
      /\ Parsed(tree, frames, pc, pos)' <=> Parsed(tree', frames', pc', pos')
  BY WantsSame, TreesSame
<1> QED BY <1>1 DEF SyntaxOK, AcceptsJson, Leaves

LEMMA StepSyntax ==
  ASSUME IInv, IInv', PlacesOK, SyntaxOK, Step
  PROVE  SyntaxOK' /\ AcceptsJson'
<1>1. (ok /\ pc \in {"value", "member", "return"} /\ Strict /\ Plain) => Settled /\ Mirrors /\ Good
  BY DEF PlacesOK, Settled, Mirrors, SyntaxOK, Good
<1>2. CASE ExceedStackLimit
  BY <1>2 DEF ExceedStackLimit, SyntaxOK, AcceptsJson
<1>3. CASE ReadScalar
  <2>1. pc = "value" /\ pc' = "return" /\ conf' = conf /\ doc' = doc
    BY <1>3 DEF ReadScalar, ReadValue, Return
  <2> QED BY <1>1, <1>3, <2>1, FailedBefore, ReadScalarParsed, StillParsing
<1>4. CASE BeginObject
  <2>1. pc = "value" /\ pc' = "member" /\ conf' = conf /\ doc' = doc
    BY <1>4 DEF BeginObject, ReadValue
  <2> QED BY <1>1, <1>4, <2>1, FailedBefore, BeginObjectParsed, StillParsing
<1>5. CASE BeginArray
  <2>1. pc = "value" /\ pc' \in {"return", "value"} /\ conf' = conf /\ doc' = doc
    BY <1>5 DEF BeginArray, ReadValue, Return
  <2> QED BY <1>1, <1>5, <2>1, FailedBefore, BeginArrayParsed, StillParsing
<1>6. CASE DropNull
  <2>1. pc' = "return" /\ conf' = conf /\ doc' = doc /\ ~Strict
    BY <1>6 DEF DropNull, Return, Strict
  <2> QED BY <2>1, StillParsing
<1>7. CASE SyntaxError
  <2>1. pc = "value" /\ pc' = "return" /\ conf' = conf /\ doc' = doc
    BY <1>7 DEF SyntaxError, ReadValue
  <2> QED BY <1>1, <1>7, <2>1, FailedBefore, SyntaxErrorParsed, StillParsing
<1>8. CASE ReadMember
  <2>1. pc = "member" /\ pc' \in {"return", "value", "thrown"} /\ conf' = conf /\ doc' = doc
    BY <1>8 DEF ReadMember, RecoverFromError, CloseContainer, Return
  <2> QED BY <1>1, <1>8, <2>1, FailedBefore, ReadMemberParsed, StillParsing
<1>9. CASE AfterMember
  <2>1. pc = "return" /\ ok /\ pc' \in {"return", "member"} /\ conf' = conf /\ doc' = doc
    BY <1>9 DEF AfterMember, RecoverFromError, CloseContainer, Return
  <2> QED BY <1>1, <1>9, <2>1, AfterMemberParsed, StillParsing
<1>10. CASE AfterElement
  <2>1. pc = "return" /\ ok /\ pc' \in {"return", "value"} /\ conf' = conf /\ doc' = doc
    BY <1>10 DEF AfterElement, RecoverFromError, CloseContainer, Return
  <2> QED BY <1>1, <1>10, <2>1, AfterElementParsed, StillParsing
<1>11. CASE AfterFailure
  <2>1. pc = "return" /\ ~ok /\ pc' = "return" /\ ~ok' /\ conf' = conf /\ doc' = doc
    BY <1>11 DEF AfterFailure, RecoverFromError, CloseContainer, Return
  <2>2. (Strict /\ Plain) => Leaves
    BY <2>1 DEF SyntaxOK, Leaves
  <2> QED BY <2>1, <2>2, StillParsing
<1>12. CASE FinishParse
  <2>1. SyntaxOK'
    BY <1>12 DEF FinishParse, SyntaxOK
  <2> QED BY <1>12, <2>1, FinishParseAccepts
<1> QED BY <1>2, <1>3, <1>4, <1>5, <1>6, <1>7, <1>8, <1>9, <1>10, <1>11, <1>12 DEF Step

\* JSON IS ACCEPTED: on every text without comments, zero bytes or empty names,
\* a strict reader that the stack limit does not stop accepts exactly the JSON
\* texts, and the values it builds are what the text denotes: of each bracket,
\* under each name, and of arrays in their order.
THEOREM JsonAccepted == Spec => []AcceptsJson
<1>1. Init => SyntaxOK /\ AcceptsJson
  <2> SUFFICES ASSUME Init PROVE SyntaxOK /\ AcceptsJson
    OBVIOUS
  <2>1. SyntaxOK
    BY IdleSyntax DEF Init
  <2> QED BY <2>1 DEF Init, AcceptsJson
<1>2. IInv /\ IInv' /\ PlacesOK /\ (SyntaxOK /\ AcceptsJson) /\ [Next]_vars => (SyntaxOK /\ AcceptsJson)'
  <2> SUFFICES ASSUME IInv, IInv', PlacesOK, SyntaxOK, AcceptsJson, [Next]_vars
               PROVE  SyntaxOK' /\ AcceptsJson'
    OBVIOUS
  <2>1. ASSUME NEW d \in Reparsed, Parse(d) PROVE SyntaxOK' /\ AcceptsJson'
    <3>1. Idle' /\ pc' = "value"
      BY <2>1 DEF Parse, Idle
    <3>2. SyntaxOK'
      BY <3>1, IdleSyntaxNext
    <3> QED BY <3>1, <3>2 DEF AcceptsJson
  <2>2. ASSUME NEW v \in DOMAIN tree, NEW extra \in DOMAIN tree,
               PushError(v) \/ PushErrorWithExtra(v, extra)
        PROVE  SyntaxOK' /\ AcceptsJson'
    <3>1. pc' = "pushed"
      BY <2>2 DEF PushError, PushErrorWithExtra, PushErrorToken
    <3> QED BY <3>1 DEF SyntaxOK, AcceptsJson
  <2>3. CASE Step
    BY <2>3, StepSyntax
  <2>4. CASE UNCHANGED vars
    BY <2>4, SyntaxUnchanged
  <2> QED BY <2>1, <2>2, <2>3, <2>4 DEF Next
<1> QED BY <1>1, <1>2, Invariant, PlacesKept, PTL DEF Spec

=============================================================================
