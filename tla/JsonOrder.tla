------------------------------- MODULE JsonOrder -------------------------------
(***************************************************************************)
(* The order of Values, and of the CZStrings that are the keys of their    *)
(* maps: operator<, operator== and compare().                              *)
(*                                                                         *)
(* A value is [type, of]: of is a number for the numeric types (NaN is     *)
(* none), a sequence of bytes for a string, and for an array or an object  *)
(* its map: a sequence of [key, value] in the order of the keys, which are *)
(* indices (naturals) or names (sequences of bytes).                       *)
(***************************************************************************)
EXTENDS Integers, Sequences, FiniteSets, SequencesExt

CONSTANTS Ordered,       \* values, with all that are in them
          Nesting        \* of each, how deep what is in it is nested

\* What is in a value, and a value of its type: a tree, of finite depth.
Held(v) == IF v.type \in {"array", "object"} THEN {v.of[i].value : i \in DOMAIN v.of} ELSE {}
MapOf(Keys) == Seq([key : Keys, value : Ordered])
Bytes == Seq(0 .. 255)
IsTyped(v) ==
  CASE v.type = "null"   -> v.of = <<>>
    [] v.type = "string" -> v.of \in Bytes
    [] v.type = "array"  -> v.of \in MapOf(Nat)
    [] v.type = "object" -> v.of \in MapOf(Bytes)
    [] OTHER             -> v.type \in {"int", "uint", "real", "boolean"} /\ v.of \in Int
AreTrees ==
  /\ \A v \in Ordered : v = [type |-> v.type, of |-> v.of] /\ IsTyped(v)
  /\ Nesting \in [Ordered -> Nat]
  /\ \A v \in Ordered : \A w \in Held(v) : Nesting[w] < Nesting[v]

TypeOrder == <<"null", "int", "uint", "real", "string", "boolean", "array", "object">>
TypeNumber(v) == CHOOSE i \in DOMAIN TypeOrder : TypeOrder[i] = v.type
Smaller(m, n) == IF m < n THEN m ELSE n

\* memcmp of the first n bytes: negative, zero or positive.
FirstDifference(s, t, n) == {i \in 1 .. n : s[i] # t[i] /\ SubSeq(s, 1, i - 1) = SubSeq(t, 1, i - 1)}
Memcmp(s, t, n) == IF FirstDifference(s, t, n) = {} THEN 0
                   ELSE LET i == CHOOSE j \in FirstDifference(s, t, n) : TRUE IN s[i] - t[i]
BytesLessByMemcmp(s, t) == Memcmp(s, t, Smaller(Len(s), Len(t))) < 0   \* fault: the lengths are not compared
BytesLess(s, t) ==
  LET comp == Memcmp(s, t, Smaller(Len(s), Len(t)))
  IN  comp < 0 \/ (comp = 0 /\ Len(s) < Len(t))
BytesEqual(s, t) == Len(s) = Len(t) /\ Memcmp(s, t, Len(s)) = 0

\* CZString::operator<, of the keys of maps of the same type.
KeyLess(type, k, l) == IF type = "array" THEN k < l ELSE BytesLess(k, l)
KeyEqual(type, k, l) == IF type = "array" THEN k = l ELSE BytesEqual(k, l)

\* std::pair: the keys first; less compares the values.
PairLess(type, p, q, less) ==
  \/ KeyLess(type, p.key, q.key)
  \/ ~KeyLess(type, q.key, p.key) /\ less[p.value][q.value]
\* std::lexicographical_compare, of maps of the same size.
MapLess(type, m, n, less) ==
  \E i \in DOMAIN m :
    /\ PairLess(type, m[i], n[i], less)
    /\ \A j \in 1 .. i - 1 : ~PairLess(type, m[j], n[j], less) /\ ~PairLess(type, n[j], m[j], less)
MapEqual(type, m, n, equal) ==
  Len(m) = Len(n) /\ \A i \in DOMAIN m : /\ KeyEqual(type, m[i].key, n[i].key)
                                         /\ equal[m[i].value][n[i].value]

\* Value::operator<: the types first, then, of maps, the sizes.
ValueLess(v, w, less) ==
  \/ TypeNumber(v) < TypeNumber(w)
  \/ /\ v.type = w.type
     /\ CASE v.type = "null"              -> FALSE
          [] v.type = "string"            -> BytesLess(v.of, w.of)
          [] v.type \in {"array", "object"} ->
               \/ Len(v.of) < Len(w.of)
               \/ Len(v.of) = Len(w.of) /\ MapLess(v.type, v.of, w.of, less)
          [] OTHER                        -> v.of < w.of
ValueEqual(v, w, equal) ==
  /\ v.type = w.type
  /\ CASE v.type = "null"   -> TRUE
       [] v.type = "string" -> BytesEqual(v.of, w.of)
       [] v.type \in {"array", "object"} -> MapEqual(v.type, v.of, w.of, equal)
       [] OTHER             -> v.of = w.of
Less[v \in Ordered]  == [w \in Ordered |-> ValueLess(v, w, Less)]
Equal[v \in Ordered] == [w \in Ordered |-> ValueEqual(v, w, Equal)]
Compare(v, w) == IF Less[v][w] THEN -1 ELSE IF Less[w][v] THEN 1 ELSE 0
=============================================================================
