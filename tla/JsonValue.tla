------------------------------- MODULE JsonValue -------------------------------
(***************************************************************************)
(* class Value: trees of values that own their strings, the names of their *)
(* members and their comments, each in a buffer of its own unless it was   *)
(* given as a StaticString; and arrays, which are maps from indices and    *)
(* may have holes.                                                         *)
(*                                                                         *)
(* A tree maps paths to nodes.  A node holds the buffers of its text, of   *)
(* its name in the object it is a member of, and of a comment: 0 when      *)
(* there is none, or it is static.                                         *)
(***************************************************************************)
EXTENDS Integers, Sequences, FiniteSets, SequencesExt, FiniteSetsExt

CONSTANTS Variables,    \* the Values of the program
          Names,        \* names of members
          MaxIndex,     \* bound on the indices it uses
          MaxDepth,     \* bound on the depth of its trees
          MaxNodes,     \* bound on the nodes of its trees
          Buffers       \* bound on the memory it uses

ASSUME JsonValueAssumption == MaxIndex \in Nat /\ 0 \notin Buffers

VARIABLES values, heap, thrown
vars == <<values, heap, thrown>>

Fields == {"text", "key", "comment"}
Types  == {"null", "string", "array", "object"}
Node(type, text, key) == [type |-> type, text |-> text, key |-> key, comment |-> 0]
Leaf(type, text) == [p \in {<<>>} |-> Node(type, text, 0)]
NullTree == Leaf("null", 0)
Index(i) == <<"index", i>>

Slots(t) == {s \in (DOMAIN t) \X Fields : t[s[1]][s[2]] # 0}
Held(t)  == {t[s[1]][s[2]] : s \in Slots(t)}
Under(t, p)  == {q \in DOMAIN t : IsPrefix(p, q)}
Subtree(t, p) == [w \in {SubSeq(q, Len(p) + 1, Len(q)) : q \in Under(t, p)} |->
                    IF w = <<>> THEN [t[p] EXCEPT !.key = 0] ELSE t[p \o w]]
Depth(t) == Max({Len(p) : p \in DOMAIN t})

(***************************************************************************)
(* Value(const Value&) and CZString(const CZString&): a copy has buffers   *)
(* of its own for all that its original owns, and shares what is static.   *)
(***************************************************************************)
Injective(slots) == {new \in [slots -> Buffers \ heap] : IsInjective(new)}
CopyWith(t, slots) ==
  LET new == CHOOSE n \in Injective(slots) : TRUE
  IN  [p \in DOMAIN t |-> [f \in DOMAIN t[p] |->
         IF <<p, f>> \in slots THEN new[<<p, f>>] ELSE t[p][f]]]
CopySharingKeys(t) == CopyWith(t, {s \in Slots(t) : s[2] # "key"})  \* fault: the pointer is copied
Copy(t) == CopyWith(t, Slots(t))
Fits(t) == Injective(Slots(t)) # {}
Fresh   == CHOOSE b \in Buffers \ heap : TRUE

\* The value at p is given the payload and the comments of u; it keeps its name.
Graft(t, p, u) ==
  [q \in (DOMAIN t \ Under(t, p)) \cup {p \o w : w \in DOMAIN u} |->
     IF q = p THEN [u[<<>>] EXCEPT !.key = t[p].key]
     ELSE IF IsPrefix(p, q) THEN u[SubSeq(q, Len(p) + 1, Len(q))] ELSE t[q]]
Erase(t, p) == [q \in DOMAIN t \ Under(t, p) |-> t[q]]

Insert(t, p, b) == [q \in DOMAIN t \cup {p} |-> IF q = p THEN Node("null", 0, b) ELSE t[q]]
\* What the destructor of the value at p releases; the name goes with the member.
HeldAt(t, p)       == Held(Subtree(t, p))
Released(t, p)     == HeldAt(t, p) \cup ({t[p].key} \ {0})

Children(t, p) == {q \in DOMAIN t : Len(q) = Len(p) + 1 /\ IsPrefix(p, q)}
Size(t) == IF t[<<>>].type = "array" /\ Children(t, <<>>) # {}
           THEN Max({q[1][2] : q \in Children(t, <<>>)}) + 1 ELSE 0

\* An operation gives variables new trees, releases buffers and allocates some.
Become(new, released, allocated) ==
  /\ values' = new /\ heap' = (heap \ released) \cup allocated /\ thrown' = FALSE
  /\ \A v \in Variables : Depth(new[v]) <= MaxDepth /\ Cardinality(DOMAIN new[v]) <= MaxNodes
Throw == thrown' = TRUE /\ UNCHANGED <<values, heap>>
Type(v, p) == values[v][p].type

-----------------------------------------------------------------------------
Init == /\ values = [v \in Variables |-> NullTree] /\ heap = {} /\ thrown = FALSE

\* operator=(Value other): swap with the copy, and destroy what was here.
Put(v, p, u) == Become([values EXCEPT ![v] = Graft(@, p, u)], HeldAt(values[v], p), Held(u))
AssignText(v, p) == heap # Buffers /\ Put(v, p, Leaf("string", Fresh))
AssignStatic(v, p) == Put(v, p, Leaf("string", 0))
Assign(v, p, w, q) ==
  LET u == Subtree(values[w], q) IN Fits(u) /\ Put(v, p, Copy(u))

\* CommentInfo::setComment releases the comment there was.
SetComment(v, p) ==
  /\ heap # Buffers
  /\ Become([values EXCEPT ![v][p].comment = Fresh], {values[v][p].comment}, {Fresh})

(***************************************************************************)
(* operator[] and resolveReference: a null first becomes an object or an   *)
(* array (by assignment: its comment goes), and what is missing is         *)
(* inserted; the name of a StaticString is kept by reference.              *)
(***************************************************************************)
As(t, p, type) == IF t[p].type = type THEN t ELSE Graft(t, p, Leaf(type, 0))
LostComment(t, p) == IF t[p].type = "null" THEN {t[p].comment} ELSE {}
Resolve(v, p, type, key, static) ==
  LET t   == As(values[v], p, type)
      q   == Append(p, key)
      new == key[1] = "name" /\ ~static /\ q \notin DOMAIN t
      b   == IF new THEN Fresh ELSE 0
  IN  \/ Type(v, p) \notin {"null", type} /\ Throw
      \/ /\ Type(v, p) \in {"null", type} /\ (new => heap # Buffers)
         /\ Become([values EXCEPT ![v] = IF q \in DOMAIN t THEN t ELSE Insert(t, q, b)],
                   LostComment(values[v], p), {b} \ {0})
Member(v, p, n, static) == Resolve(v, p, "object", <<"name", n>>, static)
Element(v, p, i)        == Resolve(v, p, "array", Index(i), FALSE)

(***************************************************************************)
(* append(value): operator[](size()) = value.  C++11 does not say which    *)
(* comes first, the new element or the copy of the value: it matters when  *)
(* a value is appended to itself.                                          *)
(***************************************************************************)
AppendValue(v, w) ==
  LET t == As(values[v], <<>>, "array")
      q == <<Index(Size(t))>>
      u == Insert(t, q, 0)
  IN  \/ Type(v, <<>>) \notin {"null", "array"} /\ Throw
      \/ /\ Type(v, <<>>) \in {"null", "array"} /\ Size(t) <= MaxIndex
         /\ \E source \in IF v = w THEN {values[w], u} ELSE {values[w]} :
              /\ Fits(source)
              /\ Become([values EXCEPT ![v] = Graft(u, q, Copy(source))],
                        LostComment(values[v], <<>>), Held(Copy(source)))

\* removeMember(key, end, &removed) with w for what is removed.
RemoveMember(v, n, w) ==
  LET t == values[v] q == <<<<"name", n>>>>
  IN  /\ v # w /\ t[<<>>].type = "object" /\ q \in DOMAIN t /\ Fits(Subtree(t, q))
      /\ LET removed == Copy(Subtree(t, q))
         IN  Become([values EXCEPT ![v] = Erase(t, q), ![w] = removed],
                    Released(t, q) \cup HeldAt(values[w], <<>>), Held(removed))

(***************************************************************************)
(* removeIndex: every element after the index is copied one place down,    *)
(* holes as nulls, and the last one erased (each copy replaces the buffers *)
(* of its original, which is itself replaced or erased next).              *)
(***************************************************************************)
ElementAt(t, i) == IF <<Index(i)>> \in DOMAIN t THEN Subtree(t, <<Index(i)>>) ELSE NullTree
ShiftedFrom(t, i) ==
  LET moved(j) == {<<Index(j)>> \o q : q \in DOMAIN ElementAt(t, j + 1)}
      kept     == {q \in DOMAIN t : q = <<>> \/ q[1][2] < i}
  IN  [p \in kept \cup UNION {moved(j) : j \in i .. Size(t) - 2} |->
         IF p \in kept THEN t[p] ELSE ElementAt(t, p[1][2] + 1)[Tail(p)]]
ShiftedFromNext(t, i) == ShiftedFrom(t, i + 1)         \* fault: the loop starts one element late
Shifted(t, i)         == ShiftedFrom(t, i)
RemoveIndex(v, i, w) ==
  LET t == values[v] q == <<Index(i)>>
  IN  /\ v # w /\ t[<<>>].type = "array" /\ q \in DOMAIN t /\ Fits(Subtree(t, q))
      /\ LET removed == Copy(Subtree(t, q))
         IN  Become([values EXCEPT ![v] = Shifted(t, i), ![w] = removed],
                    HeldAt(t, q) \cup HeldAt(values[w], <<>>), Held(removed))

\* Asked to remove what is not there, both return false.
RemoveNothing(v, key) ==
  /\ Type(v, <<>>) # (IF key[1] = "index" THEN "array" ELSE "object")
       \/ <<key>> \notin DOMAIN values[v]
  /\ thrown' = FALSE /\ UNCHANGED <<values, heap>>

\* The elements from n on are erased; the assertion at the end may fail.
EraseAll(t, S) == [q \in DOMAIN t \ UNION {Under(t, p) : p \in S} |-> t[q]]
Resize(v, n) ==
  LET t == As(values[v], <<>>, "array")
      last == <<Index(n - 1)>>
      gone == {p \in Children(t, <<>>) : p[1][2] >= n}
      lost == LostComment(values[v], <<>>)
  IN  \/ Type(v, <<>>) \notin {"null", "array"} /\ Throw
      \/ /\ Type(v, <<>>) \in {"null", "array"} /\ n > Size(t)
         /\ Become([values EXCEPT ![v] = Insert(t, last, 0)], lost, {})
      \/ /\ Type(v, <<>>) \in {"null", "array"} /\ n <= Size(t)
         /\ values' = [values EXCEPT ![v] = EraseAll(t, gone)]
         /\ heap' = heap \ (lost \cup UNION {Released(t, p) : p \in gone})
         /\ thrown' = (Size(EraseAll(t, gone)) # n)

Clear(v) ==
  LET t == values[v]
  IN  \/ Type(v, <<>>) = "string" /\ Throw
      \/ /\ Type(v, <<>>) # "string"
         /\ Become([values EXCEPT ![v] = EraseAll(t, Children(t, <<>>))],
                   UNION {Released(t, p) : p \in Children(t, <<>>)}, {})

Swap(v, w) == Become([values EXCEPT ![v] = values[w], ![w] = values[v]], {}, {})
\* swapPayload leaves the comments where they are.
SwapPayload(v, w) ==
  LET With(t, u) == [t EXCEPT ![<<>>].comment = u[<<>>].comment]
  IN  Become([values EXCEPT ![v] = With(values[w], values[v]), ![w] = With(values[v], values[w])],
             {}, {})

Next ==
  \/ \E v \in Variables : \E p \in DOMAIN values[v] :
       \/ AssignText(v, p) \/ AssignStatic(v, p) \/ SetComment(v, p)
       \/ \E w \in Variables : \E q \in DOMAIN values[w] : Assign(v, p, w, q)
       \/ \E n \in Names, static \in BOOLEAN : Member(v, p, n, static)
       \/ \E i \in 0 .. MaxIndex : Element(v, p, i)
  \/ \E v, w \in Variables :
       \/ AppendValue(v, w)
       \/ \E n \in Names : RemoveMember(v, n, w)
       \/ \E i \in 0 .. MaxIndex : RemoveIndex(v, i, w)
       \/ v # w /\ (Swap(v, w) \/ SwapPayload(v, w))
  \/ \E v \in Variables :
       \/ \E n \in Names : RemoveNothing(v, <<"name", n>>)
       \/ \E i \in 0 .. MaxIndex : RemoveNothing(v, Index(i))
       \/ Clear(v)
       \/ \E n \in 0 .. MaxIndex + 1 : Resize(v, n)
Spec == Init /\ [][Next]_vars

-----------------------------------------------------------------------------
Keys  == ({"name"} \X Names) \cup ({"index"} \X (0 .. MaxIndex))
Nodes == LET Slot == Buffers \cup {0}
         IN  [type : Types, text : Slot, key : Slot, comment : Slot]
Holder(key) == IF key[1] = "index" THEN "array" ELSE "object"
\* A value that has members or elements is the object or array for them, only
\* a string has text, and an element has no name.
IsTree(t) ==
  /\ t \in [DOMAIN t -> Nodes] /\ <<>> \in DOMAIN t /\ t[<<>>].key = 0
  /\ \A p \in DOMAIN t :
       /\ p \in Seq(Keys)
       /\ t[p].type # "string" => t[p].text = 0
       /\ \A n \in 1 .. Len(p) : /\ SubSeq(p, 1, n - 1) \in DOMAIN t
                                 /\ t[SubSeq(p, 1, n - 1)].type = Holder(p[n])
       /\ p # <<>> => (p[Len(p)][1] = "index" => t[p].key = 0)
TypeOK == /\ heap \subseteq Buffers /\ thrown \in BOOLEAN
          /\ DOMAIN values = Variables /\ \A v \in Variables : IsTree(values[v])

AllSlots == Variables \X UNION {Slots(values[v]) : v \in Variables}
Owners(b) == {o \in AllSlots : /\ o[2] \in Slots(values[o[1]])
                               /\ values[o[1]][o[2][1]][o[2][2]] = b}
(***************************************************************************)
(* Trees stay trees, in whatever order the program copies, swaps and takes *)
(* them apart; and a buffer that is allocated is owned by one text, name   *)
(* or comment, and nothing else is owned: no leak, nothing dangling, and   *)
(* no destructor releases what another still uses or has released.         *)
(***************************************************************************)
HeapIsOwned ==
  /\ TypeOK
  /\ \A b \in Buffers : Cardinality(Owners(b)) = IF b \in heap THEN 1 ELSE 0

\* The elements of an array, the holes as nulls, by their types.
Shape(t) == [p \in DOMAIN t |-> t[p].type]
Elements(t) == [i \in 1 .. Size(t) |-> Shape(ElementAt(t, i - 1))]
(***************************************************************************)
(* removeIndex takes exactly that element out of the array, and hands it   *)
(* over; only when it is the last one may more go: the holes before it.    *)
(***************************************************************************)
TakesOne ==
  \A v, w \in Variables, i \in 0 .. MaxIndex : RemoveIndex(v, i, w) =>
       LET old   == Elements(values[v])
           left  == Elements(values'[v])
           wants == RemoveAt(old, i + 1)
       IN  /\ IsPrefix(left, wants)
           /\ left # wants => i + 1 = Len(old)
           /\ \A j \in Len(left) + 1 .. Len(wants) :
                <<Index(j - 1)>> \notin DOMAIN values[v]
           /\ Shape(values'[w]) = old[i + 1]
(***************************************************************************)
(* append adds one element, which is the value appended (as it was, or as  *)
(* it has become by growing, when it is the array itself).                 *)
(***************************************************************************)
AddsOne ==
  \A v, w \in Variables : (AppendValue(v, w) /\ ~thrown') =>
       LET old   == Elements(values[v])
           new   == Elements(values'[v])
           grown == Insert(As(values[v], <<>>, "array"), <<Index(Len(old))>>, 0)
       IN  /\ Front(new) = old
           /\ \/ Last(new) = Shape(values[w])
              \/ v = w /\ Last(new) = Shape(grown)
=============================================================================
