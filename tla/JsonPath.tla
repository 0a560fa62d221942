------------------------------- MODULE JsonPath -------------------------------
(***************************************************************************)
(* class Path: a text such as ".name[0].%[%]" and some parameters name a   *)
(* value below a root; make() creates the values on the way to it,         *)
(* resolve() looks it up.                                                  *)
(*                                                                         *)
(* A text is a sequence of Characters: ".", "[", "]", "%", digits, others. *)
(* A tree maps lists of arguments to types.                                *)
(***************************************************************************)
EXTENDS Integers, Sequences, FiniteSets, SequencesExt

CONSTANTS Characters,
          MaxArrayIndex,\* the largest ArrayIndex, an unsigned number: 2^32 - 1
          Documented,   \* paths, written in the documented syntax below
          Odd,          \* and other texts a path is made from
          Parameters,   \* the lists of parameters it is given
          Roots         \* the trees it is used on

Key(s)   == <<"key", s>>      \* s: the strings the name is put together from
Index(i) == <<"index", i>>
Args     == ({"key"} \X Seq(Characters)) \cup ({"index"} \X (0 .. MaxArrayIndex))
Digits   == <<"0", "1", "2", "3", "4", "5", "6", "7", "8", "9">>
Digit(n)   == Digits[n + 1]
DigitOf(c) == (CHOOSE i \in DOMAIN Digits : Digits[i] = c) - 1
NumberOf(s) ==
  LET upTo[k \in 0 .. Len(s)] ==
        IF k = 0 THEN 0 ELSE (10 * upTo[k - 1] + DigitOf(s[k])) % (MaxArrayIndex + 1)
  IN  upTo[Len(s)]

\* The documented syntax: a path is a list of arguments and parameters (their
\* kind alone), ".a[0].%[%]" being written with the characters above.
IsParameter(e) == Len(e) = 1
Decimal[n \in Nat] == IF n < 10 THEN <<Digit(n)>> ELSE Append(Decimal[n \div 10], Digit(n % 10))
Written(e) == IF IsParameter(e) THEN <<"%">>
              ELSE IF e[1] = "key" THEN e[2] ELSE Decimal[e[2]]
Element(path, i) ==
  IF path[i][1] = "index" THEN <<"[">> \o Written(path[i]) \o <<"]">>
  ELSE (IF i = 1 THEN <<>> ELSE <<".">>) \o Written(path[i])
Printed(path) ==
  LET upTo[i \in 0 .. Len(path)] == IF i = 0 THEN <<".">> ELSE upTo[i - 1] \o Element(path, i)
  IN  upTo[Len(path)]
Texts == {Printed(p) : p \in Documented} \cup Odd
\* Names that can be written: not empty, of characters that do not end them.
IsName(s) == /\ Len(s) >= 1 /\ s[1] \notin {"%", "]"}
             /\ \A i \in DOMAIN s : s[i] \notin {"[", ".", "NUL"}
Elements == {<<"key">>, <<"index">>} \cup {e \in Args : e[1] = "key" => IsName(e[2])}

VARIABLES text, current,    \* path, and how far it has been read
          in, taken,        \* the parameters, and how many are used (itInArg)
          args,             \* args_
          root, before,     \* the tree, and as it was before make()
          node, it,         \* the value reached, and the arguments used
          pc
vars == <<text, current, in, taken, args, root, before, node, it, pc>>

At(i) == IF i < Len(text) THEN text[i + 1] ELSE "NUL"
FirstIn(i, S) == CHOOSE j \in i .. Len(text) :
                    /\ j = Len(text) \/ At(j) \in S
                    /\ \A k \in i .. j - 1 : At(k) \notin S
AfterDigits(i) == CHOOSE j \in i .. Len(text) : /\ At(j) \notin ToSet(Digits)
                                               /\ \A k \in i .. j - 1 : At(k) \in ToSet(Digits)

Init == /\ text \in Texts /\ in \in Parameters /\ root \in Roots
        /\ current = 0 /\ taken = 0 /\ args = <<>> /\ before = root
        /\ node = <<>> /\ it = 0 /\ pc = "makePath"

-----------------------------------------------------------------------------
Reading == pc = "makePath" /\ current < Len(text) /\ UNCHANGED <<text, in, root, before, node, it, pc>>

\* addPathInArg: a parameter that is missing or of the other kind is left out.
AddPathInArg(kind) ==
  IF taken < Len(in) /\ in[taken + 1][1] = kind
  THEN args' = Append(args, in[taken + 1]) /\ taken' = taken + 1
  ELSE UNCHANGED <<args, taken>>

\* "[%" or "[" and digits, and the character after them.
ReadIndex ==
  /\ Reading /\ At(current) = "["
  /\ LET i   == current + 1
         end == IF At(i) = "%" THEN i ELSE AfterDigits(i)
     IN  /\ IF At(i) = "%" THEN AddPathInArg("index")
            ELSE /\ args' = Append(args, Index(NumberOf(SubSeq(text, i + 1, end))))
                 /\ UNCHANGED taken
         /\ current' = IF end = Len(text) THEN end ELSE end + 1
ReadParameter == /\ Reading /\ At(current) = "%"
                 /\ AddPathInArg("key") /\ current' = current + 1
SkipSeparator == /\ Reading /\ At(current) \in {".", "]"}
                 /\ current' = current + 1 /\ UNCHANGED <<args, taken>>
NameEndAtBracket(i) == FirstIn(i, {"[", "NUL"})   \* fault: a '.' is part of it
NameEnd(i) == FirstIn(i, {"[", ".", "NUL"})       \* strchr() finds the NUL too
ReadName ==
  /\ Reading /\ At(current) \notin {"[", "%", ".", "]"}
  /\ args' = Append(args, Key(SubSeq(text, current + 1, NameEnd(current))))
  /\ current' = NameEnd(current) /\ UNCHANGED taken

\* The caller goes on to make() or to resolve() on the tree.
Begin(operation) ==
  /\ \/ pc = "makePath" /\ current = Len(text)
     \/ pc = "made" /\ operation = "resolve"
  /\ pc' = operation /\ node' = <<>> /\ it' = 0 /\ before' = root
  /\ UNCHANGED <<text, current, in, taken, args, root>>
Going(operation) == pc = operation /\ UNCHANGED <<text, current, in, taken, args, before>>
Arg == args[it + 1]

Container(arg) == IF arg[1] = "index" THEN "array" ELSE "object"
Fresh == "null"
(***************************************************************************)
(* A step of make(): a null becomes what the argument needs, a value of    *)
(* another type throws, and what is missing is inserted.                   *)
(***************************************************************************)
Make ==
  /\ Going("make") /\ it < Len(args)
  /\ LET child == Append(node, Arg)
     IN  \/ /\ root[node] \notin {"null", Container(Arg)}
            /\ pc' = "thrown" /\ UNCHANGED <<root, node, it>>
         \/ /\ root[node] \in {"null", Container(Arg)}
            /\ root' = [p \in DOMAIN root \cup {child} |->
                          IF p = node THEN Container(Arg)
                          ELSE IF p \in DOMAIN root THEN root[p] ELSE Fresh]
            /\ node' = child /\ it' = it + 1 /\ UNCHANGED pc
MakeEnds == /\ Going("make") /\ it = Len(args)
            /\ pc' = "made" /\ UNCHANGED <<root, node, it>>

Type(p) == IF p \in DOMAIN root THEN root[p] ELSE "null"    \* the null singleton
Children(p) == {q \in DOMAIN root : Len(q) = Len(p) + 1 /\ IsPrefix(p, q)}
\* isValidIndex: below the size, which is one more than the highest index.
IsValidIndex(p, i) == \E q \in Children(p) : i <= Last(q)[2]
(***************************************************************************)
(* A step of resolve(): an index past the end, a missing name or a value   *)
(* of another type gives null or the default; a hole in an array is null.  *)
(***************************************************************************)
Resolve ==
  /\ Going("resolve") /\ it < Len(args) /\ UNCHANGED root
  /\ LET child == Append(node, Arg)
         found == /\ Type(node) = Container(Arg)
                  /\ IF Arg[1] = "index" THEN IsValidIndex(node, Arg[2]) ELSE child \in DOMAIN root
     IN  \/ found /\ node' = child /\ it' = it + 1 /\ UNCHANGED pc
         \/ ~found /\ pc' = "default" /\ UNCHANGED <<node, it>>
ResolveEnds == /\ Going("resolve") /\ it = Len(args)
               /\ pc' = "found" /\ UNCHANGED <<root, node, it>>

Next == \/ ReadIndex \/ ReadParameter \/ SkipSeparator \/ ReadName
        \/ Begin("make") \/ Begin("resolve")
        \/ Make \/ MakeEnds \/ Resolve \/ ResolveEnds
Spec == Init /\ [][Next]_vars

-----------------------------------------------------------------------------
(***************************************************************************)
(* make() is all or nothing: where it meets a value of another type it has *)
(* changed nothing, though it creates one value after the other.           *)
(***************************************************************************)
MakeIsAllOrNothing == pc = "thrown" => root = before
(***************************************************************************)
(* make() leaves a value at the end of the path and every value that was   *)
(* not null as it was; and resolve() finds what is there, in arrays with   *)
(* holes too.                                                              *)
(***************************************************************************)
WhatIsMadeIsFound ==
  /\ pc = "made" => /\ args \in DOMAIN root
                    /\ \A p \in DOMAIN before : before[p] # "null" => root[p] = before[p]
  /\ pc = "default" => args \notin DOMAIN root

\* What a path means, given as many parameters of the right kinds as it takes.
Taken(path, i) == Cardinality({j \in 1 .. i : IsParameter(path[j])})
Given(path) == \A i \in DOMAIN path : IsParameter(path[i]) =>
                 /\ Taken(path, i) <= Len(in)
                 /\ in[Taken(path, i)][1] = path[i][1]
Meaning(path) == [i \in DOMAIN path |->
                    IF IsParameter(path[i]) THEN in[Taken(path, i)] ELSE path[i]]
(***************************************************************************)
(* A path written in the documented syntax, with the parameters it takes,  *)
(* is read as the arguments it means.                                      *)
(***************************************************************************)
Texted == [path \in Documented |-> Printed(path)]
SyntaxIsRead ==
  (pc = "makePath" /\ current = Len(text)) =>
     \A path \in Documented : (Texted[path] = text /\ Given(path)) => args = Meaning(path)

-----------------------------------------------------------------------------
(***************************************************************************)
(* What these rest on.  Values have members and elements only where they   *)
(* are objects and arrays, under the keys of their kind.                   *)
(***************************************************************************)
IsTree(t) ==
  /\ t = [p \in DOMAIN t |-> t[p]] /\ DOMAIN t \subseteq Seq(Args) /\ <<>> \in DOMAIN t
  /\ \A p \in DOMAIN t : \A k \in 0 .. Len(p) - 1 :
       SubSeq(p, 1, k) \in DOMAIN t /\ t[SubSeq(p, 1, k)] = Container(p[k + 1])
\* make() goes on from a null, one of its own since it changed the tree.
MakingOK ==
  /\ node \in DOMAIN root /\ DOMAIN before \subseteq DOMAIN root
  /\ \A p \in DOMAIN before : before[p] # "null" => root[p] = before[p]
  /\ root = before \/ root[node] = "null"
TypeOK ==
  /\ text \in Seq(Characters) /\ current \in 0 .. Len(text)
  /\ in \in Seq(Args) /\ taken \in 0 .. Len(in) /\ args \in Seq(Args)
  /\ IsTree(root) /\ it \in 0 .. Len(args)
  /\ pc \in {"makePath", "make", "made", "thrown", "resolve", "found", "default"}
StepsOK ==
  /\ pc \in {"make", "resolve"} => node = SubSeq(args, 1, it)
  /\ pc = "make" => MakingOK
\* Of a path in the documented syntax so many elements are read, and some of
\* the characters between the last of them and the next.
Between(path, k) ==
  LET o(i) == Len(Printed(SubSeq(path, 1, i)))
  IN  \/ current = o(k)
      \/ current = 0 /\ k = 0
      \/ current = o(k) + 1 /\ 0 < k /\ k < Len(path) /\ path[k + 1][1] = "key"
      \/ current = o(k) - 1 /\ 0 < k /\ path[k] = <<"index">>
ReadingOK ==
  pc = "makePath" => \A path \in Documented : (Texted[path] = text /\ Given(path)) =>
    \E k \in 0 .. Len(path) : /\ args = SubSeq(Meaning(path), 1, k) /\ taken = Taken(path, k)
                              /\ Between(path, k)
IInv == TypeOK /\ StepsOK /\ ReadingOK /\ MakeIsAllOrNothing /\ WhatIsMadeIsFound
=============================================================================
