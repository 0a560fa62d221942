----------------------------- MODULE InvoiceHash -----------------------------
(***************************************************************************)
(* InvoiceHash::Calculate: an RSA signature made with the key of a PEM     *)
(* file, encoded in base 64, and the short hash taken from it.  It juggles *)
(* an EVP_PKEY, an RSA key, a FILE, a digest context and two buffers, and  *)
(* must give each back once whichever step fails.                          *)
(*                                                                         *)
(* "held" names what the function will release on its way out: the locals  *)
(* that are not nullptr, the context once ctx_initialized, the RSA key     *)
(* once the EVP_PKEY owns it, the buffer of the B64 object.  "live" counts *)
(* what was made and not released, so a second release shows as -1.        *)
(***************************************************************************)
EXTENDS Base64, Sequences

CONSTANTS
  KeySizes,  \* sizes in bytes of the RSA keys PEM files hold
  MaxCalls   \* bound on the calls of Calculate on one object

ASSUME InvoiceHashAssumption == KeySizes \subseteq Nat /\ MaxCalls \in Nat

VARIABLES
  pc,       \* the next step, or where the call ended
  held, live,
  modulus,  \* size of the key that was read
  long,     \* length of long_
  short,    \* short_, as the positions of long_ its characters are from
  tmp_ss,   \* tmp_ss_, likewise
  records,  \* the records made of results
  calls, refused  \* history: calls, and keys EVP_PKEY_assign_RSA refused

results == <<long, short, tmp_ss>>
vars == <<pc, held, live, modulus, results, records, calls, refused>>

Locals == {"pkey", "file", "rsa", "ctx", "signature"}
Resources == Locals \cup {"buffer"}

Steps == {"pkey", "open", "read", "assign", "ctx", "init", "update", "allocate",
          "final", "encode", "check", "shorten", "cleanup", "return", "catch"}
Outside == {"new", "returned", "threw", "deleted"}

Init ==
  /\ pc = "new"
  /\ held = {}
  /\ live = [r \in Resources |-> 0]
  /\ modulus = 0
  /\ long = 0 /\ short = <<>> /\ tmp_ss = <<>>
  /\ records = {}
  /\ calls = 0 /\ refused = 0

-----------------------------------------------------------------------------
GoTo(from, to) == pc = from /\ pc' = to

\* A resource is made, and assigned to the local that names it.
Make(r) ==
  /\ live' = [live EXCEPT ![r] = @ + 1]
  /\ held' = held \cup {r}

Release(set) == live' = [r \in Resources |-> IF r \in set THEN live[r] - 1 ELSE live[r]]

\* A throw in the try block; every exception ends in a handler.
Throw(from) ==
  /\ GoTo(from, "catch")
  /\ UNCHANGED <<held, live, modulus, results, records, calls, refused>>

(* Locals and members are reset.  The driver calls once; the class also    *)
(* takes further calls on the same object, after a result or a failure.    *)
Calculate ==
  /\ pc \in Outside \ {"deleted"} /\ calls < MaxCalls
  /\ calls' = calls + 1
  /\ long' = 0 /\ short' = <<>> /\ tmp_ss' = <<>>
  /\ modulus' = 0
  /\ pc' = "pkey"
  /\ UNCHANGED <<held, live, records, refused>>

\* EVP_PKEY_new may return NULL, which nothing tests.
NewPkey ==
  /\ GoTo("pkey", "open")
  /\ Make("pkey") \/ UNCHANGED <<held, live>>
  /\ UNCHANGED <<modulus, results, records, calls, refused>>

OpenFile ==
  \/ /\ GoTo("open", "read")
     /\ Make("file")
     /\ UNCHANGED <<modulus, results, records, calls, refused>>
  \/ Throw("open")

\* Makes an RSA key; until an EVP_PKEY takes it, nothing will release it.
ReadPrivateKey ==
  \/ /\ GoTo("read", "assign")
     /\ modulus' \in KeySizes
     /\ live' = [live EXCEPT !["rsa"] = @ + 1]
     /\ UNCHANGED <<held, results, records, calls, refused>>
  \/ Throw("read")

\* EVP_PKEY_assign_RSA: freeing the EVP_PKEY will free the RSA key.
AssignRsa ==
  \/ /\ GoTo("assign", "ctx")
     /\ "pkey" \in held
     /\ held' = held \cup {"rsa"}
     /\ UNCHANGED <<live, modulus, results, records, calls, refused>>
  \/ /\ GoTo("assign", "catch")
     /\ refused' = refused + 1
     /\ UNCHANGED <<held, live, modulus, results, records, calls>>

InitContext ==
  /\ GoTo("ctx", "init")
  /\ Make("ctx")
  /\ UNCHANGED <<modulus, results, records, calls, refused>>

\* EVP_SignInit, EVP_SignUpdate and EVP_SignFinal, each of which may fail.
Sign(from, to) ==
  \/ /\ GoTo(from, to)
     /\ UNCHANGED <<held, live, modulus, results, records, calls, refused>>
  \/ Throw(from)

SignInit   == Sign("init", "update")
SignUpdate == Sign("update", "allocate")
SignFinal  == Sign("final", "encode")

NewSignature ==
  \/ /\ GoTo("allocate", "final")
     /\ Make("signature")
     /\ UNCHANGED <<modulus, results, records, calls, refused>>
  \/ Throw("allocate")

\* A signature is as long as the key.  Either the new[] in Encode or the
\* assignment to long_ may throw, the latter with the buffer made.
Encode ==
  \/ /\ GoTo("encode", "check")
     /\ Make("buffer")
     /\ long' = EncodedSize(modulus)
     /\ UNCHANGED <<short, tmp_ss, modulus, records, calls, refused>>
  \/ /\ GoTo("encode", "catch")
     /\ Make("buffer")
     /\ UNCHANGED <<modulus, results, records, calls, refused>>
  \/ Throw("encode")

ExpectedLength == 172

\* Faults: the length is not tested; the resources are released before it is.
CheckNothing ==
  /\ GoTo("check", "shorten")
  /\ UNCHANGED <<held, live, modulus, results, records, calls, refused>>
CheckLengthAfterCleanup ==
  /\ pc = "check"
  /\ Release(held \cap Locals)
  /\ held' = held \ {"ctx"}
  /\ pc' = IF long = ExpectedLength THEN "shorten" ELSE "catch"
  /\ UNCHANGED <<modulus, results, records, calls, refused>>

CheckLength ==
  IF long = ExpectedLength
  THEN /\ GoTo("check", "shorten")
       /\ UNCHANGED <<held, live, modulus, results, records, calls, refused>>
  ELSE Throw("check")

ShortPositions == <<0, 10, 20, 30>>

Shorten ==
  /\ GoTo("shorten", "cleanup")
  /\ tmp_ss' = tmp_ss \o ShortPositions
  /\ short' = tmp_ss'
  /\ UNCHANGED <<long, held, live, modulus, records, calls, refused>>

\* The cleanup lambda resets ctx_initialized and none of the pointers.
Cleanup(from, to) ==
  /\ GoTo(from, to)
  /\ Release(held \cap Locals)
  /\ held' = held \ {"ctx"}
  /\ UNCHANGED <<modulus, results, records, calls, refused>>

CleanupAndReturn == Cleanup("cleanup", "return")

\* The end of the scope: ~B64().
Return ==
  /\ GoTo("return", "returned")
  /\ Release(held \cap {"buffer"})
  /\ held' = {}
  /\ UNCHANGED <<modulus, results, records, calls, refused>>

\* Any handler: cleanup, then a throw whose unwinding runs ~B64().  Making
\* the exception to throw may itself throw, after the cleanup.
Rethrow ==
  /\ GoTo("catch", "threw")
  /\ Release(held)
  /\ held' = {}
  /\ UNCHANGED <<modulus, results, records, calls, refused>>

FillOutputAtUserFuncContext ==
  /\ pc = "returned"
  /\ records' = records \cup {[long |-> long, short |-> short]}
  /\ UNCHANGED <<pc, held, live, modulus, results, calls, refused>>

Delete ==
  /\ pc \in {"returned", "threw"}
  /\ pc' = "deleted"
  /\ UNCHANGED <<held, live, modulus, results, records, calls, refused>>

Next ==
  \/ Calculate \/ NewPkey \/ OpenFile \/ ReadPrivateKey \/ AssignRsa
  \/ InitContext \/ SignInit \/ SignUpdate \/ NewSignature \/ SignFinal
  \/ Encode \/ CheckLength \/ Shorten \/ CleanupAndReturn \/ Return \/ Rethrow
  \/ FillOutputAtUserFuncContext \/ Delete

Spec == Init /\ [][Next]_vars
-----------------------------------------------------------------------------
\* Every variable has its type.
TypeOK ==
  /\ pc \in Steps \cup Outside
  /\ held \subseteq Resources
  /\ live \in [Resources -> Int]
  /\ modulus \in KeySizes \cup {0}
  /\ long \in Nat
  /\ short \in {<<>>, ShortPositions}
  /\ tmp_ss \in {<<>>, ShortPositions}
  /\ records \subseteq [long : Nat, short : {<<>>, ShortPositions}]
  /\ calls \in 0..MaxCalls
  /\ refused \in 0..MaxCalls

(* Out of Calculate nothing is left but the RSA keys EVP_PKEY_assign_RSA   *)
(* refused (no local but rsa_pkey pointed to them, which cleanup forgets); *)
(* and nothing is ever released twice, or before it was made.              *)
ReleasedOnce ==
  /\ \A r \in Resources : live[r] >= 0
  /\ pc \in Outside =>
       \A r \in Resources : live[r] = IF r = "rsa" THEN refused ELSE 0

(* A result is whole: its two hashes were made by the same call, of a      *)
(* signature of 172 characters (a key of 127 to 129 bytes), the short one  *)
(* of characters the long one has.  No failed call leaves a record.        *)
ResultsAreWhole ==
  /\ pc = "returned" =>
       /\ long = EncodedSize(modulus)
       /\ modulus \in 127..129
       /\ short = ShortPositions
  /\ \A r \in records :
       /\ r.long = ExpectedLength
       /\ r.short = ShortPositions
       /\ \A i \in DOMAIN r.short : r.short[i] < r.long
-----------------------------------------------------------------------------
(* The inductive invariant: what is held at each step, and that all that   *)
(* is live is held, but for the RSA key between its making and its owner.  *)
AfterFile == {"read", "assign"}
AfterOwner == {"ctx", "init", "update", "allocate", "final", "encode", "check",
               "shorten", "cleanup"}

\* What is live beyond what is held.
Unowned(r) == IF r = "rsa" THEN refused + (IF pc = "assign" THEN 1 ELSE 0) ELSE 0

HeldOK ==
  /\ pc \in Outside \cup {"pkey"} => held = {}
  /\ pc = "open" => held \subseteq {"pkey"}
  /\ pc \in AfterFile => held \subseteq {"pkey", "file"}
  /\ pc = "ctx" => held \subseteq {"pkey", "file", "rsa"}
  /\ pc \in {"init", "update", "allocate"} => held \subseteq Locals \ {"signature"}
  /\ pc \in {"final", "encode"} => held \subseteq Locals

LiveOK ==
  \A r \in Resources :
    live[r] = (IF r \in held /\ (pc = "return" => r = "buffer") THEN 1 ELSE 0) + Unowned(r)

ResultOK ==
  /\ pc \in {"pkey", "open", "read", "assign"} \cup (AfterOwner \ {"cleanup"})
       => short = <<>> /\ tmp_ss = <<>>
  /\ pc = "check" => long = EncodedSize(modulus)
  /\ pc \in {"shorten", "cleanup", "return", "returned"} =>
       long = EncodedSize(modulus) /\ long = ExpectedLength
  /\ pc \in {"cleanup", "return", "returned"} => short = ShortPositions

IInv ==
  /\ TypeOK
  /\ refused + (IF pc \in Steps \ {"catch", "cleanup", "return"} THEN 1 ELSE 0) <= calls
  /\ HeldOK
  /\ LiveOK
  /\ ResultOK
  /\ ResultsAreWhole
=============================================================================
