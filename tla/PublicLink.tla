----------------------------- MODULE PublicLink -----------------------------
(***************************************************************************)
(* PublicLink::Calculate: a JSON payload is encrypted with AES-256-CBC     *)
(* under a key and an iv given as base 64 texts, and made into a URL.  It  *)
(* owns up to three buffers and a cipher context; two of the exceptions it *)
(* can meet have a handler, all other ones leave at once.                  *)
(*                                                                         *)
(* "held" names the buffers whose local pointer is not nullptr, "live"     *)
(* counts what was made and not released.                                  *)
(***************************************************************************)
EXTENDS Integers, Sequences

CONSTANTS
  Texts,        \* the texts given as a key or an iv
  NoText,       \* the empty one
  Malformed,    \* those that are no base 64
  PayloadSizes, \* the sizes in bytes of the JSON payload
  MaxCalls      \* bound on the calls of Calculate on one object

ASSUME PublicLinkAssumption ==
  /\ NoText \in Texts
  /\ Malformed \subseteq Texts \ {NoText}
  /\ PayloadSizes \subseteq Nat
  /\ MaxCalls \in Nat

VARIABLES
  pc,
  key_, iv_,  \* what the object was made with
  todo,       \* entries of the map not yet decoded
  decoded,    \* the text each pointer's bytes are from, NoText for nullptr
  inl,        \* the size of the payload of this call
  out_size, encrypted_length,  \* the size of out, and what was stored in it
  held, live,
  thrown,     \* the exception in flight, or the one that left
  tmp_ss, url_,
  calls, before  \* history: calls, and "live" when the last one started

results == <<tmp_ss, url_>>
history == <<calls, before>>
cipher  == <<inl, out_size, encrypted_length>>
vars == <<pc, key_, iv_, todo, decoded, cipher, held, live, thrown, results, history>>

BlockSize == 16   \* EVP_CIPHER_block_size of AES
Entries == {"key", "iv"}
Buffers == Entries \cup {"out"}
Resources == Buffers \cup {"ctx"}
Exceptions == {"pg", "json", "other"}

Steps == {"payload", "padding", "decode", "init", "write", "allocate", "update",
          "final", "encode", "release", "url", "catch"}
Outside == {"new", "returned", "threw", "crashed", "deleted"}

Init ==
  /\ pc = "new"
  /\ key_ \in Texts /\ iv_ \in Texts
  /\ todo = {}
  /\ decoded = [e \in Entries |-> NoText]
  /\ inl = 0 /\ out_size = 0 /\ encrypted_length = 0
  /\ held = {}
  /\ live = [r \in Resources |-> 0]
  /\ thrown = "none"
  /\ tmp_ss = <<>> /\ url_ = <<>>
  /\ calls = 0
  /\ before = live

-----------------------------------------------------------------------------
GoTo(from, to) == pc = from /\ pc' = to

Release(set) == live' = [r \in Resources |-> IF r \in set THEN live[r] - 1 ELSE live[r]]

\* The library's exceptions and JsonCpp's are caught; any other one leaves,
\* and with it go the local pointers.
Throw(from, kind) ==
  /\ pc = from
  /\ pc' = IF kind = "other" THEN "threw" ELSE "catch"
  /\ held' = IF kind = "other" THEN {} ELSE held
  /\ thrown' = kind

\* An exception of what the function calls: nothing is released before it.
ThrownBy(from, kinds) ==
  /\ \E kind \in kinds : Throw(from, kind)
  /\ UNCHANGED <<key_, iv_, todo, decoded, cipher, live, results, history>>

\* Its own exception, thrown after EVP_CIPHER_CTX_cleanup, which finds
\* nothing to release in a context that was not set up.
ThrowAfterCleanup(from) ==
  /\ Throw(from, "pg")
  /\ Release(IF from \in {"update", "final"} THEN {"ctx"} ELSE {})
  /\ UNCHANGED <<key_, iv_, todo, decoded, cipher, results, history>>

(* Locals and members are reset.  The driver calls once; the class also    *)
(* takes further calls on the same object, after a result or a failure.    *)
Calculate ==
  /\ pc \in {"new", "returned", "threw"} /\ calls < MaxCalls
  /\ calls' = calls + 1 /\ before' = live
  /\ tmp_ss' = <<>> /\ url_' = <<>>
  /\ decoded' = [e \in Entries |-> NoText]
  /\ inl' = 0 /\ out_size' = 0 /\ encrypted_length' = 0
  /\ held' = {} /\ thrown' = "none" /\ todo' = {}
  /\ pc' = "payload"
  /\ UNCHANGED <<key_, iv_, live>>

PreparePayload ==
  \/ /\ GoTo("payload", "padding")
     /\ UNCHANGED <<key_, iv_, todo, decoded, cipher, held, live, thrown, results, history>>
  \/ ThrownBy("payload", {"json", "other"})

\* Two equal texts make a map of one entry, the key's.
MapEntries == IF key_ = iv_ THEN {"key"} ELSE Entries
TextOf(e) == IF e = "key" THEN key_ ELSE iv_

SetPadding ==
  \/ /\ GoTo("padding", "decode")
     /\ todo' = MapEntries
     /\ UNCHANGED <<key_, iv_, decoded, cipher, held, live, thrown, results, history>>
  \/ ThrowAfterCleanup("padding")
  \/ ThrownBy("padding", {"other"})

(* One entry of the map, in an order that depends on the texts: allocate,  *)
(* then decode, which throws an exception without a handler if it cannot.  *)
Decode(e) ==
  /\ pc = "decode"
  /\ e \in todo
  /\ TextOf(e) \notin Malformed
  /\ todo' = todo \ {e}
  /\ pc' = IF todo' = {} THEN "init" ELSE "decode"
  /\ decoded' = [decoded EXCEPT ![e] = TextOf(e)]
  /\ IF TextOf(e) = NoText
     THEN UNCHANGED <<held, live>>
     ELSE /\ held' = held \cup {e}
          /\ live' = [live EXCEPT ![e] = @ + 1]
  /\ UNCHANGED <<key_, iv_, cipher, thrown, results, history>>

DecodeThrows(e) ==
  /\ e \in todo
  /\ Throw("decode", "other")
  /\ \/ UNCHANGED live
     \/ TextOf(e) \in Malformed /\ live' = [live EXCEPT ![e] = @ + 1]
  /\ UNCHANGED <<key_, iv_, todo, decoded, cipher, results, history>>

EncryptInit ==
  \/ /\ GoTo("init", "write")
     /\ live' = [live EXCEPT !["ctx"] = @ + 1]
     /\ UNCHANGED <<key_, iv_, todo, decoded, cipher, held, thrown, results, history>>
  \/ ThrowAfterCleanup("init")

Write ==
  \/ /\ GoTo("write", "allocate")
     /\ inl' \in PayloadSizes
     /\ UNCHANGED <<key_, iv_, todo, decoded, out_size, encrypted_length,
                    held, live, thrown, results, history>>
  \/ ThrownBy("write", {"json", "other"})

\* Fault: room for the payload, none for the padding.
OutSizeOfPayload(size) == size

OutSize(size) == size + BlockSize - 1

AllocateOut ==
  \/ /\ GoTo("allocate", "update")
     /\ out_size' = OutSize(inl)
     /\ held' = held \cup {"out"}
     /\ live' = [live EXCEPT !["out"] = @ + 1]
     /\ UNCHANGED <<key_, iv_, todo, decoded, inl, encrypted_length, thrown, results, history>>
  \/ ThrownBy("allocate", {"other"})

\* Stores the complete blocks.
EncryptUpdate ==
  \/ /\ GoTo("update", "final")
     /\ encrypted_length' = inl - (inl % BlockSize)
     /\ UNCHANGED <<key_, iv_, todo, decoded, inl, out_size, held, live, thrown, results, history>>
  \/ ThrowAfterCleanup("update")

\* Fault: the last block is not added to what is encoded.
EncryptFinalUncounted ==
  \/ /\ GoTo("final", "encode")
     /\ UNCHANGED <<key_, iv_, todo, decoded, cipher, held, live, thrown, results, history>>
  \/ ThrowAfterCleanup("final")

\* Stores the padded last block, a whole one when nothing remained.
EncryptFinal ==
  \/ /\ GoTo("final", "encode")
     /\ encrypted_length' = encrypted_length + BlockSize
     /\ UNCHANGED <<key_, iv_, todo, decoded, inl, out_size, held, live, thrown, results, history>>
  \/ ThrowAfterCleanup("final")

Encode ==
  \/ /\ GoTo("encode", "release")
     /\ UNCHANGED <<key_, iv_, todo, decoded, cipher, held, live, thrown, results, history>>
  \/ ThrownBy("encode", {"other"})

\* Fault: the cipher context is left to the handlers.
ReleaseBuffersOnly ==
  /\ GoTo("release", "url")
  /\ Release(held)
  /\ UNCHANGED <<key_, iv_, todo, decoded, cipher, held, thrown, results, history>>

\* Everything goes; the pointers stay.
ReleaseAll ==
  /\ GoTo("release", "url")
  /\ Release(held \cup {"ctx"})
  /\ UNCHANGED <<key_, iv_, todo, decoded, cipher, held, thrown, results, history>>

\* A store past the end of out may damage the heap; its allocator may stop
\* the process when the buffer is released, or not.
AllocatorAborts ==
  /\ GoTo("release", "crashed")
  /\ encrypted_length > out_size
  /\ held' = {}
  /\ UNCHANGED <<key_, iv_, todo, decoded, cipher, live, thrown, results, history>>

Link == [key |-> decoded["key"], iv |-> decoded["iv"], length |-> encrypted_length]

SetUrl ==
  \/ /\ GoTo("url", "returned")
     /\ tmp_ss' = Append(tmp_ss, Link)
     /\ url_' = tmp_ss'
     /\ held' = {}
     /\ UNCHANGED <<key_, iv_, todo, decoded, cipher, live, thrown, history>>
  \/ ThrownBy("url", {"other"})

\* The two handlers release the buffers, and throw the library's exception.
Rethrow ==
  /\ GoTo("catch", "threw")
  /\ Release(held)
  /\ held' = {}
  /\ UNCHANGED <<key_, iv_, todo, decoded, cipher, thrown, results, history>>

Delete ==
  /\ pc \in {"returned", "threw"}
  /\ pc' = "deleted"
  /\ UNCHANGED <<key_, iv_, todo, decoded, cipher, held, live, thrown, results, history>>

Next ==
  \/ Calculate \/ PreparePayload \/ SetPadding
  \/ \E e \in Entries : Decode(e) \/ DecodeThrows(e)
  \/ EncryptInit \/ Write \/ AllocateOut \/ EncryptUpdate \/ EncryptFinal
  \/ Encode \/ ReleaseAll \/ AllocatorAborts \/ SetUrl \/ Rethrow \/ Delete

Spec == Init /\ [][Next]_vars
-----------------------------------------------------------------------------
Links == [key : Texts, iv : Texts, length : Nat]

\* Every variable has its type.
TypeOK ==
  /\ pc \in Steps \cup Outside
  /\ key_ \in Texts /\ iv_ \in Texts
  /\ todo \subseteq Entries
  /\ decoded \in [Entries -> Texts]
  /\ inl \in PayloadSizes \cup {0}
  /\ out_size \in Nat /\ encrypted_length \in Nat
  /\ held \subseteq Buffers
  /\ live \in [Resources -> Int]
  /\ thrown \in Exceptions \cup {"none"}
  /\ tmp_ss \in Seq(Links) /\ Len(tmp_ss) <= 1
  /\ url_ \in Seq(Links)
  /\ calls \in 0..MaxCalls
  /\ before \in [Resources -> Int]

(* Whatever the step that fails, nothing is released twice or before it is *)
(* made.  A call that returns, or throws an exception of its own, leaves   *)
(* nothing behind; one that JsonCpp stopped may leave the cipher context;  *)
(* only those no handler caught may leave more (a malformed key or iv, or  *)
(* memory exhausted).                                                      *)
ReleasedOnce ==
  /\ \A r \in Resources : live[r] >= before[r] /\ before[r] >= 0
  /\ pc = "returned" \/ (pc = "threw" /\ thrown = "pg") => live = before
  /\ pc = "threw" /\ thrown = "json" => \A r \in Buffers : live[r] = before[r]

(* A link returned is this call's only one, made under the key the object  *)
(* was given, and under its iv unless the two texts are the same: then     *)
(* they are one entry of the map and the iv is left to the cipher.  Texts  *)
(* that are no base 64 make no link.                                       *)
LinkUsesKeyAndIv ==
  pc = "returned" =>
    /\ url_ = <<Link>>
    /\ Link.key = key_
    /\ Link.iv = IF key_ = iv_ THEN NoText ELSE iv_
    /\ {key_, iv_} \cap Malformed = {}
    /\ Link.length > inl /\ Link.length % BlockSize = 0

(* The encrypted payload fits in out, unless the payload is a whole number *)
(* of blocks.                                                              *)
FitsUnlessAligned == inl % BlockSize # 0 => encrypted_length <= out_size

(* What the comments on the two calls say, that the encrypted version is   *)
(* written to out, takes an out it fits in.                                *)
EncryptedFits == encrypted_length <= out_size
-----------------------------------------------------------------------------
(* The inductive invariant: which pointers are set at each step, what is   *)
(* live beyond the calls before, how much is stored.                       *)
Decoded(e) == e \in MapEntries \ todo
AfterMap == {"decode", "init", "write", "allocate", "update", "final", "encode",
             "release", "url"}
WithContext == {"write", "allocate", "update", "final", "encode", "release"}
WithOut == {"update", "final", "encode", "release", "url"}

HeldOK ==
  /\ pc \in Outside \cup {"payload", "padding"} => held = {}
  /\ pc \in {"payload", "padding"} => decoded = [e \in Entries |-> NoText]
  /\ pc \in AfterMap =>
       /\ todo \subseteq MapEntries
       /\ pc # "decode" => todo = {}
       /\ "out" \in held <=> pc \in WithOut
       /\ \A e \in Entries :
            /\ e \in held <=> Decoded(e) /\ TextOf(e) # NoText
            /\ decoded[e] = IF Decoded(e) THEN TextOf(e) ELSE NoText
            /\ Decoded(e) => TextOf(e) \notin Malformed

LiveOK ==
  /\ \A r \in Resources : before[r] >= 0
  /\ pc \in Steps =>
       /\ \A b \in Buffers :
            live[b] = before[b] + (IF b \in held /\ pc # "url" THEN 1 ELSE 0)
       /\ live["ctx"] >= before["ctx"]
       /\ pc # "catch" \/ thrown = "pg" =>
            live["ctx"] = before["ctx"] + (IF pc \in WithContext THEN 1 ELSE 0)
  /\ pc \in Steps \ {"catch"} => thrown = "none"
  /\ pc = "catch" => thrown \in {"pg", "json"}

StoredOK ==
  LET whole == inl - (inl % BlockSize) IN
    /\ pc \in Steps \ {"final", "encode", "release", "url", "catch"} => encrypted_length = 0
    /\ pc \in WithOut \cup {"returned"} => out_size = OutSize(inl)
    /\ pc = "final" => encrypted_length = whole
    /\ pc \in {"encode", "release", "url", "returned"} => encrypted_length = whole + BlockSize
    /\ \/ encrypted_length = 0
       \/ encrypted_length \in {whole, whole + BlockSize} /\ out_size = OutSize(inl)

StreamOK ==
  pc \in Steps => tmp_ss = <<>>

IInv ==
  /\ TypeOK
  /\ HeldOK
  /\ LiveOK
  /\ StoredOK
  /\ StreamOK
  /\ ReleasedOnce
  /\ LinkUsesKeyAndIv
=============================================================================
