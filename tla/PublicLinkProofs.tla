--------------------------- MODULE PublicLinkProofs ---------------------------
(***************************************************************************)
(* PublicLink::Calculate: what it releases, what a link is made of and     *)
(* where the encrypted payload goes, for any texts, payload sizes and      *)
(* number of calls.                                                        *)
(***************************************************************************)
EXTENDS PublicLink, TLAPS

(* The resources, and those that are buffers.                              *)
LEMMA ResourceNames ==
  /\ Entries = {"key", "iv"}
  /\ Buffers = {"key", "iv", "out"}
  /\ Resources = {"key", "iv", "out", "ctx"}
BY DEF Resources, Buffers, Entries

(* Entries of the map are names, and equal texts have one.                 *)
LEMMA MapType ==
  ASSUME TypeOK
  PROVE  /\ MapEntries \subseteq Entries
         /\ "key" \in MapEntries
         /\ "iv" \in MapEntries <=> key_ # iv_
         /\ TextOf("key") = key_ /\ TextOf("iv") = iv_
         /\ \A e \in Entries : TextOf(e) \in Texts
BY PublicLinkAssumption DEF MapEntries, Entries, TextOf, TypeOK

(* Sizes are numbers, and the last block is a whole one.                   *)
LEMMA Sizes ==
  ASSUME TypeOK
  PROVE  /\ inl \in Nat
         /\ inl - (inl % BlockSize) \in Nat
         /\ OutSize(inl) \in Nat
         /\ inl - (inl % BlockSize) + BlockSize > inl
         /\ (inl - (inl % BlockSize) + BlockSize) % BlockSize = 0
         /\ inl - (inl % BlockSize) <= OutSize(inl)
         /\ inl % BlockSize # 0 => inl - (inl % BlockSize) + BlockSize <= OutSize(inl)
<1>1. inl \in Nat
  BY PublicLinkAssumption DEF TypeOK
<1> QED
  BY <1>1, SMT DEF BlockSize, OutSize

(* What making or releasing resources does to the counts.                  *)
LEMMA Counts ==
  ASSUME TypeOK
  PROVE  /\ \A r \in Resources : [live EXCEPT ![r] = @ + 1] \in [Resources -> Int]
         /\ \A set : [r \in Resources |-> IF r \in set THEN live[r] - 1 ELSE live[r]]
                        \in [Resources -> Int]
BY DEF TypeOK

(* A new object satisfies the invariant.                                   *)
LEMMA InitInvariant == Init => IInv
<1> SUFFICES ASSUME Init PROVE IInv
  OBVIOUS
<1>1. TypeOK
  BY PublicLinkAssumption, ResourceNames DEF Init, TypeOK, Outside
<1>2. HeldOK
  BY DEF Init, HeldOK, AfterMap, Outside
<1>3. LiveOK /\ ReleasedOnce
  BY DEF Init, LiveOK, ReleasedOnce, Steps
<1>4. StoredOK /\ StreamOK /\ LinkUsesKeyAndIv
  BY DEF Init, StoredOK, StreamOK, LinkUsesKeyAndIv, Steps, WithOut
<1> QED
  BY <1>1, <1>2, <1>3, <1>4 DEF IInv

(* A call starts with nothing held and no result.                          *)
LEMMA CalculateStep == IInv /\ Calculate => IInv'
<1> SUFFICES ASSUME IInv, Calculate PROVE IInv'
  OBVIOUS
<1> USE DEF Calculate, Outside, Steps, results, history, cipher
<1>0. TypeOK /\ HeldOK /\ LiveOK /\ StoredOK /\ StreamOK /\ ReleasedOnce /\ LinkUsesKeyAndIv
  BY DEF IInv
<1>1. TypeOK'
  <2>1. pc' \in Steps \cup Outside /\ calls' \in 0..MaxCalls /\ key_' \in Texts /\ iv_' \in Texts
    BY <1>0, PublicLinkAssumption DEF TypeOK
  <2>2. todo' \subseteq Entries /\ decoded' \in [Entries -> Texts]
    BY <1>0, PublicLinkAssumption, MapType DEF TypeOK
  <2>3. inl' \in PayloadSizes \cup {0} /\ out_size' \in Nat /\ encrypted_length' \in Nat
    BY <1>0, Sizes, PublicLinkAssumption DEF TypeOK, BlockSize
  <2>4. held' \subseteq Buffers /\ thrown' \in Exceptions \cup {"none"}
    BY <1>0, ResourceNames DEF TypeOK, Exceptions
  <2>5. live' \in [Resources -> Int] /\ before' \in [Resources -> Int]
    BY <1>0, ResourceNames, Counts DEF TypeOK
  <2>6. tmp_ss' \in Seq(Links) /\ Len(tmp_ss') <= 1 /\ url_' \in Seq(Links)
    BY <1>0 DEF TypeOK
  <2> QED
    BY <2>1, <2>2, <2>3, <2>4, <2>5, <2>6, Zenon DEF TypeOK
<1>2. HeldOK'
  BY <1>0, ResourceNames, MapType DEF HeldOK, AfterMap, WithOut, TypeOK, MapEntries, TextOf, Decoded
<1>3. LiveOK'
  BY <1>0, ResourceNames DEF LiveOK, HeldOK, TypeOK, WithContext, AfterMap, ReleasedOnce
<1>4. StoredOK'
  BY <1>0, Sizes DEF StoredOK, TypeOK, WithOut
<1>5. StreamOK'
  BY <1>0 DEF StreamOK
<1>6. ReleasedOnce'
  BY <1>0, ResourceNames DEF ReleasedOnce, LiveOK, HeldOK, TypeOK, WithContext, AfterMap
<1>7. LinkUsesKeyAndIv'
  BY <1>0 DEF LinkUsesKeyAndIv
<1> QED
  BY <1>1, <1>2, <1>3, <1>4, <1>5, <1>6, <1>7 DEF IInv

(* The payload: nothing made.                                              *)
LEMMA PreparePayloadStep == IInv /\ PreparePayload => IInv'
<1> SUFFICES ASSUME IInv, PreparePayload PROVE IInv'
  OBVIOUS
<1> USE DEF PreparePayload, GoTo, Throw, ThrownBy, Outside, Steps, results, history, cipher
<1>0. TypeOK /\ HeldOK /\ LiveOK /\ StoredOK /\ StreamOK /\ ReleasedOnce /\ LinkUsesKeyAndIv
  BY DEF IInv
<1>1. TypeOK'
  <2>1. pc' \in Steps \cup Outside /\ calls' \in 0..MaxCalls /\ key_' \in Texts /\ iv_' \in Texts
    BY <1>0, PublicLinkAssumption DEF TypeOK
  <2>2. todo' \subseteq Entries /\ decoded' \in [Entries -> Texts]
    BY <1>0, PublicLinkAssumption, MapType DEF TypeOK
  <2>3. inl' \in PayloadSizes \cup {0} /\ out_size' \in Nat /\ encrypted_length' \in Nat
    BY <1>0, Sizes, PublicLinkAssumption DEF TypeOK, BlockSize
  <2>4. held' \subseteq Buffers /\ thrown' \in Exceptions \cup {"none"}
    BY <1>0, ResourceNames DEF TypeOK, Exceptions
  <2>5. live' \in [Resources -> Int] /\ before' \in [Resources -> Int]
    BY <1>0, ResourceNames, Counts DEF TypeOK
  <2>6. tmp_ss' \in Seq(Links) /\ Len(tmp_ss') <= 1 /\ url_' \in Seq(Links)
    BY <1>0 DEF TypeOK
  <2> QED
    BY <2>1, <2>2, <2>3, <2>4, <2>5, <2>6, Zenon DEF TypeOK
<1>2. HeldOK'
  BY <1>0, ResourceNames, MapType DEF HeldOK, AfterMap, WithOut, TypeOK, MapEntries, TextOf, Decoded
<1>3. LiveOK'
  BY <1>0, ResourceNames DEF LiveOK, HeldOK, TypeOK, WithContext, AfterMap, ReleasedOnce
<1>4. StoredOK'
  BY <1>0, Sizes DEF StoredOK, TypeOK, WithOut
<1>5. StreamOK'
  BY <1>0 DEF StreamOK
<1>6. ReleasedOnce'
  BY <1>0, ResourceNames DEF ReleasedOnce, LiveOK, HeldOK, TypeOK, WithContext, AfterMap
<1>7. LinkUsesKeyAndIv'
  BY <1>0 DEF LinkUsesKeyAndIv
<1> QED
  BY <1>1, <1>2, <1>3, <1>4, <1>5, <1>6, <1>7 DEF IInv

(* All entries of the map are to be decoded.                               *)
LEMMA SetPaddingStep == IInv /\ SetPadding => IInv'
<1> SUFFICES ASSUME IInv, SetPadding PROVE IInv'
  OBVIOUS
<1> USE DEF SetPadding, GoTo, ThrownBy, Throw, ThrowAfterCleanup, Release, Outside, Steps, results, history, cipher
<1>0. TypeOK /\ HeldOK /\ LiveOK /\ StoredOK /\ StreamOK /\ ReleasedOnce /\ LinkUsesKeyAndIv
  BY DEF IInv
<1>1. TypeOK'
  <2>1. pc' \in Steps \cup Outside /\ calls' \in 0..MaxCalls /\ key_' \in Texts /\ iv_' \in Texts
    BY <1>0, PublicLinkAssumption DEF TypeOK
  <2>2. todo' \subseteq Entries /\ decoded' \in [Entries -> Texts]
    BY <1>0, PublicLinkAssumption, MapType DEF TypeOK
  <2>3. inl' \in PayloadSizes \cup {0} /\ out_size' \in Nat /\ encrypted_length' \in Nat
    BY <1>0, Sizes, PublicLinkAssumption DEF TypeOK, BlockSize
  <2>4. held' \subseteq Buffers /\ thrown' \in Exceptions \cup {"none"}
    BY <1>0, ResourceNames DEF TypeOK, Exceptions
  <2>5. live' \in [Resources -> Int] /\ before' \in [Resources -> Int]
    BY <1>0, ResourceNames, Counts DEF TypeOK
  <2>6. tmp_ss' \in Seq(Links) /\ Len(tmp_ss') <= 1 /\ url_' \in Seq(Links)
    BY <1>0 DEF TypeOK
  <2> QED
    BY <2>1, <2>2, <2>3, <2>4, <2>5, <2>6, Zenon DEF TypeOK
<1>2. HeldOK'
  BY <1>0, ResourceNames, MapType DEF HeldOK, AfterMap, WithOut, TypeOK, MapEntries, TextOf, Decoded
<1>3. LiveOK'
  BY <1>0, ResourceNames DEF LiveOK, HeldOK, TypeOK, WithContext, AfterMap, ReleasedOnce
<1>4. StoredOK'
  BY <1>0, Sizes DEF StoredOK, TypeOK, WithOut
<1>5. StreamOK'
  BY <1>0 DEF StreamOK
<1>6. ReleasedOnce'
  BY <1>0, ResourceNames DEF ReleasedOnce, LiveOK, HeldOK, TypeOK, WithContext, AfterMap
<1>7. LinkUsesKeyAndIv'
  BY <1>0 DEF LinkUsesKeyAndIv
<1> QED
  BY <1>1, <1>2, <1>3, <1>4, <1>5, <1>6, <1>7 DEF IInv

(* An entry decoded is held, unless its text is empty.                     *)
LEMMA DecodeStep == ASSUME IInv, NEW e \in Entries, Decode(e) PROVE IInv'
<1> USE DEF Decode, Outside, Steps, results, history, cipher
<1>0. TypeOK /\ HeldOK /\ LiveOK /\ StoredOK /\ StreamOK /\ ReleasedOnce /\ LinkUsesKeyAndIv
  BY DEF IInv
<1>1. TypeOK'
  <2>1. pc' \in Steps \cup Outside /\ calls' \in 0..MaxCalls /\ key_' \in Texts /\ iv_' \in Texts
    BY <1>0, PublicLinkAssumption DEF TypeOK
  <2>2. todo' \subseteq Entries /\ decoded' \in [Entries -> Texts]
    BY <1>0, PublicLinkAssumption, MapType DEF TypeOK
  <2>3. inl' \in PayloadSizes \cup {0} /\ out_size' \in Nat /\ encrypted_length' \in Nat
    BY <1>0, Sizes, PublicLinkAssumption DEF TypeOK, BlockSize
  <2>4. held' \subseteq Buffers /\ thrown' \in Exceptions \cup {"none"}
    BY <1>0, ResourceNames DEF TypeOK, Exceptions
  <2>5. live' \in [Resources -> Int] /\ before' \in [Resources -> Int]
    BY <1>0, ResourceNames, Counts DEF TypeOK
  <2>6. tmp_ss' \in Seq(Links) /\ Len(tmp_ss') <= 1 /\ url_' \in Seq(Links)
    BY <1>0 DEF TypeOK
  <2> QED
    BY <2>1, <2>2, <2>3, <2>4, <2>5, <2>6, Zenon DEF TypeOK
<1>2. HeldOK'
  BY <1>0, ResourceNames, MapType DEF HeldOK, AfterMap, WithOut, TypeOK, MapEntries, TextOf, Decoded
<1>3. LiveOK'
  <2>1. \A r \in Resources : live'[r] = IF r = e /\ TextOf(e) # NoText THEN live[r] + 1 ELSE live[r]
    BY <1>0, ResourceNames DEF TypeOK
  <2>2. \A r \in Resources : r \in held' <=> r \in held \/ (r = e /\ TextOf(e) # NoText)
    BY <1>0, ResourceNames DEF TypeOK
  <2>3. e \notin held /\ before' = before
    BY <1>0, ResourceNames, MapType DEF HeldOK, AfterMap, WithOut, Decoded
  <2>4. \A b \in Buffers : live'[b] = before'[b] + (IF b \in held' /\ pc' # "url" THEN 1 ELSE 0)
    <3>1. \A b \in Buffers : live[b] = before[b] + (IF b \in held THEN 1 ELSE 0)
      BY <1>0 DEF LiveOK
    <3>2. \A b \in Buffers : b \in Resources /\ live[b] \in Int /\ before[b] \in Int
      BY <1>0, ResourceNames DEF TypeOK
    <3> QED
      BY <2>1, <2>2, <2>3, <3>1, <3>2
  <2>5. live'["ctx"] = live["ctx"]
    BY <2>1, ResourceNames
  <2> QED
    BY <1>0, <2>3, <2>4, <2>5 DEF LiveOK, WithContext
<1>4. StoredOK'
  BY <1>0, Sizes DEF StoredOK, TypeOK, WithOut
<1>5. StreamOK'
  BY <1>0 DEF StreamOK
<1>6. ReleasedOnce'
  BY <1>0, ResourceNames DEF ReleasedOnce, LiveOK, HeldOK, TypeOK, WithContext, AfterMap
<1>7. LinkUsesKeyAndIv'
  BY <1>0 DEF LinkUsesKeyAndIv
<1> QED
  BY <1>1, <1>2, <1>3, <1>4, <1>5, <1>6, <1>7 DEF IInv

(* A failed decoding leaves at once.                                       *)
LEMMA DecodeThrowsStep == ASSUME IInv, NEW e \in Entries, DecodeThrows(e) PROVE IInv'
<1> USE DEF DecodeThrows, Throw, Outside, Steps, results, history, cipher
<1>0. TypeOK /\ HeldOK /\ LiveOK /\ StoredOK /\ StreamOK /\ ReleasedOnce /\ LinkUsesKeyAndIv
  BY DEF IInv
<1>1. TypeOK'
  <2>1. pc' \in Steps \cup Outside /\ calls' \in 0..MaxCalls /\ key_' \in Texts /\ iv_' \in Texts
    BY <1>0, PublicLinkAssumption DEF TypeOK
  <2>2. todo' \subseteq Entries /\ decoded' \in [Entries -> Texts]
    BY <1>0, PublicLinkAssumption, MapType DEF TypeOK
  <2>3. inl' \in PayloadSizes \cup {0} /\ out_size' \in Nat /\ encrypted_length' \in Nat
    BY <1>0, Sizes, PublicLinkAssumption DEF TypeOK, BlockSize
  <2>4. held' \subseteq Buffers /\ thrown' \in Exceptions \cup {"none"}
    BY <1>0, ResourceNames DEF TypeOK, Exceptions
  <2>5. live' \in [Resources -> Int] /\ before' \in [Resources -> Int]
    BY <1>0, ResourceNames, Counts DEF TypeOK
  <2>6. tmp_ss' \in Seq(Links) /\ Len(tmp_ss') <= 1 /\ url_' \in Seq(Links)
    BY <1>0 DEF TypeOK
  <2> QED
    BY <2>1, <2>2, <2>3, <2>4, <2>5, <2>6, Zenon DEF TypeOK
<1>2. HeldOK'
  BY <1>0, ResourceNames, MapType DEF HeldOK, AfterMap, WithOut, TypeOK, MapEntries, TextOf, Decoded
<1>3. LiveOK'
  BY <1>0, ResourceNames DEF LiveOK, HeldOK, TypeOK, WithContext, AfterMap, ReleasedOnce
<1>4. StoredOK'
  BY <1>0, Sizes DEF StoredOK, TypeOK, WithOut
<1>5. StreamOK'
  BY <1>0 DEF StreamOK
<1>6. ReleasedOnce'
  BY <1>0, ResourceNames DEF ReleasedOnce, LiveOK, HeldOK, TypeOK, WithContext, AfterMap
<1>7. LinkUsesKeyAndIv'
  BY <1>0 DEF LinkUsesKeyAndIv
<1> QED
  BY <1>1, <1>2, <1>3, <1>4, <1>5, <1>6, <1>7 DEF IInv

(* The context is live once set up.                                        *)
LEMMA EncryptInitStep == IInv /\ EncryptInit => IInv'
<1> SUFFICES ASSUME IInv, EncryptInit PROVE IInv'
  OBVIOUS
<1> USE DEF EncryptInit, GoTo, Throw, ThrowAfterCleanup, Release, Outside, Steps, results, history, cipher
<1>0. TypeOK /\ HeldOK /\ LiveOK /\ StoredOK /\ StreamOK /\ ReleasedOnce /\ LinkUsesKeyAndIv
  BY DEF IInv
<1>1. TypeOK'
  <2>1. pc' \in Steps \cup Outside /\ calls' \in 0..MaxCalls /\ key_' \in Texts /\ iv_' \in Texts
    BY <1>0, PublicLinkAssumption DEF TypeOK
  <2>2. todo' \subseteq Entries /\ decoded' \in [Entries -> Texts]
    BY <1>0, PublicLinkAssumption, MapType DEF TypeOK
  <2>3. inl' \in PayloadSizes \cup {0} /\ out_size' \in Nat /\ encrypted_length' \in Nat
    BY <1>0, Sizes, PublicLinkAssumption DEF TypeOK, BlockSize
  <2>4. held' \subseteq Buffers /\ thrown' \in Exceptions \cup {"none"}
    BY <1>0, ResourceNames DEF TypeOK, Exceptions
  <2>5. live' \in [Resources -> Int] /\ before' \in [Resources -> Int]
    BY <1>0, ResourceNames, Counts DEF TypeOK
  <2>6. tmp_ss' \in Seq(Links) /\ Len(tmp_ss') <= 1 /\ url_' \in Seq(Links)
    BY <1>0 DEF TypeOK
  <2> QED
    BY <2>1, <2>2, <2>3, <2>4, <2>5, <2>6, Zenon DEF TypeOK
<1>2. HeldOK'
  BY <1>0, ResourceNames, MapType DEF HeldOK, AfterMap, WithOut, TypeOK, MapEntries, TextOf, Decoded
<1>3. LiveOK'
  BY <1>0, ResourceNames DEF LiveOK, HeldOK, TypeOK, WithContext, AfterMap, ReleasedOnce
<1>4. StoredOK'
  BY <1>0, Sizes DEF StoredOK, TypeOK, WithOut
<1>5. StreamOK'
  BY <1>0 DEF StreamOK
<1>6. ReleasedOnce'
  BY <1>0, ResourceNames DEF ReleasedOnce, LiveOK, HeldOK, TypeOK, WithContext, AfterMap
<1>7. LinkUsesKeyAndIv'
  BY <1>0 DEF LinkUsesKeyAndIv
<1> QED
  BY <1>1, <1>2, <1>3, <1>4, <1>5, <1>6, <1>7 DEF IInv

(* The size of the payload is known.                                       *)
LEMMA WriteStep == IInv /\ Write => IInv'
<1> SUFFICES ASSUME IInv, Write PROVE IInv'
  OBVIOUS
<1> USE DEF Write, GoTo, Throw, ThrownBy, Outside, Steps, results, history, cipher
<1>0. TypeOK /\ HeldOK /\ LiveOK /\ StoredOK /\ StreamOK /\ ReleasedOnce /\ LinkUsesKeyAndIv
  BY DEF IInv
<1>1. TypeOK'
  <2>1. pc' \in Steps \cup Outside /\ calls' \in 0..MaxCalls /\ key_' \in Texts /\ iv_' \in Texts
    BY <1>0, PublicLinkAssumption DEF TypeOK
  <2>2. todo' \subseteq Entries /\ decoded' \in [Entries -> Texts]
    BY <1>0, PublicLinkAssumption, MapType DEF TypeOK
  <2>3. inl' \in PayloadSizes \cup {0} /\ out_size' \in Nat /\ encrypted_length' \in Nat
    BY <1>0, Sizes, PublicLinkAssumption DEF TypeOK, BlockSize
  <2>4. held' \subseteq Buffers /\ thrown' \in Exceptions \cup {"none"}
    BY <1>0, ResourceNames DEF TypeOK, Exceptions
  <2>5. live' \in [Resources -> Int] /\ before' \in [Resources -> Int]
    BY <1>0, ResourceNames, Counts DEF TypeOK
  <2>6. tmp_ss' \in Seq(Links) /\ Len(tmp_ss') <= 1 /\ url_' \in Seq(Links)
    BY <1>0 DEF TypeOK
  <2> QED
    BY <2>1, <2>2, <2>3, <2>4, <2>5, <2>6, Zenon DEF TypeOK
<1>2. HeldOK'
  BY <1>0, ResourceNames, MapType DEF HeldOK, AfterMap, WithOut, TypeOK, MapEntries, TextOf, Decoded
<1>3. LiveOK'
  BY <1>0, ResourceNames DEF LiveOK, HeldOK, TypeOK, WithContext, AfterMap, ReleasedOnce
<1>4. StoredOK'
  BY <1>0, Sizes DEF StoredOK, TypeOK, WithOut
<1>5. StreamOK'
  BY <1>0 DEF StreamOK
<1>6. ReleasedOnce'
  BY <1>0, ResourceNames DEF ReleasedOnce, LiveOK, HeldOK, TypeOK, WithContext, AfterMap
<1>7. LinkUsesKeyAndIv'
  BY <1>0 DEF LinkUsesKeyAndIv
<1> QED
  BY <1>1, <1>2, <1>3, <1>4, <1>5, <1>6, <1>7 DEF IInv

(* out is held, with its size.                                             *)
LEMMA AllocateOutStep == IInv /\ AllocateOut => IInv'
<1> SUFFICES ASSUME IInv, AllocateOut PROVE IInv'
  OBVIOUS
<1> USE DEF AllocateOut, GoTo, Throw, ThrownBy, Outside, Steps, results, history, cipher
<1>0. TypeOK /\ HeldOK /\ LiveOK /\ StoredOK /\ StreamOK /\ ReleasedOnce /\ LinkUsesKeyAndIv
  BY DEF IInv
<1>1. TypeOK'
  <2>1. pc' \in Steps \cup Outside /\ calls' \in 0..MaxCalls /\ key_' \in Texts /\ iv_' \in Texts
    BY <1>0, PublicLinkAssumption DEF TypeOK
  <2>2. todo' \subseteq Entries /\ decoded' \in [Entries -> Texts]
    BY <1>0, PublicLinkAssumption, MapType DEF TypeOK
  <2>3. inl' \in PayloadSizes \cup {0} /\ out_size' \in Nat /\ encrypted_length' \in Nat
    BY <1>0, Sizes, PublicLinkAssumption DEF TypeOK, BlockSize
  <2>4. held' \subseteq Buffers /\ thrown' \in Exceptions \cup {"none"}
    BY <1>0, ResourceNames DEF TypeOK, Exceptions
  <2>5. live' \in [Resources -> Int] /\ before' \in [Resources -> Int]
    BY <1>0, ResourceNames, Counts DEF TypeOK
  <2>6. tmp_ss' \in Seq(Links) /\ Len(tmp_ss') <= 1 /\ url_' \in Seq(Links)
    BY <1>0 DEF TypeOK
  <2> QED
    BY <2>1, <2>2, <2>3, <2>4, <2>5, <2>6, Zenon DEF TypeOK
<1>2. HeldOK'
  BY <1>0, ResourceNames, MapType DEF HeldOK, AfterMap, WithOut, TypeOK, MapEntries, TextOf, Decoded
<1>3. LiveOK'
  <2>1. CASE pc' = "threw"
    BY <1>0, <2>1 DEF LiveOK
  <2>2. CASE pc' = "update"
    <3>1. \A r \in Resources : live'[r] = IF r = "out" THEN live[r] + 1 ELSE live[r]
      BY <1>0, <2>2, ResourceNames DEF TypeOK
    <3>2. \A r \in Resources : r \in held' <=> r \in held \/ (r = "out")
      BY <1>0, <2>2, ResourceNames DEF TypeOK
    <3>3. "out" \notin held /\ before' = before
      BY <1>0, <2>2, ResourceNames, MapType DEF HeldOK, AfterMap, WithOut, Decoded
    <3>4. \A b \in Buffers : live'[b] = before'[b] + (IF b \in held' /\ pc' # "url" THEN 1 ELSE 0)
      <4>1. \A b \in Buffers : live[b] = before[b] + (IF b \in held THEN 1 ELSE 0)
        BY <1>0, <2>2 DEF LiveOK
      <4>2. \A b \in Buffers : b \in Resources /\ live[b] \in Int /\ before[b] \in Int
        BY <1>0, <2>2, ResourceNames DEF TypeOK
      <4> QED
        BY <3>1, <3>2, <3>3, <4>1, <4>2
    <3>5. live'["ctx"] = live["ctx"]
      BY <3>1, ResourceNames
    <3> QED
      BY <1>0, <2>2, <3>3, <3>4, <3>5 DEF LiveOK, WithContext
  <2> QED
    BY <2>1, <2>2
<1>4. StoredOK'
  BY <1>0, Sizes DEF StoredOK, TypeOK, WithOut
<1>5. StreamOK'
  BY <1>0 DEF StreamOK
<1>6. ReleasedOnce'
  BY <1>0, ResourceNames DEF ReleasedOnce, LiveOK, HeldOK, TypeOK, WithContext, AfterMap
<1>7. LinkUsesKeyAndIv'
  BY <1>0 DEF LinkUsesKeyAndIv
<1> QED
  BY <1>1, <1>2, <1>3, <1>4, <1>5, <1>6, <1>7 DEF IInv

(* The complete blocks are stored.                                         *)
LEMMA EncryptUpdateStep == IInv /\ EncryptUpdate => IInv'
<1> SUFFICES ASSUME IInv, EncryptUpdate PROVE IInv'
  OBVIOUS
<1> USE DEF EncryptUpdate, GoTo, Throw, ThrowAfterCleanup, Release, Outside, Steps, results, history, cipher
<1>0. TypeOK /\ HeldOK /\ LiveOK /\ StoredOK /\ StreamOK /\ ReleasedOnce /\ LinkUsesKeyAndIv
  BY DEF IInv
<1>1. TypeOK'
  <2>1. pc' \in Steps \cup Outside /\ calls' \in 0..MaxCalls /\ key_' \in Texts /\ iv_' \in Texts
    BY <1>0, PublicLinkAssumption DEF TypeOK
  <2>2. todo' \subseteq Entries /\ decoded' \in [Entries -> Texts]
    BY <1>0, PublicLinkAssumption, MapType DEF TypeOK
  <2>3. inl' \in PayloadSizes \cup {0} /\ out_size' \in Nat /\ encrypted_length' \in Nat
    BY <1>0, Sizes, PublicLinkAssumption DEF TypeOK, BlockSize
  <2>4. held' \subseteq Buffers /\ thrown' \in Exceptions \cup {"none"}
    BY <1>0, ResourceNames DEF TypeOK, Exceptions
  <2>5. live' \in [Resources -> Int] /\ before' \in [Resources -> Int]
    BY <1>0, ResourceNames, Counts DEF TypeOK
  <2>6. tmp_ss' \in Seq(Links) /\ Len(tmp_ss') <= 1 /\ url_' \in Seq(Links)
    BY <1>0 DEF TypeOK
  <2> QED
    BY <2>1, <2>2, <2>3, <2>4, <2>5, <2>6, Zenon DEF TypeOK
<1>2. HeldOK'
  BY <1>0, ResourceNames, MapType DEF HeldOK, AfterMap, WithOut, TypeOK, MapEntries, TextOf, Decoded
<1>3. LiveOK'
  BY <1>0, ResourceNames DEF LiveOK, HeldOK, TypeOK, WithContext, AfterMap, ReleasedOnce
<1>4. StoredOK'
  BY <1>0, Sizes DEF StoredOK, TypeOK, WithOut
<1>5. StreamOK'
  BY <1>0 DEF StreamOK
<1>6. ReleasedOnce'
  BY <1>0, ResourceNames DEF ReleasedOnce, LiveOK, HeldOK, TypeOK, WithContext, AfterMap
<1>7. LinkUsesKeyAndIv'
  BY <1>0 DEF LinkUsesKeyAndIv
<1> QED
  BY <1>1, <1>2, <1>3, <1>4, <1>5, <1>6, <1>7 DEF IInv

(* The padded block is stored.                                             *)
LEMMA EncryptFinalStep == IInv /\ EncryptFinal => IInv'
<1> SUFFICES ASSUME IInv, EncryptFinal PROVE IInv'
  OBVIOUS
<1> USE DEF EncryptFinal, GoTo, Throw, ThrowAfterCleanup, Release, Outside, Steps, results, history, cipher
<1>0. TypeOK /\ HeldOK /\ LiveOK /\ StoredOK /\ StreamOK /\ ReleasedOnce /\ LinkUsesKeyAndIv
  BY DEF IInv
<1>1. TypeOK'
  <2>1. pc' \in Steps \cup Outside /\ calls' \in 0..MaxCalls /\ key_' \in Texts /\ iv_' \in Texts
    BY <1>0, PublicLinkAssumption DEF TypeOK
  <2>2. todo' \subseteq Entries /\ decoded' \in [Entries -> Texts]
    BY <1>0, PublicLinkAssumption, MapType DEF TypeOK
  <2>3. inl' \in PayloadSizes \cup {0} /\ out_size' \in Nat /\ encrypted_length' \in Nat
    BY <1>0, Sizes, PublicLinkAssumption DEF TypeOK, BlockSize
  <2>4. held' \subseteq Buffers /\ thrown' \in Exceptions \cup {"none"}
    BY <1>0, ResourceNames DEF TypeOK, Exceptions
  <2>5. live' \in [Resources -> Int] /\ before' \in [Resources -> Int]
    BY <1>0, ResourceNames, Counts DEF TypeOK
  <2>6. tmp_ss' \in Seq(Links) /\ Len(tmp_ss') <= 1 /\ url_' \in Seq(Links)
    BY <1>0 DEF TypeOK
  <2> QED
    BY <2>1, <2>2, <2>3, <2>4, <2>5, <2>6, Zenon DEF TypeOK
<1>2. HeldOK'
  BY <1>0, ResourceNames, MapType DEF HeldOK, AfterMap, WithOut, TypeOK, MapEntries, TextOf, Decoded
<1>3. LiveOK'
  BY <1>0, ResourceNames DEF LiveOK, HeldOK, TypeOK, WithContext, AfterMap, ReleasedOnce
<1>4. StoredOK'
  BY <1>0, Sizes DEF StoredOK, TypeOK, WithOut
<1>5. StreamOK'
  BY <1>0 DEF StreamOK
<1>6. ReleasedOnce'
  BY <1>0, ResourceNames DEF ReleasedOnce, LiveOK, HeldOK, TypeOK, WithContext, AfterMap
<1>7. LinkUsesKeyAndIv'
  BY <1>0 DEF LinkUsesKeyAndIv
<1> QED
  BY <1>1, <1>2, <1>3, <1>4, <1>5, <1>6, <1>7 DEF IInv

(* The text of the link: nothing made.                                     *)
LEMMA EncodeStep == IInv /\ Encode => IInv'
<1> SUFFICES ASSUME IInv, Encode PROVE IInv'
  OBVIOUS
<1> USE DEF Encode, GoTo, Throw, ThrownBy, Outside, Steps, results, history, cipher
<1>0. TypeOK /\ HeldOK /\ LiveOK /\ StoredOK /\ StreamOK /\ ReleasedOnce /\ LinkUsesKeyAndIv
  BY DEF IInv
<1>1. TypeOK'
  <2>1. pc' \in Steps \cup Outside /\ calls' \in 0..MaxCalls /\ key_' \in Texts /\ iv_' \in Texts
    BY <1>0, PublicLinkAssumption DEF TypeOK
  <2>2. todo' \subseteq Entries /\ decoded' \in [Entries -> Texts]
    BY <1>0, PublicLinkAssumption, MapType DEF TypeOK
  <2>3. inl' \in PayloadSizes \cup {0} /\ out_size' \in Nat /\ encrypted_length' \in Nat
    BY <1>0, Sizes, PublicLinkAssumption DEF TypeOK, BlockSize
  <2>4. held' \subseteq Buffers /\ thrown' \in Exceptions \cup {"none"}
    BY <1>0, ResourceNames DEF TypeOK, Exceptions
  <2>5. live' \in [Resources -> Int] /\ before' \in [Resources -> Int]
    BY <1>0, ResourceNames, Counts DEF TypeOK
  <2>6. tmp_ss' \in Seq(Links) /\ Len(tmp_ss') <= 1 /\ url_' \in Seq(Links)
    BY <1>0 DEF TypeOK
  <2> QED
    BY <2>1, <2>2, <2>3, <2>4, <2>5, <2>6, Zenon DEF TypeOK
<1>2. HeldOK'
  BY <1>0, ResourceNames, MapType DEF HeldOK, AfterMap, WithOut, TypeOK, MapEntries, TextOf, Decoded
<1>3. LiveOK'
  BY <1>0, ResourceNames DEF LiveOK, HeldOK, TypeOK, WithContext, AfterMap, ReleasedOnce
<1>4. StoredOK'
  BY <1>0, Sizes DEF StoredOK, TypeOK, WithOut
<1>5. StreamOK'
  BY <1>0 DEF StreamOK
<1>6. ReleasedOnce'
  BY <1>0, ResourceNames DEF ReleasedOnce, LiveOK, HeldOK, TypeOK, WithContext, AfterMap
<1>7. LinkUsesKeyAndIv'
  BY <1>0 DEF LinkUsesKeyAndIv
<1> QED
  BY <1>1, <1>2, <1>3, <1>4, <1>5, <1>6, <1>7 DEF IInv

(* All is released while the pointers stay.                                *)
LEMMA ReleaseAllStep == IInv /\ ReleaseAll => IInv'
<1> SUFFICES ASSUME IInv, ReleaseAll PROVE IInv'
  OBVIOUS
<1> USE DEF ReleaseAll, GoTo, Release, Outside, Steps, results, history, cipher
<1>0. TypeOK /\ HeldOK /\ LiveOK /\ StoredOK /\ StreamOK /\ ReleasedOnce /\ LinkUsesKeyAndIv
  BY DEF IInv
<1>1. TypeOK'
  <2>1. pc' \in Steps \cup Outside /\ calls' \in 0..MaxCalls /\ key_' \in Texts /\ iv_' \in Texts
    BY <1>0, PublicLinkAssumption DEF TypeOK
  <2>2. todo' \subseteq Entries /\ decoded' \in [Entries -> Texts]
    BY <1>0, PublicLinkAssumption, MapType DEF TypeOK
  <2>3. inl' \in PayloadSizes \cup {0} /\ out_size' \in Nat /\ encrypted_length' \in Nat
    BY <1>0, Sizes, PublicLinkAssumption DEF TypeOK, BlockSize
  <2>4. held' \subseteq Buffers /\ thrown' \in Exceptions \cup {"none"}
    BY <1>0, ResourceNames DEF TypeOK, Exceptions
  <2>5. live' \in [Resources -> Int] /\ before' \in [Resources -> Int]
    BY <1>0, ResourceNames, Counts DEF TypeOK
  <2>6. tmp_ss' \in Seq(Links) /\ Len(tmp_ss') <= 1 /\ url_' \in Seq(Links)
    BY <1>0 DEF TypeOK
  <2> QED
    BY <2>1, <2>2, <2>3, <2>4, <2>5, <2>6, Zenon DEF TypeOK
<1>2. HeldOK'
  BY <1>0, ResourceNames, MapType DEF HeldOK, AfterMap, WithOut, TypeOK, MapEntries, TextOf, Decoded
<1>3. LiveOK'
  BY <1>0, ResourceNames DEF LiveOK, HeldOK, TypeOK, WithContext, AfterMap, ReleasedOnce
<1>4. StoredOK'
  BY <1>0, Sizes DEF StoredOK, TypeOK, WithOut
<1>5. StreamOK'
  BY <1>0 DEF StreamOK
<1>6. ReleasedOnce'
  BY <1>0, ResourceNames DEF ReleasedOnce, LiveOK, HeldOK, TypeOK, WithContext, AfterMap
<1>7. LinkUsesKeyAndIv'
  BY <1>0 DEF LinkUsesKeyAndIv
<1> QED
  BY <1>1, <1>2, <1>3, <1>4, <1>5, <1>6, <1>7 DEF IInv

(* The process stops.                                                      *)
LEMMA AllocatorAbortsStep == IInv /\ AllocatorAborts => IInv'
<1> SUFFICES ASSUME IInv, AllocatorAborts PROVE IInv'
  OBVIOUS
<1> USE DEF AllocatorAborts, GoTo, Outside, Steps, results, history, cipher
<1>0. TypeOK /\ HeldOK /\ LiveOK /\ StoredOK /\ StreamOK /\ ReleasedOnce /\ LinkUsesKeyAndIv
  BY DEF IInv
<1>1. TypeOK'
  <2>1. pc' \in Steps \cup Outside /\ calls' \in 0..MaxCalls /\ key_' \in Texts /\ iv_' \in Texts
    BY <1>0, PublicLinkAssumption DEF TypeOK
  <2>2. todo' \subseteq Entries /\ decoded' \in [Entries -> Texts]
    BY <1>0, PublicLinkAssumption, MapType DEF TypeOK
  <2>3. inl' \in PayloadSizes \cup {0} /\ out_size' \in Nat /\ encrypted_length' \in Nat
    BY <1>0, Sizes, PublicLinkAssumption DEF TypeOK, BlockSize
  <2>4. held' \subseteq Buffers /\ thrown' \in Exceptions \cup {"none"}
    BY <1>0, ResourceNames DEF TypeOK, Exceptions
  <2>5. live' \in [Resources -> Int] /\ before' \in [Resources -> Int]
    BY <1>0, ResourceNames, Counts DEF TypeOK
  <2>6. tmp_ss' \in Seq(Links) /\ Len(tmp_ss') <= 1 /\ url_' \in Seq(Links)
    BY <1>0 DEF TypeOK
  <2> QED
    BY <2>1, <2>2, <2>3, <2>4, <2>5, <2>6, Zenon DEF TypeOK
<1>2. HeldOK'
  BY <1>0, ResourceNames, MapType DEF HeldOK, AfterMap, WithOut, TypeOK, MapEntries, TextOf, Decoded
<1>3. LiveOK'
  BY <1>0, ResourceNames DEF LiveOK, HeldOK, TypeOK, WithContext, AfterMap, ReleasedOnce
<1>4. StoredOK'
  BY <1>0, Sizes DEF StoredOK, TypeOK, WithOut
<1>5. StreamOK'
  BY <1>0 DEF StreamOK
<1>6. ReleasedOnce'
  BY <1>0, ResourceNames DEF ReleasedOnce, LiveOK, HeldOK, TypeOK, WithContext, AfterMap
<1>7. LinkUsesKeyAndIv'
  BY <1>0 DEF LinkUsesKeyAndIv
<1> QED
  BY <1>1, <1>2, <1>3, <1>4, <1>5, <1>6, <1>7 DEF IInv

(* The stream was empty, so the link is the only one.                      *)
LEMMA SetUrlStep == IInv /\ SetUrl => IInv'
<1> SUFFICES ASSUME IInv, SetUrl PROVE IInv'
  OBVIOUS
<1> USE DEF SetUrl, GoTo, Throw, ThrownBy, Outside, Steps, results, history, cipher
<1>0. TypeOK /\ HeldOK /\ LiveOK /\ StoredOK /\ StreamOK /\ ReleasedOnce /\ LinkUsesKeyAndIv
  BY DEF IInv
<1>1. TypeOK'
  <2>1. pc' \in Steps \cup Outside /\ calls' \in 0..MaxCalls /\ key_' \in Texts /\ iv_' \in Texts
    BY <1>0, PublicLinkAssumption DEF TypeOK
  <2>2. todo' \subseteq Entries /\ decoded' \in [Entries -> Texts]
    BY <1>0, PublicLinkAssumption, MapType DEF TypeOK
  <2>3. inl' \in PayloadSizes \cup {0} /\ out_size' \in Nat /\ encrypted_length' \in Nat
    BY <1>0, Sizes, PublicLinkAssumption DEF TypeOK, BlockSize
  <2>4. held' \subseteq Buffers /\ thrown' \in Exceptions \cup {"none"}
    BY <1>0, ResourceNames DEF TypeOK, Exceptions
  <2>5. live' \in [Resources -> Int] /\ before' \in [Resources -> Int]
    BY <1>0, ResourceNames, Counts DEF TypeOK
  <2>6. tmp_ss' \in Seq(Links) /\ Len(tmp_ss') <= 1 /\ url_' \in Seq(Links)
    <3>1. CASE pc' = "threw"
      BY <1>0, <3>1 DEF TypeOK
    <3>2. CASE pc' = "returned"
      <4>1. Link \in Links
        BY <1>0, ResourceNames DEF TypeOK, Link, Links
      <4>2. tmp_ss' = <<Link>> /\ url_' = <<Link>>
        BY <1>0, <3>2 DEF StreamOK
      <4> QED
        BY <4>1, <4>2
    <3> QED
      BY <3>1, <3>2
  <2> QED
    BY <2>1, <2>2, <2>3, <2>4, <2>5, <2>6, Zenon DEF TypeOK
<1>2. HeldOK'
  BY <1>0, ResourceNames, MapType DEF HeldOK, AfterMap, WithOut, TypeOK, MapEntries, TextOf, Decoded
<1>3. LiveOK'
  BY <1>0, ResourceNames DEF LiveOK, HeldOK, TypeOK, WithContext, AfterMap, ReleasedOnce
<1>4. StoredOK'
  BY <1>0, Sizes DEF StoredOK, TypeOK, WithOut
<1>5. StreamOK'
  BY <1>0 DEF StreamOK
<1>6. ReleasedOnce'
  BY <1>0, ResourceNames DEF ReleasedOnce, LiveOK, HeldOK, TypeOK, WithContext, AfterMap
<1>7. LinkUsesKeyAndIv'
  <2> SUFFICES ASSUME pc' = "returned" PROVE LinkUsesKeyAndIv'
    BY DEF LinkUsesKeyAndIv
  <2>1. url_' = <<Link>> /\ Link' = Link
    BY <1>0 DEF StreamOK, Link
  <2>2. /\ decoded["key"] = key_
        /\ decoded["iv"] = IF key_ = iv_ THEN NoText ELSE iv_
    BY <1>0, ResourceNames, MapType DEF HeldOK, AfterMap, Decoded
  <2>3. key_ \notin Malformed /\ (key_ # iv_ => iv_ \notin Malformed)
    BY <1>0, ResourceNames, MapType DEF HeldOK, AfterMap, Decoded
  <2>4. encrypted_length > inl /\ encrypted_length % BlockSize = 0
    BY <1>0, Sizes DEF StoredOK
  <2> QED
    BY <2>1, <2>2, <2>3, <2>4 DEF LinkUsesKeyAndIv, Link
<1> QED
  BY <1>1, <1>2, <1>3, <1>4, <1>5, <1>6, <1>7 DEF IInv

(* A handler releases the buffers.                                         *)
LEMMA RethrowStep == IInv /\ Rethrow => IInv'
<1> SUFFICES ASSUME IInv, Rethrow PROVE IInv'
  OBVIOUS
<1> USE DEF Rethrow, GoTo, Release, Outside, Steps, results, history, cipher
<1>0. TypeOK /\ HeldOK /\ LiveOK /\ StoredOK /\ StreamOK /\ ReleasedOnce /\ LinkUsesKeyAndIv
  BY DEF IInv
<1>1. TypeOK'
  <2>1. pc' \in Steps \cup Outside /\ calls' \in 0..MaxCalls /\ key_' \in Texts /\ iv_' \in Texts
    BY <1>0, PublicLinkAssumption DEF TypeOK
  <2>2. todo' \subseteq Entries /\ decoded' \in [Entries -> Texts]
    BY <1>0, PublicLinkAssumption, MapType DEF TypeOK
  <2>3. inl' \in PayloadSizes \cup {0} /\ out_size' \in Nat /\ encrypted_length' \in Nat
    BY <1>0, Sizes, PublicLinkAssumption DEF TypeOK, BlockSize
  <2>4. held' \subseteq Buffers /\ thrown' \in Exceptions \cup {"none"}
    BY <1>0, ResourceNames DEF TypeOK, Exceptions
  <2>5. live' \in [Resources -> Int] /\ before' \in [Resources -> Int]
    BY <1>0, ResourceNames, Counts DEF TypeOK
  <2>6. tmp_ss' \in Seq(Links) /\ Len(tmp_ss') <= 1 /\ url_' \in Seq(Links)
    BY <1>0 DEF TypeOK
  <2> QED
    BY <2>1, <2>2, <2>3, <2>4, <2>5, <2>6, Zenon DEF TypeOK
<1>2. HeldOK'
  BY <1>0, ResourceNames, MapType DEF HeldOK, AfterMap, WithOut, TypeOK, MapEntries, TextOf, Decoded
<1>3. LiveOK'
  BY <1>0, ResourceNames DEF LiveOK, HeldOK, TypeOK, WithContext, AfterMap, ReleasedOnce
<1>4. StoredOK'
  BY <1>0, Sizes DEF StoredOK, TypeOK, WithOut
<1>5. StreamOK'
  BY <1>0 DEF StreamOK
<1>6. ReleasedOnce'
  BY <1>0, ResourceNames DEF ReleasedOnce, LiveOK, HeldOK, TypeOK, WithContext, AfterMap
<1>7. LinkUsesKeyAndIv'
  BY <1>0 DEF LinkUsesKeyAndIv
<1> QED
  BY <1>1, <1>2, <1>3, <1>4, <1>5, <1>6, <1>7 DEF IInv

(* The end of the object.                                                  *)
LEMMA DeleteStep == IInv /\ Delete => IInv'
<1> SUFFICES ASSUME IInv, Delete PROVE IInv'
  OBVIOUS
<1> USE DEF Delete, Outside, Steps, results, history, cipher
<1>0. TypeOK /\ HeldOK /\ LiveOK /\ StoredOK /\ StreamOK /\ ReleasedOnce /\ LinkUsesKeyAndIv
  BY DEF IInv
<1>1. TypeOK'
  <2>1. pc' \in Steps \cup Outside /\ calls' \in 0..MaxCalls /\ key_' \in Texts /\ iv_' \in Texts
    BY <1>0, PublicLinkAssumption DEF TypeOK
  <2>2. todo' \subseteq Entries /\ decoded' \in [Entries -> Texts]
    BY <1>0, PublicLinkAssumption, MapType DEF TypeOK
  <2>3. inl' \in PayloadSizes \cup {0} /\ out_size' \in Nat /\ encrypted_length' \in Nat
    BY <1>0, Sizes, PublicLinkAssumption DEF TypeOK, BlockSize
  <2>4. held' \subseteq Buffers /\ thrown' \in Exceptions \cup {"none"}
    BY <1>0, ResourceNames DEF TypeOK, Exceptions
  <2>5. live' \in [Resources -> Int] /\ before' \in [Resources -> Int]
    BY <1>0, ResourceNames, Counts DEF TypeOK
  <2>6. tmp_ss' \in Seq(Links) /\ Len(tmp_ss') <= 1 /\ url_' \in Seq(Links)
    BY <1>0 DEF TypeOK
  <2> QED
    BY <2>1, <2>2, <2>3, <2>4, <2>5, <2>6, Zenon DEF TypeOK
<1>2. HeldOK'
  BY <1>0, ResourceNames, MapType DEF HeldOK, AfterMap, WithOut, TypeOK, MapEntries, TextOf, Decoded
<1>3. LiveOK'
  BY <1>0, ResourceNames DEF LiveOK, HeldOK, TypeOK, WithContext, AfterMap, ReleasedOnce
<1>4. StoredOK'
  BY <1>0, Sizes DEF StoredOK, TypeOK, WithOut
<1>5. StreamOK'
  BY <1>0 DEF StreamOK
<1>6. ReleasedOnce'
  BY <1>0, ResourceNames DEF ReleasedOnce, LiveOK, HeldOK, TypeOK, WithContext, AfterMap
<1>7. LinkUsesKeyAndIv'
  BY <1>0 DEF LinkUsesKeyAndIv
<1> QED
  BY <1>1, <1>2, <1>3, <1>4, <1>5, <1>6, <1>7 DEF IInv

(* Nothing changes.                                                        *)
LEMMA StutterStep == IInv /\ UNCHANGED vars => IInv'
BY DEF IInv, vars, results, history, cipher, TypeOK, HeldOK, LiveOK, StoredOK, StreamOK,
       ReleasedOnce, LinkUsesKeyAndIv, MapEntries, TextOf, Decoded, Link

(* Every step preserves the invariant.                                     *)
LEMMA NextInvariant == IInv /\ [Next]_vars => IInv'
BY CalculateStep, PreparePayloadStep, SetPaddingStep, DecodeStep, DecodeThrowsStep,
   EncryptInitStep, WriteStep, AllocateOutStep, EncryptUpdateStep, EncryptFinalStep,
   EncodeStep, ReleaseAllStep, AllocatorAbortsStep, SetUrlStep, RethrowStep,
   DeleteStep, StutterStep, Zenon DEF Next

(* The inductive invariant holds in every reachable state.                 *)
THEOREM Invariance == Spec => []IInv
BY InitInvariant, NextInvariant, PTL DEF Spec

(* Every variable keeps its type.                                          *)
THEOREM TypeCorrect == Spec => []TypeOK
<1>1. IInv => TypeOK
  BY DEF IInv
<1> QED
  BY <1>1, Invariance, PTL

(* Nothing is released twice, and what a call may leave behind depends on  *)
(* the exception that ended it as ReleasedOnce says.                       *)
THEOREM Releases == Spec => []ReleasedOnce
<1>1. IInv => ReleasedOnce
  BY DEF IInv
<1> QED
  BY <1>1, Invariance, PTL

(* A link is made under the key and the iv of its object (one entry of the *)
(* map when they are equal), for any texts.                                *)
THEOREM LinksUseKeyAndIv == Spec => []LinkUsesKeyAndIv
<1>1. IInv => LinkUsesKeyAndIv
  BY DEF IInv
<1> QED
  BY <1>1, Invariance, PTL

(* A payload of any size that is no multiple of the block size is          *)
(* encrypted within out.                                                   *)
THEOREM Fits == Spec => []FitsUnlessAligned
<1>1. IInv => FitsUnlessAligned
  <2> SUFFICES ASSUME IInv, inl % BlockSize # 0 PROVE encrypted_length <= out_size
    BY DEF FitsUnlessAligned
  <2>1. TypeOK /\ StoredOK
    BY DEF IInv
  <2>2. inl - (inl % BlockSize) <= OutSize(inl) /\ inl - (inl % BlockSize) + BlockSize <= OutSize(inl)
    BY <2>1, Sizes
  <2>3. CASE encrypted_length = 0
    BY <2>1, <2>3 DEF TypeOK
  <2>4. CASE encrypted_length \in {inl - (inl % BlockSize), inl - (inl % BlockSize) + BlockSize}
             /\ out_size = OutSize(inl)
    BY <2>2, <2>4
  <2> QED
    BY <2>1, <2>3, <2>4 DEF StoredOK
<1> QED
  BY <1>1, Invariance, PTL
=============================================================================
