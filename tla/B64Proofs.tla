------------------------------ MODULE B64Proofs ------------------------------
(***************************************************************************)
(* The B64 object, for every payload and every size the callers' bound     *)
(* allows: it stays in its buffer, releases it once, and its result        *)
(* decodes.  The lemmas on sizes and on one quantum come first.            *)
(***************************************************************************)
EXTENDS B64, TLAPS

(* How the size of an encoding grows: four characters per started quantum. *)
LEMMA EncodedSizeOfQuanta ==
  ASSUME NEW n \in Nat
  PROVE  /\ EncodedSize(n) \in Nat
         /\ EncodedSize(0) = 0
         /\ n > 0 => EncodedSize(n) >= 4
         /\ n % 3 = 0 => \A p \in 1..3 : EncodedSize(n + p) = EncodedSize(n) + 4
BY SMT DEF EncodedSize

LEMMA EncodedSizeGrows ==
  ASSUME NEW m \in Nat, NEW n \in Nat, m < n
  PROVE  /\ EncodedSize(m) <= EncodedSize(n)
         /\ m % 3 = 0 => EncodedSize(m) + 4 <= EncodedSize(n)
BY SMT DEF EncodedSize

(* The sextets of three bytes give the bytes back.                         *)
LEMMA SextetsDecode ==
  ASSUME NEW b \in [0..2 -> Octets]
  PROVE  /\ \A j \in 0..3 : Sextets(b)[j] \in Alphabet
         /\ Sextets(b)[0] * 4 + Sextets(b)[1] \div 16 = b[0]
         /\ (Sextets(b)[1] % 16) * 16 + Sextets(b)[2] \div 4 = b[1]
         /\ (Sextets(b)[2] % 4) * 64 + Sextets(b)[3] = b[2]
<1> DEFINE s == Sextets(b)
<1>1. b[0] \in 0..255 /\ b[1] \in 0..255 /\ b[2] \in 0..255
  BY DEF Octets
<1>2. /\ s[0] = b[0] \div 4
      /\ s[1] = (b[0] % 4) * 16 + b[1] \div 16
      /\ s[2] = (b[1] % 16) * 4 + b[2] \div 64
      /\ s[3] = b[2] % 64
  BY DEF Sextets
<1> HIDE DEF s
<1>3. s[0] \in 0..63 /\ s[0] * 4 + s[1] \div 16 = b[0]
  BY <1>1, <1>2, SMT
<1>4. s[1] \in 0..63 /\ (s[1] % 16) * 16 + s[2] \div 4 = b[1]
  BY <1>1, <1>2, SMT
<1>5. s[2] \in 0..63 /\ s[3] \in 0..63 /\ (s[2] % 4) * 64 + s[3] = b[2]
  BY <1>1, <1>2, SMT
<1>6. \A j \in 0..3 : s[j] \in 0..63
  BY <1>3, <1>4, <1>5
<1> QED
  BY <1>3, <1>4, <1>5, <1>6 DEF s, Alphabet

(* What the four characters of one quantum say of its one to three bytes.  *)
LEMMA QuantumDecodes ==
  ASSUME NEW b \in [0..2 -> Octets], NEW parts \in 1..3,
         \A i \in parts..2 : b[i] = 0,
         NEW q, q = Quantum4(b, parts)
  PROVE  /\ DOMAIN q = 0..3
         /\ \A j \in 0..3 : IF j <= parts THEN q[j] \in Alphabet ELSE q[j] = Padding
         /\ q[0] * 4 + q[1] \div 16 = b[0]
         /\ parts = 1 => q[1] % 16 = 0
         /\ parts = 2 => q[2] % 4 = 0
         /\ parts >= 2 => (q[1] % 16) * 16 + Bits(q[2]) \div 4 = b[1]
         /\ parts >= 3 => (q[2] % 4) * 64 + q[3] = b[2]
<1> DEFINE s == Sextets(b)
<1>1. /\ s[0] \in 0..63 /\ s[1] \in 0..63 /\ s[2] \in 0..63 /\ s[3] \in 0..63
      /\ s[0] * 4 + s[1] \div 16 = b[0]
      /\ (s[1] % 16) * 16 + s[2] \div 4 = b[1]
      /\ (s[2] % 4) * 64 + s[3] = b[2]
  BY SextetsDecode DEF Alphabet
<1> HIDE DEF s
<1>2. q = [j \in 0..3 |-> IF j <= parts THEN s[j] ELSE 64]
  BY DEF Quantum4, s, Padding
<1>3. /\ q[0] = s[0] /\ q[1] = s[1]
      /\ parts >= 2 => q[2] = s[2]
      /\ parts >= 3 => q[3] = s[3]
      /\ parts = 1 => q[2] = 64 /\ q[3] = 64
      /\ parts = 2 => q[3] = 64
  BY <1>2
<1>4. /\ parts = 1 => b[1] = 0 /\ b[2] = 0
      /\ parts = 2 => b[2] = 0
  OBVIOUS
<1>5. /\ DOMAIN q = 0..3
      /\ \A j \in 0..3 : IF j <= parts THEN q[j] \in Alphabet ELSE q[j] = Padding
  <2>1. \A j \in 0..3 : s[j] \in 0..63
    BY <1>1
  <2> QED
    BY <1>2, <2>1 DEF Alphabet, Padding
<1>6. parts = 1 => s[1] % 16 = 0
  BY <1>1, <1>4, SMT
<1>7. parts = 2 => s[2] % 4 = 0
  BY <1>1, <1>4, SMT
<1>8. parts >= 2 => Bits(q[2]) = s[2]
  BY <1>1, <1>3 DEF Bits, Padding
<1> QED
  BY <1>1, <1>3, <1>5, <1>6, <1>7, <1>8

(* A quantum stored behind the complete ones extends what decodes.         *)
LEMMA QuantumExtends ==
  ASSUME NEW n \in Nat, n % 3 = 0, NEW parts \in 1..3,
         NEW b \in [0..2 -> Octets], \A i \in parts..2 : b[i] = 0,
         NEW p, \A i \in 0..(parts - 1) : b[i] = p[n + i],
         NEW text, DecodesUpTo(text, p, n),
         NEW next, \A i \in 0..(EncodedSize(n) - 1) : next[i] = text[i],
         \A j \in 0..3 : next[EncodedSize(n) + j] = Quantum4(b, parts)[j]
  PROVE  DecodesUpTo(next, p, n + parts)
<1> DEFINE e == EncodedSize(n)
           q == Quantum4(b, parts)
<1>1. /\ e \in Nat /\ e = 4 * (n \div 3)
      /\ EncodedSize(n + parts) = e + 4
  BY EncodedSizeOfQuanta, SMT DEF EncodedSize
<1>2. /\ PaddingSize(n) = 0
      /\ PaddingSize(n + parts) = 3 - parts
      /\ (n + parts) % 3 = 1 => parts = 1
      /\ (n + parts) % 3 = 2 => parts = 2
  BY SMT DEF PaddingSize
<1>3. /\ \A j \in 0..3 : IF j <= parts THEN q[j] \in Alphabet ELSE q[j] = Padding
      /\ q[0] * 4 + q[1] \div 16 = b[0]
      /\ parts = 1 => q[1] % 16 = 0
      /\ parts = 2 => q[2] % 4 = 0
      /\ parts >= 2 => (q[1] % 16) * 16 + Bits(q[2]) \div 4 = b[1]
      /\ parts >= 3 => (q[2] % 4) * 64 + q[3] = b[2]
  BY QuantumDecodes
<1>4. \A j \in 0..3 : next[e + j] = q[j]
  OBVIOUS
<1> HIDE DEF e, q
<1>5. Canonical(next, n + parts)
  <2>1. ASSUME NEW i \in 0..(e + 4 - 1)
        PROVE  IF i < e + 4 - (3 - parts) THEN next[i] \in Alphabet ELSE next[i] = Padding
    <3>1. CASE i < e
      <4>1. text[i] \in Alphabet
        <5>1. i \in 0..(EncodedSize(n) - 1) /\ i < EncodedSize(n) - PaddingSize(n)
          BY <1>1, <1>2, <3>1 DEF e
        <5> QED
          BY <5>1 DEF DecodesUpTo, Canonical
      <4>2. next[i] = text[i]
        BY <1>1, <3>1 DEF e
      <4>3. i < e + 4 - (3 - parts)
        BY <1>1, <3>1
      <4> QED
        BY <4>1, <4>2, <4>3
    <3>2. CASE i >= e
      <4>1. PICK j \in 0..3 : i = e + j
        <5>1. i - e \in 0..3 /\ i = e + (i - e)
          BY <1>1, <3>2
        <5> QED
          BY <5>1
      <4>2. next[i] = q[j]
        BY <1>4, <4>1
      <4>3. j <= parts <=> i < e + 4 - (3 - parts)
        BY <1>1, <4>1
      <4> QED
        BY <1>3, <4>2, <4>3
    <3> QED
      BY <1>1, <3>1, <3>2
  <2>2. (n + parts) % 3 = 1 => next[e + 4 - 3] % 16 = 0
    BY <1>1, <1>2, <1>3, <1>4
  <2>3. (n + parts) % 3 = 2 => next[e + 4 - 2] % 4 = 0
    BY <1>1, <1>2, <1>3, <1>4
  <2> QED
    BY <1>1, <1>2, <2>1, <2>2, <2>3 DEF Canonical
<1>6. ASSUME NEW j \in 0..(n + parts - 1)
      PROVE  DecodedByte(next, j) = p[j]
  <2>1. CASE j < n
    <3>1. DecodedByte(text, j) = p[j]
      BY <2>1 DEF DecodesUpTo
    <3>2. /\ 4 * (j \div 3) \in 0..(e - 1) /\ 4 * (j \div 3) + 1 \in 0..(e - 1)
          /\ 4 * (j \div 3) + 2 \in 0..(e - 1) /\ 4 * (j \div 3) + 3 \in 0..(e - 1)
      BY <1>1, <2>1, SMT
    <3>3. \A i \in 0..(e - 1) : next[i] = text[i]
      BY DEF e
    <3>4. DecodedByte(next, j) = DecodedByte(text, j)
      <4> DEFINE k == 4 * (j \div 3)
      <4>1. next[k] = text[k] /\ next[k + 1] = text[k + 1]
            /\ next[k + 2] = text[k + 2] /\ next[k + 3] = text[k + 3]
        BY <3>2, <3>3
      <4> QED
        BY <4>1 DEF DecodedByte
    <3> QED
      BY <3>1, <3>4
  <2>2. CASE j >= n
    <3>1. /\ 4 * (j \div 3) = e
          /\ j % 3 = j - n
          /\ j - n \in 0..(parts - 1)
      BY <1>1, <2>2, SMT
    <3>2. b[j - n] = p[j]
      <4>1. b[j - n] = p[n + (j - n)]
        BY <3>1
      <4> QED
        BY <4>1, <2>2
    <3>3. CASE j - n = 0
      <4>1. DecodedByte(next, j) = next[e] * 4 + next[e + 1] \div 16
        BY <3>1, <3>3 DEF DecodedByte
      <4>2. next[e] = q[0] /\ next[e + 1] = q[1]
        BY <1>1, <1>4
      <4> QED
        BY <1>3, <3>2, <3>3, <4>1, <4>2
    <3>4. CASE j - n = 1
      <4>1. DecodedByte(next, j) = (next[e + 1] % 16) * 16 + Bits(next[e + 2]) \div 4
        BY <3>1, <3>4 DEF DecodedByte
      <4>2. next[e + 1] = q[1] /\ next[e + 2] = q[2] /\ parts >= 2
        BY <1>1, <1>4, <3>1, <3>4
      <4> QED
        BY <1>3, <3>2, <3>4, <4>1, <4>2
    <3>5. CASE j - n = 2
      <4>1. DecodedByte(next, j) = (next[e + 2] % 4) * 64 + next[e + 3]
        BY <3>1, <3>5 DEF DecodedByte
      <4>2. next[e + 2] = q[2] /\ next[e + 3] = q[3] /\ parts >= 3
        BY <1>1, <1>4, <3>1, <3>5
      <4> QED
        BY <1>3, <3>2, <3>5, <4>1, <4>2
    <3> QED
      BY <3>1, <3>3, <3>4, <3>5
  <2> QED
    BY <2>1, <2>2
<1> QED
  BY <1>5, <1>6 DEF DecodesUpTo
-----------------------------------------------------------------------------
(* The callers' bound keeps the size of the buffer in an unsigned int.     *)
LEMMA OutSizeFits ==
  ASSUME NEW size \in 0..MaxSize
  PROVE  /\ OutSize(size) = EncodedSize(size) + 1
         /\ OutSize(size) \in 0..(UIntMod - 1)
<1>1. EncodedSize(size) \in Nat /\ EncodedSize(MaxSize) \in Nat
  BY B64Assumption, EncodedSizeOfQuanta
<1>2. EncodedSize(size) <= EncodedSize(MaxSize)
  <2>1. CASE size = MaxSize
    BY <1>1, <2>1
  <2>2. CASE size < MaxSize
    BY <2>2, B64Assumption, EncodedSizeGrows
  <2> QED
    BY <2>1, <2>2, B64Assumption
<1>3. EncodedSize(size) + 1 \in 0..(UIntMod - 1)
  BY <1>1, <1>2, B64Assumption
<1>4. \A x \in 0..(UIntMod - 1) : x % UIntMod = x
  BY B64Assumption, SMT
<1> QED
  BY <1>3, <1>4 DEF OutSize

(* An object without a block has the empty one.                            *)
LEMMA NoBlockType ==
  ASSUME NEW has, has = FALSE, NEW size
  PROVE  /\ has \in BOOLEAN
         /\ DOMAIN NoBlock = IF has THEN 0..(size - 1) ELSE {}
         /\ \A i \in DOMAIN NoBlock : NoBlock[i] \in Chars
BY DEF NoBlock

LEMMA InitInvariant == Init => IInv
<1> SUFFICES ASSUME Init PROVE IInv
  OBVIOUS
<1>1. TypeOK
  <2>1. a_size \in 0..MaxSize /\ a_payload \in [0..(a_size - 1) -> Byte]
    <3>1. 0..(0 - 1) = {}
      OBVIOUS
    <3> QED
      BY <3>1, B64Assumption DEF Init
  <2>2. /\ allocated \in BOOLEAN
        /\ DOMAIN block = IF allocated THEN 0..(out_size - 1) ELSE {}
        /\ \A i \in DOMAIN block : block[i] \in Chars
    BY NoBlockType, Zenon DEF Init
  <2>3. out_size \in 0..(UIntMod - 1)
    BY OutSizeFits, B64Assumption, EncodedSizeOfQuanta DEF Init
  <2> QED
    BY <2>1, <2>2, <2>3, B64Assumption DEF Init, TypeOK
<1> QED
  BY <1>1 DEF Init, IInv, ReleasedOnce, LoopOK

(* A call releases the block of the one before.                            *)
LEMMA CallReleases ==
  ASSUME IInv, NEW size \in 0..MaxSize, Called(size)
  PROVE  /\ Released = 0
         /\ a_size' = size /\ in_data' = 0 /\ in_size' = size
         /\ a_payload' \in [0..(size - 1) -> Byte]
BY DEF IInv, TypeOK, ReleasedOnce, Released, Called

LEMMA EncodeNothingStep == IInv /\ EncodeNothing => IInv'
<1> SUFFICES ASSUME IInv, EncodeNothing PROVE IInv'
  OBVIOUS
<1>1. 0 \in 0..MaxSize /\ Called(0)
  BY B64Assumption DEF EncodeNothing
<1>2. /\ heap' = 0 /\ a_size' = 0 /\ in_data' = 0 /\ in_size' = 0
      /\ a_payload' \in [0..(0 - 1) -> Byte]
      /\ out_size' = 0 /\ allocated' = FALSE /\ encode_buffer' = 0
      /\ block' = NoBlock /\ pc' = "idle"
  BY <1>1, CallReleases DEF EncodeNothing, Called
<1>3. 0 \in 0..(UIntMod - 1)
  BY OutSizeFits, B64Assumption, EncodedSizeOfQuanta
<1>4. TypeOK'
  <2>1. /\ allocated' \in BOOLEAN
        /\ DOMAIN block' = IF allocated' THEN 0..(out_size' - 1) ELSE {}
        /\ \A i \in DOMAIN block' : block'[i] \in Chars
    BY <1>2, NoBlockType, Zenon
  <2> QED
    BY <1>1, <1>2, <1>3, <2>1 DEF TypeOK
<1> QED
  BY <1>2, <1>4 DEF IInv, ReleasedOnce, LoopOK

LEMMA EncodeFailsStep == IInv /\ EncodeFails => IInv'
<1> SUFFICES ASSUME IInv, EncodeFails PROVE IInv'
  OBVIOUS
<1>1. PICK size \in 1..MaxSize :
        /\ Called(size)
        /\ out_size' = OutSize(size)
        /\ heap' = Released
        /\ allocated' = FALSE
        /\ encode_buffer' = 0
        /\ block' = NoBlock
  BY DEF EncodeFails
<1>2. pc' = "idle"
  BY DEF EncodeFails, Called
<1>3. size \in 0..MaxSize
  BY B64Assumption
<1>4. /\ heap' = 0 /\ a_size' = size /\ in_data' = 0 /\ in_size' = size
      /\ a_payload' \in [0..(size - 1) -> Byte]
  BY <1>1, <1>3, CallReleases
<1>5. TypeOK'
  <2>1. /\ allocated' \in BOOLEAN
        /\ DOMAIN block' = IF allocated' THEN 0..(out_size' - 1) ELSE {}
        /\ \A i \in DOMAIN block' : block'[i] \in Chars
    BY <1>1, NoBlockType, Zenon
  <2>2. out_size' \in 0..(UIntMod - 1)
    BY <1>1, <1>3, OutSizeFits
  <2>3. 0 \in 0..MaxSize
    BY B64Assumption
  <2> QED
    BY <1>1, <1>2, <1>3, <1>4, <2>1, <2>2, <2>3 DEF TypeOK
<1> QED
  BY <1>1, <1>2, <1>4, <1>5 DEF IInv, ReleasedOnce, LoopOK

LEMMA EncodeSomeStep == IInv /\ EncodeSome => IInv'
<1> SUFFICES ASSUME IInv, EncodeSome PROVE IInv'
  OBVIOUS
<1>1. PICK size \in 1..MaxSize :
        /\ Called(size)
        /\ out_size' = OutSize(size)
        /\ heap' = Released + 1
        /\ allocated' = TRUE
        /\ encode_buffer' = 0
        /\ block' = [i \in 0..(out_size' - 1) |-> Unset]
        /\ pc' = "loop"
  BY DEF EncodeSome
<1>2. size \in 0..MaxSize /\ size \in Nat /\ size > 0
  BY B64Assumption
<1>3. /\ heap' = 1 /\ a_size' = size /\ in_data' = 0 /\ in_size' = size
      /\ a_payload' \in [0..(size - 1) -> Byte]
  BY <1>1, <1>2, CallReleases
<1>4. /\ out_size' = EncodedSize(size) + 1
      /\ out_size' \in 0..(UIntMod - 1)
  BY <1>1, <1>2, OutSizeFits
<1>5. TypeOK'
  <2>1. /\ allocated' \in BOOLEAN
        /\ DOMAIN block' = IF allocated' THEN 0..(out_size' - 1) ELSE {}
    BY <1>1, Zenon
  <2>2. \A i \in DOMAIN block' : block'[i] \in Chars
    BY <1>1 DEF Chars, Unset
  <2>3. 0 \in 0..MaxSize
    BY B64Assumption
  <2> QED
    BY <1>1, <1>2, <1>3, <1>4, <2>1, <2>2, <2>3 DEF TypeOK
<1>6. LoopOK'
  BY <1>1, <1>2, <1>3, <1>4, EncodedSizeOfQuanta DEF LoopOK
<1>7. DecodesUpTo(block', a_payload', in_data')
  <2>1. EncodedSize(0) = 0 /\ 0 % 3 = 0
    BY EncodedSizeOfQuanta
  <2> QED
    BY <1>3, <2>1 DEF DecodesUpTo, Canonical
<1> QED
  BY <1>1, <1>3, <1>5, <1>6, <1>7 DEF IInv, ReleasedOnce

(* What the loop knows of its three input bytes.                           *)
LEMMA InputOfQuantum ==
  ASSUME IInv, pc = "loop", in_size > 0
  PROVE  /\ InputParts \in 1..3
         /\ in_size - InputParts \in 0..MaxSize
         /\ in_data + InputParts \in 0..MaxSize
         /\ InputParts < 3 => in_size - InputParts = 0
         /\ in_data .. (in_data + InputParts - 1) \subseteq 0..(a_size - 1)
         /\ IBuf \in [0..2 -> Octets]
         /\ \A i \in 0..(InputParts - 1) : IBuf[i] = a_payload[in_data + i]
         /\ \A i \in InputParts..2 : IBuf[i] = 0
<1>1. /\ in_size \in 0..MaxSize /\ in_data \in 0..MaxSize /\ a_size \in 0..MaxSize
      /\ in_data + in_size = a_size
      /\ a_payload \in [0..(a_size - 1) -> Byte]
  BY DEF IInv, TypeOK, LoopOK
<1>2. MaxSize \in Nat /\ Byte \subseteq Octets
  BY B64Assumption
<1>3. /\ InputParts \in 1..3
      /\ InputParts <= in_size
      /\ InputParts < 3 => in_size - InputParts = 0
  BY <1>1, <1>2 DEF InputParts
<1>4. /\ in_size - InputParts \in 0..MaxSize
      /\ in_data + InputParts \in 0..MaxSize
      /\ in_data .. (in_data + InputParts - 1) \subseteq 0..(a_size - 1)
  BY <1>1, <1>2, <1>3
<1>5. \A i \in 0..2 : IBuf[i] = IF i < InputParts THEN a_payload[in_data + i] ELSE 0
  BY DEF IBuf
<1>6. \A i \in 0..2 : i < InputParts => a_payload[in_data + i] \in Octets
  <2> SUFFICES ASSUME NEW i \in 0..2, i < InputParts
               PROVE  a_payload[in_data + i] \in Octets
    OBVIOUS
  <2>1. in_data + i \in 0..(a_size - 1)
    BY <1>1, <1>3
  <2> QED
    BY <1>1, <1>2, <2>1
<1>7. IBuf \in [0..2 -> Octets]
  <2>1. 0 \in Octets
    BY DEF Octets
  <2> QED
    BY <1>6, <2>1 DEF IBuf
<1> QED
  BY <1>3, <1>4, <1>5, <1>7

(* In the loop there is room for a quantum, or for the terminator.         *)
LEMMA RoomInBlock ==
  ASSUME IInv, pc = "loop"
  PROVE  /\ DOMAIN block = 0..EncodedSize(a_size)
         /\ encode_buffer = EncodedSize(in_data)
         /\ EncodedSize(in_data) \in Nat /\ EncodedSize(a_size) \in Nat
         /\ in_size > 0 => encode_buffer + 4 <= EncodedSize(a_size)
         /\ in_size = 0 => encode_buffer = EncodedSize(a_size) /\ in_data = a_size
<1>1. /\ in_size \in 0..MaxSize /\ in_data \in 0..MaxSize /\ a_size \in 0..MaxSize
      /\ in_data + in_size = a_size
      /\ allocated
      /\ DOMAIN block = 0..(out_size - 1)
      /\ out_size = EncodedSize(a_size) + 1
      /\ encode_buffer = EncodedSize(in_data)
      /\ in_size > 0 => in_data % 3 = 0
  BY DEF IInv, TypeOK, LoopOK
<1>2. in_data \in Nat /\ a_size \in Nat /\ in_size \in Nat
  BY <1>1, B64Assumption
<1>3. EncodedSize(in_data) \in Nat /\ EncodedSize(a_size) \in Nat
  BY <1>2, EncodedSizeOfQuanta
<1>4. in_size > 0 => EncodedSize(in_data) + 4 <= EncodedSize(a_size)
  <2> SUFFICES ASSUME in_size > 0 PROVE EncodedSize(in_data) + 4 <= EncodedSize(a_size)
    OBVIOUS
  <2>1. in_data < a_size /\ in_data % 3 = 0
    BY <1>1, <1>2
  <2> QED
    BY <1>2, <2>1, EncodedSizeGrows
<1>5. in_size = 0 => in_data = a_size
  BY <1>1, <1>2
<1> QED
  BY <1>1, <1>3, <1>4, <1>5

LEMMA QuantumStep == IInv /\ Quantum => IInv'
<1> SUFFICES ASSUME IInv, Quantum PROVE IInv'
  OBVIOUS
<1> DEFINE e == EncodedSize(in_data)
           q == Quantum4(IBuf, InputParts)
<1>1. /\ pc = "loop" /\ in_size > 0 /\ pc' = "loop"
      /\ Store(q)
      /\ in_data' = in_data + InputParts
      /\ in_size' = in_size - InputParts
      /\ encode_buffer' = encode_buffer + 4
      /\ a_size' = a_size /\ a_payload' = a_payload /\ out_size' = out_size
      /\ allocated' = allocated /\ heap' = heap
  BY DEF Quantum
<1>2. /\ InputParts \in 1..3
      /\ in_size - InputParts \in 0..MaxSize
      /\ in_data + InputParts \in 0..MaxSize
      /\ InputParts < 3 => in_size - InputParts = 0
      /\ IBuf \in [0..2 -> Octets]
      /\ \A i \in 0..(InputParts - 1) : IBuf[i] = a_payload[in_data + i]
      /\ \A i \in InputParts..2 : IBuf[i] = 0
  BY <1>1, InputOfQuantum
<1>3. /\ DOMAIN block = 0..EncodedSize(a_size)
      /\ encode_buffer = e
      /\ e \in Nat /\ EncodedSize(a_size) \in Nat
      /\ e + 4 <= EncodedSize(a_size)
  BY <1>1, RoomInBlock
<1>4. /\ in_data \in 0..MaxSize /\ in_data \in Nat /\ in_size \in Nat
      /\ in_data % 3 = 0 /\ in_data + in_size = a_size
      /\ \A i \in DOMAIN block : block[i] \in Chars
      /\ DecodesUpTo(block, a_payload, in_data)
      /\ TypeOK /\ ReleasedOnce /\ LoopOK
  BY <1>1, B64Assumption DEF IInv, TypeOK, LoopOK
<1>5. DOMAIN q = 0..3 /\ \A j \in 0..3 : q[j] \in Chars
  <2>1. DOMAIN q = 0..3
    BY DEF Quantum4
  <2>2. \A j \in 0..3 : IF j <= InputParts THEN q[j] \in Alphabet ELSE q[j] = Padding
    BY <1>2, QuantumDecodes
  <2> QED
    BY <2>1, <2>2 DEF Alphabet, Padding, Chars
<1> HIDE DEF q, e
<1>6. block' = [i \in 0..EncodedSize(a_size) |->
                  IF i - e \in 0..3 THEN q[i - e] ELSE block[i]]
  BY <1>1, <1>3, <1>5 DEF Store
<1>7. /\ DOMAIN block' = DOMAIN block
      /\ \A i \in DOMAIN block' : block'[i] \in Chars
      /\ \A i \in 0..(e - 1) : block'[i] = block[i]
      /\ \A j \in 0..3 : block'[e + j] = q[j]
  <2>1. DOMAIN block' = DOMAIN block
    BY <1>3, <1>6
  <2>2. \A i \in DOMAIN block' : block'[i] \in Chars
    BY <1>3, <1>4, <1>5, <1>6
  <2>3. \A i \in 0..(e - 1) : block'[i] = block[i]
    BY <1>3, <1>6
  <2>4. ASSUME NEW j \in 0..3 PROVE block'[e + j] = q[j]
    <3>1. e + j \in 0..EncodedSize(a_size) /\ (e + j) - e = j
      BY <1>3
    <3> QED
      BY <1>6, <3>1
  <2> QED
    BY <2>1, <2>2, <2>3, <2>4
<1>8. EncodedSize(in_data + InputParts) = e + 4
  BY <1>2, <1>4, EncodedSizeOfQuanta DEF e
<1>9. TypeOK'
  <2>1. encode_buffer' \in Int
    BY <1>1, <1>3
  <2>2. /\ allocated' \in BOOLEAN
        /\ DOMAIN block' = IF allocated' THEN 0..(out_size' - 1) ELSE {}
    BY <1>1, <1>4, <1>7, Zenon DEF TypeOK
  <2>3. in_data' \in 0..MaxSize /\ in_size' \in 0..MaxSize
    BY <1>1, <1>2
  <2>4. /\ pc' \in {"idle", "loop", "destroyed"}
        /\ a_size' \in 0..MaxSize /\ a_payload' \in [0..(a_size' - 1) -> Byte]
        /\ out_size' \in 0..(UIntMod - 1) /\ heap' \in Int
    BY <1>1, <1>4, Zenon DEF TypeOK
  <2> QED
    BY <1>7, <2>1, <2>2, <2>3, <2>4, Zenon DEF TypeOK
<1>10. LoopOK'
  <2>1. in_data' + in_size' = a_size'
    BY <1>1, <1>2, <1>4
  <2>2. encode_buffer' = EncodedSize(in_data')
    BY <1>1, <1>3, <1>8
  <2>3. in_size' > 0 => in_data' % 3 = 0
    <3> SUFFICES ASSUME in_size' > 0 PROVE in_data' % 3 = 0
      OBVIOUS
    <3>1. InputParts = 3
      BY <1>1, <1>2
    <3> QED
      BY <1>1, <1>4, <3>1, SMT
  <2>4. allocated' /\ a_size' > 0 /\ out_size' = EncodedSize(a_size') + 1
    BY <1>1, <1>4 DEF LoopOK
  <2> QED
    BY <2>1, <2>2, <2>3, <2>4 DEF LoopOK
<1>11. DecodesUpTo(block', a_payload', in_data')
  <2>1. \A i \in 0..(EncodedSize(in_data) - 1) : block'[i] = block[i]
    BY <1>7 DEF e
  <2>2. \A j \in 0..3 : block'[EncodedSize(in_data) + j] = Quantum4(IBuf, InputParts)[j]
    BY <1>7 DEF e, q
  <2>3. DecodesUpTo(block', a_payload, in_data + InputParts)
    BY <1>2, <1>4, <2>1, <2>2, QuantumExtends
  <2> QED
    BY <1>1, <2>3
<1>12. ReleasedOnce'
  BY <1>1, <1>4, Zenon DEF ReleasedOnce
<1> QED
  BY <1>1, <1>9, <1>10, <1>11, <1>12 DEF IInv

(* The characters before the last one of the buffer decide what decodes.   *)
LEMMA DecodingIsLocal ==
  ASSUME NEW n \in Nat, NEW p, NEW text, DecodesUpTo(text, p, n),
         NEW next, \A i \in 0..(EncodedSize(n) - 1) : next[i] = text[i]
  PROVE  DecodesUpTo(next, p, n)
<1>1. EncodedSize(n) \in Nat
  BY EncodedSizeOfQuanta
<1>2. Canonical(next, n)
  <2>1. Canonical(text, n)
    BY DEF DecodesUpTo
  <2>2. n % 3 = 1 => next[EncodedSize(n) - 3] = text[EncodedSize(n) - 3]
    BY <1>1, SMT DEF EncodedSize
  <2>3. n % 3 = 2 => next[EncodedSize(n) - 2] = text[EncodedSize(n) - 2]
    BY <1>1, SMT DEF EncodedSize
  <2> QED
    BY <2>1, <2>2, <2>3 DEF Canonical
<1>3. ASSUME NEW j \in 0..(n - 1)
      PROVE  DecodedByte(next, j) = p[j]
  <2> DEFINE k == 4 * (j \div 3)
  <2>1. /\ k \in 0..(EncodedSize(n) - 1) /\ k + 1 \in 0..(EncodedSize(n) - 1)
        /\ k + 2 \in 0..(EncodedSize(n) - 1) /\ k + 3 \in 0..(EncodedSize(n) - 1)
    BY SMT DEF EncodedSize
  <2>2. /\ next[k] = text[k] /\ next[k + 1] = text[k + 1]
        /\ next[k + 2] = text[k + 2] /\ next[k + 3] = text[k + 3]
    BY <2>1
  <2>3. DecodedByte(text, j) = p[j]
    BY DEF DecodesUpTo
  <2>4. DecodedByte(next, j) = DecodedByte(text, j)
    BY <2>2 DEF DecodedByte
  <2> QED
    BY <2>3, <2>4
<1> QED
  BY <1>2, <1>3 DEF DecodesUpTo

LEMMA FinishStep == IInv /\ Finish => IInv'
<1> SUFFICES ASSUME IInv, Finish PROVE IInv'
  OBVIOUS
<1> DEFINE e == EncodedSize(a_size)
<1>1. /\ pc = "loop" /\ in_size = 0 /\ pc' = "idle"
      /\ Store([j \in {0} |-> Nul])
      /\ encode_buffer' = encode_buffer - (out_size - 1)
      /\ a_size' = a_size /\ a_payload' = a_payload /\ in_data' = in_data
      /\ in_size' = in_size /\ out_size' = out_size
      /\ allocated' = allocated /\ heap' = heap
  BY DEF Finish
<1>2. /\ DOMAIN block = 0..e /\ e \in Nat
      /\ encode_buffer = e /\ in_data = a_size
  BY <1>1, RoomInBlock
<1>3. /\ TypeOK /\ a_size \in Nat /\ allocated /\ heap = 1
      /\ out_size = e + 1
      /\ \A i \in DOMAIN block : block[i] \in Chars
      /\ DecodesUpTo(block, a_payload, a_size)
  BY <1>1, <1>2, B64Assumption DEF IInv, TypeOK, LoopOK, ReleasedOnce
<1> HIDE DEF e
<1>4. block' = [i \in 0..e |-> IF i = e THEN Nul ELSE block[i]]
  <2>1. \A i \in 0..e : i - encode_buffer \in {0} <=> i = e
    BY <1>2
  <2>2. DOMAIN [j \in {0} |-> Nul] = {0} /\ [j \in {0} |-> Nul][0] = Nul
    OBVIOUS
  <2>3. block' = [i \in 0..e |-> IF i - encode_buffer \in {0}
                                 THEN [j \in {0} |-> Nul][i - encode_buffer]
                                 ELSE block[i]]
    BY <1>1, <1>2 DEF Store
  <2> QED
    BY <1>2, <2>1, <2>3
<1>5. /\ DOMAIN block' = DOMAIN block
      /\ \A i \in DOMAIN block' : block'[i] \in Chars
      /\ block'[e] = Nul
      /\ \A i \in 0..(e - 1) : block'[i] = block[i]
  <2>1. DOMAIN block' = 0..e
    BY <1>4
  <2>2. \A i \in 0..e : block'[i] = IF i = e THEN Nul ELSE block[i]
    BY <1>4
  <2>3. Nul \in Chars
    BY DEF Nul, Chars
  <2>4. e \in 0..e /\ \A i \in 0..(e - 1) : i \in 0..e /\ i # e
    BY <1>2
  <2> QED
    BY <1>2, <1>3, <2>1, <2>2, <2>3, <2>4
<1>6. encode_buffer' = 0
  BY <1>1, <1>2, <1>3
<1>7. TypeOK'
  <2>1. /\ allocated' \in BOOLEAN
        /\ DOMAIN block' = IF allocated' THEN 0..(out_size' - 1) ELSE {}
    BY <1>1, <1>3, <1>5, Zenon DEF TypeOK
  <2>2. /\ pc' \in {"idle", "loop", "destroyed"}
        /\ a_size' \in 0..MaxSize /\ a_payload' \in [0..(a_size' - 1) -> Byte]
        /\ in_data' \in 0..MaxSize /\ in_size' \in 0..MaxSize
        /\ out_size' \in 0..(UIntMod - 1) /\ heap' \in Int
    BY <1>1, <1>3, Zenon DEF TypeOK
  <2>3. encode_buffer' \in Int
    BY <1>6
  <2> QED
    BY <1>5, <2>1, <2>2, <2>3, Zenon DEF TypeOK
<1>8. ReleasedOnce'
  BY <1>1, <1>3, <1>6 DEF ReleasedOnce
<1>9. /\ out_size' = EncodedSize(a_size') + 1
      /\ block'[out_size' - 1] = Nul
  BY <1>1, <1>2, <1>3, <1>5 DEF e
<1>10. DecodesUpTo(block', a_payload', a_size')
  <2>1. \A i \in 0..(EncodedSize(a_size) - 1) : block'[i] = block[i]
    BY <1>5 DEF e
  <2>2. DecodesUpTo(block', a_payload, a_size)
    BY <1>3, <2>1, DecodingIsLocal
  <2> QED
    BY <1>1, <2>2
<1> QED
  BY <1>1, <1>7, <1>8, <1>9, <1>10 DEF IInv, LoopOK

LEMMA DestroyStep == IInv /\ Destroy => IInv'
BY DEF IInv, Destroy, Released, TypeOK, ReleasedOnce, LoopOK

LEMMA StutterStep == IInv /\ UNCHANGED vars => IInv'
BY DEF IInv, vars, TypeOK, ReleasedOnce, LoopOK

LEMMA NextInvariant == IInv /\ [Next]_vars => IInv'
BY EncodeNothingStep, EncodeSomeStep, EncodeFailsStep, QuantumStep, FinishStep,
   DestroyStep, StutterStep, Zenon DEF Next

(* The inductive invariant holds in every reachable state.                 *)
THEOREM Invariance == Spec => []IInv
BY InitInvariant, NextInvariant, PTL DEF Spec

(* Every variable of the object keeps its type.                            *)
THEOREM TypeCorrect == Spec => []TypeOK
<1>1. IInv => TypeOK
  BY DEF IInv
<1> QED
  BY <1>1, Invariance, PTL

(* B64::Encode stores inside the buffer it allocated and reads inside the  *)
(* payload, for every payload whose encoding an unsigned int can count.    *)
THEOREM InBounds == Spec => []StaysInBounds
<1>1. IInv => StaysInBounds
  <2> SUFFICES ASSUME IInv, pc = "loop"
               PROVE  /\ in_size > 0 => encode_buffer .. (encode_buffer + 3) \subseteq DOMAIN block
                      /\ in_size = 0 => encode_buffer \in DOMAIN block
                      /\ in_data .. (in_data + InputParts - 1) \subseteq 0..(a_size - 1)
    BY DEF StaysInBounds
  <2>1. /\ DOMAIN block = 0..EncodedSize(a_size)
        /\ encode_buffer \in Nat /\ EncodedSize(a_size) \in Nat
        /\ in_size > 0 => encode_buffer + 4 <= EncodedSize(a_size)
        /\ in_size = 0 => encode_buffer = EncodedSize(a_size) /\ in_data = a_size
    BY RoomInBlock
  <2>2. /\ in_data \in Nat /\ in_size \in Nat /\ a_size \in Nat
        /\ in_size = 0 => InputParts = 0
    BY B64Assumption DEF IInv, TypeOK, InputParts
  <2>3. in_data .. (in_data + InputParts - 1) \subseteq 0..(a_size - 1)
    <3>1. CASE in_size > 0
      BY <3>1, InputOfQuantum
    <3>2. CASE in_size = 0
      <4>1. in_data .. (in_data + InputParts - 1) = {}
        BY <2>2, <3>2
      <4> QED
        BY <4>1
    <3> QED
      BY <2>2, <3>1, <3>2
  <2> QED
    BY <2>1, <2>3
<1> QED
  BY <1>1, Invariance, PTL

(* The buffer is deleted exactly once, through the pointer new[] returned. *)
THEOREM DeletedOnce == Spec => []ReleasedOnce
<1>1. IInv => ReleasedOnce
  BY DEF IInv
<1> QED
  BY <1>1, Invariance, PTL

(* B64::Encode is inverted by the decoding of RFC 4648, for every payload. *)
THEOREM Decodes == Spec => []ResultDecodes
<1>1. IInv => ResultDecodes
  <2> SUFFICES ASSUME IInv, pc = "idle", allocated
               PROVE  /\ DOMAIN block = 0..EncodedSize(a_size)
                      /\ block[EncodedSize(a_size)] = Nul
                      /\ DecodesUpTo(block, a_payload, a_size)
    BY DEF ResultDecodes, DecodesUpTo
  <2>1. /\ out_size = EncodedSize(a_size) + 1
        /\ block[out_size - 1] = Nul
        /\ DOMAIN block = 0..(out_size - 1)
        /\ DecodesUpTo(block, a_payload, a_size)
    BY DEF IInv, TypeOK
  <2>2. EncodedSize(a_size) \in Nat
    BY B64Assumption, EncodedSizeOfQuanta DEF IInv, TypeOK
  <2> QED
    BY <2>1, <2>2
<1> QED
  BY <1>1, Invariance, PTL
=============================================================================
