-------------------------------- MODULE B64 --------------------------------
(***************************************************************************)
(* The B64 class: one object, whose buffer is written through a moving     *)
(* member pointer, handed to the caller, and released by the next Encode   *)
(* or by the destructor.  Nothing but that pointer says where the block    *)
(* starts, so every delete[] relies on Encode having rewound it.           *)
(***************************************************************************)
EXTENDS Base64

CONSTANTS
  Byte,     \* the bytes payloads are made of
  MaxSize,  \* the longest payload a caller encodes
  UIntMod   \* unsigned int arithmetic is modulo this (2^32)

ASSUME B64Assumption ==
  /\ Byte \subseteq Octets
  /\ MaxSize \in Nat
  /\ UIntMod \in Nat
  /\ EncodedSize(MaxSize) + 1 < UIntMod

VARIABLES
  pc,         \* "idle": out of Encode; "loop": at its while; "destroyed"
  a_size,     \* parameters of the last call of Encode
  a_payload,
  in_data,    \* the next byte to read, as an offset
  in_size,    \* bytes left
  out_size,   \* bytes of the buffer
  allocated,  \* encode_buffer_ is not nullptr
  encode_buffer, \* encode_buffer_, as an offset from the start of the block
  block,      \* the memory encode_buffer_ points into
  heap        \* blocks made and not yet deleted

vars == <<pc, a_size, a_payload, in_data, in_size, out_size, allocated,
          encode_buffer, block, heap>>

NoBlock == [i \in {} |-> Unset]

Init ==
  /\ pc = "idle"
  /\ a_size = 0
  /\ a_payload = [i \in {} |-> 0]
  /\ in_data = 0
  /\ in_size = 0
  /\ out_size = 0
  /\ allocated = FALSE
  /\ encode_buffer = 0
  /\ block = NoBlock
  /\ heap = 0

\* delete [] encode_buffer_, unless it is nullptr.
Released == IF allocated THEN heap - 1 ELSE heap

Called(size) ==
  /\ pc = "idle"
  /\ a_size' = size
  /\ a_payload' \in [0..(size - 1) -> Byte]
  /\ in_data' = 0
  /\ in_size' = size

\* Fault: the released buffer is still pointed to.
EncodeNothingKeepingPointer ==
  /\ Called(0)
  /\ out_size' = 0
  /\ heap' = Released
  /\ UNCHANGED <<pc, allocated, encode_buffer, block>>

\* No payload: nullptr, or a size of 0.
EncodeNothing ==
  /\ Called(0)
  /\ out_size' = 0
  /\ heap' = Released
  /\ allocated' = FALSE
  /\ encode_buffer' = 0
  /\ block' = NoBlock
  /\ UNCHANGED pc

\* Fault: the last, partial quantum is not counted.
OutSizeOfWholeQuanta(size) == ((size \div 3) * 4 + 1) % UIntMod

OutSize(size) == (EncodedSize(size) + 1) % UIntMod

\* Release, compute the size, allocate.
EncodeSome ==
  \E size \in 1..MaxSize :
    /\ Called(size)
    /\ out_size' = OutSize(size)
    /\ heap' = Released + 1
    /\ allocated' = TRUE
    /\ encode_buffer' = 0
    /\ block' = [i \in 0..(out_size' - 1) |-> Unset]
    /\ pc' = "loop"

\* new char[out_size] throws; encode_buffer_ was reset before.
EncodeFails ==
  \E size \in 1..MaxSize :
    /\ Called(size)
    /\ out_size' = OutSize(size)
    /\ heap' = Released
    /\ allocated' = FALSE
    /\ encode_buffer' = 0
    /\ block' = NoBlock
    /\ UNCHANGED pc

InputParts == IF in_size < 3 THEN in_size ELSE 3
IBuf == [i \in 0..2 |-> IF i < InputParts THEN a_payload[in_data + i] ELSE 0]

\* Stores through encode_buffer_; what misses the block is not recorded.
Store(quad) ==
  block' = [i \in DOMAIN block |->
              IF i - encode_buffer \in DOMAIN quad THEN quad[i - encode_buffer]
                                                   ELSE block[i]]

\* Fault: the last character that holds a bit of the input is padding too.
QuantumPaddedEarly ==
  /\ pc = "loop" /\ in_size > 0
  /\ Store([j \in 0..3 |-> IF j <= InputParts /\ (j < InputParts \/ j = 3)
                           THEN Sextets(IBuf)[j] ELSE Padding])
  /\ in_data' = in_data + InputParts
  /\ in_size' = in_size - InputParts
  /\ encode_buffer' = encode_buffer + 4
  /\ UNCHANGED <<pc, a_size, a_payload, out_size, allocated, heap>>

\* One iteration of the while: extract 3, encode to 4.
Quantum ==
  /\ pc = "loop" /\ in_size > 0
  /\ Store(Quantum4(IBuf, InputParts))
  /\ in_data' = in_data + InputParts
  /\ in_size' = in_size - InputParts
  /\ encode_buffer' = encode_buffer + 4
  /\ UNCHANGED <<pc, a_size, a_payload, out_size, allocated, heap>>

\* Terminate and rewind.
Finish ==
  /\ pc = "loop" /\ in_size = 0
  /\ Store([j \in {0} |-> Nul])
  /\ encode_buffer' = encode_buffer - (out_size - 1)
  /\ pc' = "idle"
  /\ UNCHANGED <<a_size, a_payload, in_data, in_size, out_size, allocated, heap>>

\* ~B64()
Destroy ==
  /\ pc = "idle"
  /\ heap' = Released
  /\ pc' = "destroyed"
  /\ UNCHANGED <<a_size, a_payload, in_data, in_size, out_size, allocated,
                 encode_buffer, block>>

Next ==
  \/ EncodeNothing \/ EncodeSome \/ EncodeFails
  \/ Quantum \/ Finish
  \/ Destroy

Spec == Init /\ [][Next]_vars
-----------------------------------------------------------------------------
\* Every variable has its type; the offsets may leave the block.
TypeOK ==
  /\ pc \in {"idle", "loop", "destroyed"}
  /\ a_size \in 0..MaxSize
  /\ a_payload \in [0..(a_size - 1) -> Byte]
  /\ in_data \in 0..MaxSize
  /\ in_size \in 0..MaxSize
  /\ out_size \in 0..(UIntMod - 1)
  /\ allocated \in BOOLEAN
  /\ encode_buffer \in Int
  /\ DOMAIN block = IF allocated THEN 0..(out_size - 1) ELSE {}
  /\ \A i \in DOMAIN block : block[i] \in Chars
  /\ heap \in Int

(* Every store goes into the block and every load into the payload: the    *)
(* size computed up front fits what the loop then does, one quantum at a   *)
(* time, for whole and partial quanta, and leaves room for the terminator. *)
StaysInBounds ==
  pc = "loop" =>
    /\ in_size > 0 => encode_buffer .. (encode_buffer + 3) \subseteq DOMAIN block
    /\ in_size = 0 => encode_buffer \in DOMAIN block
    /\ in_data .. (in_data + InputParts - 1) \subseteq 0..(a_size - 1)

(* Each block is deleted exactly once, and through the pointer new[] gave: *)
(* out of Encode the member pointer is rewound, and it is nullptr when the *)
(* block is gone, a failed or empty call and the destructor included.      *)
ReleasedOnce ==
  /\ heap = IF allocated /\ pc # "destroyed" THEN 1 ELSE 0
  /\ pc # "loop" /\ allocated => encode_buffer = 0

(* What Encode returns is the canonical, terminated base 64 of its         *)
(* payload: the decoding of RFC 4648 gives back each byte of it.           *)
ResultDecodes ==
  pc = "idle" /\ allocated =>
    /\ DOMAIN block = 0..EncodedSize(a_size)
    /\ block[EncodedSize(a_size)] = Nul
    /\ Canonical(block, a_size)
    /\ \A j \in 0..(a_size - 1) : DecodedByte(block, j) = a_payload[j]
-----------------------------------------------------------------------------
(***************************************************************************)
(* The inductive invariant: after k quanta the two pointers are at 3k and  *)
(* 4k, and every complete quantum behind them decodes.                     *)
(***************************************************************************)
LoopOK ==
  pc = "loop" =>
    /\ allocated
    /\ a_size > 0
    /\ out_size = EncodedSize(a_size) + 1
    /\ in_data + in_size = a_size
    /\ encode_buffer = EncodedSize(in_data)
    /\ in_size > 0 => in_data % 3 = 0

\* The part of Canonical and of the decoding that "done" bytes account for.
DecodesUpTo(text, payload, done) ==
  /\ Canonical(text, done)
  /\ \A j \in 0..(done - 1) : DecodedByte(text, j) = payload[j]

IInv ==
  /\ TypeOK
  /\ ReleasedOnce
  /\ LoopOK
  /\ pc = "loop" => DecodesUpTo(block, a_payload, in_data)
  /\ pc = "idle" /\ allocated =>
       /\ out_size = EncodedSize(a_size) + 1
       /\ block[out_size - 1] = Nul
       /\ DecodesUpTo(block, a_payload, a_size)
=============================================================================
