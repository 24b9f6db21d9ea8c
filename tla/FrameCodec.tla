----------------------------- MODULE FrameCodec -----------------------------
(***************************************************************************)
(* The frame header of ewss.hpp, namespace ws, byte by byte: two bytes,    *)
(* then a length of two or of eight bytes when the seven bits of the       *)
(* second byte say so, then a mask key when its top bit is set.            *)
(* Sizes are parameters so that all three forms stay short:                *)
(* the code has Half = 128, OpCodes = 16, LongLen = 8 and MaskLen = 4.     *)
(***************************************************************************)
EXTENDS Integers, Sequences

CONSTANTS
  Half,      \* value of a byte's top bit
  OpCodes,   \* an opcode is a byte modulo OpCodes
  LongLen,   \* bytes of the longest length field, and of a size_t
  MaskLen    \* bytes of a mask key

ASSUME CodecAssumption ==
  /\ Half \in Nat /\ Half > 2
  /\ OpCodes \in 1..Half /\ Half % OpCodes = 0
  /\ LongLen \in Nat /\ LongLen > 2
  /\ MaskLen \in Nat \ {0}

Base == 2 * Half
Byte == 0..(Base - 1)

(* The two values of the seven bits that announce a length field. *)
Code16 == Half - 2
Code64 == Half - 1

(* size_t and uint64_t wrap here: after LongLen bytes. *)
SizeWrap ==
  LET power[k \in 0..LongLen] == IF k = 0 THEN 1 ELSE power[k - 1] * Base
  IN  power[LongLen]

(* Mutant: least significant byte first. *)
LittleEndian(n, len) ==
  LET shifted[k \in 0..len] == IF k = 0 THEN n ELSE shifted[k - 1] \div Base
  IN  [i \in 1..len |-> shifted[i - 1] % Base]

(* The shifts of the encoder, most significant byte first. *)
BigEndian(n, len) ==
  LET shifted[k \in 0..len] == IF k = 0 THEN n ELSE shifted[k - 1] \div Base
  IN  [i \in 1..len |-> shifted[len - i] % Base]

(* The shifts of the parser. *)
Number(bytes) ==
  LET value[k \in 0..Len(bytes)] ==
        IF k = 0 THEN 0 ELSE (value[k - 1] * Base + bytes[k]) % SizeWrap
  IN  value[Len(bytes)]

(* Mutant: a length of 126 goes into the seven bits. *)
EncodeHeaderAt126(op, n, mask) ==
  LET top == IF mask THEN Half ELSE 0
  IN  <<Half + op>> \o (IF n <= Code16 THEN <<top + n>>
                        ELSE IF n < Base * Base THEN <<top + Code16>> \o BigEndian(n, 2)
                        ELSE <<top + Code64>> \o BigEndian(n, LongLen))

encode_frame_header(op, n, mask) ==
  LET top == IF mask THEN Half ELSE 0
      length == IF n < Code16 THEN <<top + n>>
                ELSE IF n < Base * Base THEN <<top + Code16>> \o BigEndian(n, 2)
                ELSE <<top + Code64>> \o BigEndian(n, LongLen)
  IN  <<Half + op>> \o length

(* With mask set, it sets the bit and writes no key. *)
encode_frame(op, payload, mask) ==
  encode_frame_header(op, Len(payload), mask) \o payload

(* Bytes of the length field that the seven bits announce. *)
Extension(code) == IF code = Code16 THEN 2 ELSE IF code = Code64 THEN LongLen ELSE 0

HeaderSize(second) ==
  2 + Extension(second % Half) + (IF second >= Half THEN MaskLen ELSE 0)

Incomplete == [size |-> 0]

(* The size returned is 0 until the whole header is there. *)
parse_frame_header(data) ==
  IF Len(data) < 2 \/ Len(data) < HeaderSize(data[2]) THEN Incomplete
  ELSE LET code == data[2] % Half
           ext == Extension(code)
       IN  [size |-> HeaderSize(data[2]),
            fin |-> data[1] >= Half,
            opcode |-> data[1] % OpCodes,
            masked |-> data[2] >= Half,
            payload_len |-> IF ext = 0 THEN code ELSE Number(SubSeq(data, 3, 2 + ext))]

=============================================================================
