-------------------------------- MODULE Sha1 --------------------------------
(***************************************************************************)
(* SHA1 of ewss.hpp as a stream: bytes collect in a block buffer, full     *)
(* blocks are compressed, and finalize pads.  The compression itself is    *)
(* not modelled: the digest is a function of the bytes it was given, in    *)
(* order, and those are what `hashed` records.                             *)
(* The code has BlockLen = 64 and CountLen = 8.                            *)
(***************************************************************************)
EXTENDS Integers, Sequences

CONSTANTS
  BlockLen,    \* bytes of a block
  CountLen,    \* bytes of the bit count at the end of the last block
  Text         \* bytes; every prefix of them is a message

ASSUME Sha1Assumption ==
  /\ BlockLen \in Nat /\ CountLen \in Nat /\ CountLen < BlockLen
  /\ Text \in Seq(0..255)

VARIABLES
  block,        \* buffer_
  buf_pos,      \* buf_pos_
  total_bytes,  \* total_bytes_
  hashed,       \* every byte given to process_block
  message,      \* history: the bytes passed to update
  digested      \* finalize has returned

shaVars == <<block, buf_pos, total_bytes, hashed, message, digested>>

Position == 0..(BlockLen - 1)
CountAt == BlockLen - CountLen

ShaInit ==
  /\ block = [k \in Position |-> 0]
  /\ buf_pos = 0 /\ total_bytes = 0
  /\ hashed = <<>> /\ message = <<>> /\ digested = FALSE

process_block(buf) == [k \in 1..BlockLen |-> buf[k - 1]]

(* One byte of update: how the caller cuts its data makes no difference. *)
update(b) ==
  /\ ~digested
  /\ block' = [block EXCEPT ![buf_pos] = b]
  /\ total_bytes' = total_bytes + 1
  /\ \/ /\ buf_pos + 1 = BlockLen
        /\ hashed' = hashed \o process_block(block')
        /\ buf_pos' = 0
     \/ /\ buf_pos + 1 # BlockLen
        /\ buf_pos' = buf_pos + 1
        /\ UNCHANGED hashed
  /\ message' = Append(message, b)
  /\ UNCHANGED digested

ZeroFrom(buf, from, to) == [k \in Position |-> IF from <= k /\ k < to THEN 0 ELSE buf[k]]

(* The number of bits, most significant byte first. *)
LengthField(bytes) ==
  LET shifted[i \in 1..CountLen] ==
        IF i = CountLen THEN 8 * bytes ELSE shifted[i + 1] \div 256
  IN  [i \in 1..CountLen |-> shifted[i] % 256]

WithCount(buf) ==
  [k \in Position |-> IF k < CountAt THEN buf[k] ELSE LengthField(total_bytes)[k - CountAt + 1]]

(* Mutant: a last block of exactly CountAt bytes gets no room for the mark. *)
FinalizeOneLate ==
  /\ ~digested /\ digested' = TRUE
  /\ LET marked == [block EXCEPT ![buf_pos] = 128]
         pos == buf_pos + 1
         extra == pos > CountAt + 1
         last == IF extra THEN ZeroFrom(ZeroFrom(marked, pos, BlockLen), 0, CountAt)
                 ELSE ZeroFrom(marked, pos, CountAt)
     IN  hashed' = hashed
           \o (IF extra THEN process_block(ZeroFrom(marked, pos, BlockLen)) ELSE <<>>)
           \o process_block(WithCount(last))
  /\ buf_pos' = CountAt
  /\ UNCHANGED <<block, total_bytes, message>>

(* A mark, then zeros, in a block of their own if the count does not fit   *)
(* behind the mark.                                                        *)
finalize ==
  /\ ~digested /\ digested' = TRUE
  /\ LET marked == [block EXCEPT ![buf_pos] = 128]
         pos == buf_pos + 1
         extra == pos > CountAt
         filled == ZeroFrom(marked, pos, BlockLen)
         last == IF extra THEN WithCount(ZeroFrom(filled, 0, CountAt))
                 ELSE WithCount(ZeroFrom(marked, pos, CountAt))
     IN  /\ hashed' = hashed \o (IF extra THEN process_block(filled) ELSE <<>>)
                             \o process_block(last)
         /\ block' = last
  /\ buf_pos' = CountAt
  /\ UNCHANGED <<total_bytes, message>>

ShaNext ==
  \/ Len(message) < Len(Text) /\ update(Text[Len(message) + 1])
  \/ finalize

ShaSpec == ShaInit /\ [][ShaNext]_shaVars

-----------------------------------------------------------------------------
(* FIPS 180-4, 5.1.1: a mark, the fewest zeros that end a block with the   *)
(* count, and the count.                                                   *)
PaddedTo(m, zeros) ==
  m \o <<128>> \o [k \in 1..zeros |-> 0] \o LengthField(Len(m))

IsPaddingOf(padded, m) ==
  \E zeros \in 0..(BlockLen - 1) :
    /\ (Len(m) + 1 + zeros + CountLen) % BlockLen = 0
    /\ padded = PaddedTo(m, zeros)

(* What is compressed is the message, in order, and after finalize exactly *)
(* its padded form, whatever is left of the last block.                    *)
HashesPaddedMessage ==
  IF digested THEN IsPaddingOf(hashed, message)
  ELSE hashed \o [k \in 1..buf_pos |-> block[k - 1]] = message

=============================================================================
