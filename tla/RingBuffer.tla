----------------------------- MODULE RingBuffer -----------------------------
(***************************************************************************)
(* RingBuffer<T, Size> of ewss.hpp: a fixed array, a read index, a write   *)
(* index and a count.  push/peek/advance copy bytes; fill_iovec and        *)
(* fill_iovec_write describe the array to writev and readv, so that the    *)
(* kernel reads and writes it in place.  The buffer belongs to one thread: *)
(* every member function is one atomic action here.                        *)
(***************************************************************************)
EXTENDS Integers, Sequences

CONSTANTS
  Capacity,   \* kCapacity: 4096 for rx_buffer_, 8192 for tx_buffer_
  Byte,       \* the values of T
  Chunk,      \* the byte strings users push and the peer sends
  Count       \* the lengths and iovec counts users pass

ASSUME RingAssumption ==
  /\ Capacity \in Nat \ {0}
  /\ 0 \in Byte
  /\ Chunk \subseteq Seq(Byte)
  /\ Count \subseteq Nat

VARIABLES
  buffer,     \* buffer_: the array
  read_idx,   \* read_idx_: slot of the oldest unread byte
  write_idx,  \* write_idx_: slot the next byte goes to
  count,      \* count_: number of unread bytes
  ret         \* the last call, its count, its success, and the bytes
              \* that it was given or that it returned

ring == <<buffer, read_idx, write_idx, count>>
vars == <<buffer, read_idx, write_idx, count, ret>>

Slot == 0..(Capacity - 1)

Returned(op, n, ok, data) == [op |-> op, n |-> n, ok |-> ok, data |-> data]

Least(m, n) == IF m <= n THEN m ELSE n

Available == Capacity - count

(* buffer_{} zero-initialises the array. *)
Init ==
  /\ buffer = [i \in Slot |-> 0]
  /\ read_idx = 0
  /\ write_idx = 0
  /\ count = 0
  /\ ret = Returned("clear", 0, TRUE, <<>>)

-----------------------------------------------------------------------------
(* push: one byte per slot from write_idx_ on, wrapping at the end. *)
Stored(data) ==
  [i \in Slot |-> LET k == (i - write_idx) % Capacity
                  IN  IF k < Len(data) THEN data[k + 1] ELSE buffer[i]]

Push(data) ==
  IF Available < Len(data)
  THEN UNCHANGED ring /\ ret' = Returned("push", 0, FALSE, data)
  ELSE /\ buffer' = Stored(data)
       /\ write_idx' = (write_idx + Len(data)) % Capacity
       /\ count' = count + Len(data)
       /\ read_idx' = read_idx
       /\ ret' = Returned("push", 0, TRUE, data)

(* The bytes peek copies out: at most n of them, from read_idx_ on. *)
Peeked(n) ==
  [k \in 1..Least(n, count) |-> buffer[(read_idx + k - 1) % Capacity]]

Peek(n) == UNCHANGED ring /\ ret' = Returned("peek", n, TRUE, Peeked(n))

(* Mutant: the read index does not wrap. *)
AdvanceUnwrapped(n) ==
  LET len == Least(n, count)
  IN  /\ read_idx' = read_idx + len
      /\ count' = count - len
      /\ UNCHANGED <<buffer, write_idx>>
      /\ ret' = Returned("advance", n, TRUE, <<>>)

Advance(n) ==
  LET len == Least(n, count)
  IN  /\ read_idx' = (read_idx + len) % Capacity
      /\ count' = count - len
      /\ UNCHANGED <<buffer, write_idx>>
      /\ ret' = Returned("advance", n, TRUE, <<>>)

(* Mutant: the write index is forgotten. *)
ClearKeepsWriteIndex ==
  /\ read_idx' = 0
  /\ count' = 0
  /\ UNCHANGED <<buffer, write_idx>>
  /\ ret' = Returned("clear", 0, TRUE, <<>>)

Clear ==
  /\ read_idx' = 0
  /\ write_idx' = 0
  /\ count' = 0
  /\ buffer' = buffer
  /\ ret' = Returned("clear", 0, TRUE, <<>>)

-----------------------------------------------------------------------------
(* The iovecs that describe `total` slots from `start` on: one when they   *)
(* are contiguous, two when they wrap, the first one only when the caller  *)
(* has room for a single iovec.                                            *)
Segments(start, total, max_iov) ==
  LET contiguous == Capacity - start
      seg(base, len) == [base |-> base, len |-> len]
  IN  IF total = 0 \/ max_iov = 0 THEN <<>>
      ELSE IF contiguous >= total THEN << seg(start, total) >>
      ELSE IF max_iov < 2 THEN << seg(start, contiguous) >>
      ELSE << seg(start, contiguous), seg(0, total - contiguous) >>

FillIovec(max_iov) == Segments(read_idx, count, max_iov)

(* Mutants: the free slots are looked for at the read index; the two       *)
(* iovecs come in the wrong order.                                         *)
FillIovecWriteFromRead(max_iov) == Segments(read_idx, Available, max_iov)

FillIovecWriteSwapped(max_iov) ==
  LET iov == Segments(write_idx, Available, max_iov)
  IN  IF Len(iov) = 2 THEN <<iov[2], iov[1]>> ELSE iov

FillIovecWrite(max_iov) == Segments(write_idx, Available, max_iov)

(* The bytes writev gathers from the iovecs, in iovec order. *)
SegmentBytes(seg) == [k \in 1..seg.len |-> buffer[seg.base + k - 1]]

Gathered(iov) ==
  IF iov = <<>> THEN <<>>
  ELSE IF Len(iov) = 1 THEN SegmentBytes(iov[1])
  ELSE SegmentBytes(iov[1]) \o SegmentBytes(iov[2])

(* read_ptr exposes what a single iovec would; no pointer when empty. *)
Expose(n) ==
  LET iov == FillIovec(n)
  IN  UNCHANGED ring /\ ret' = Returned("expose", n, iov # <<>>, Gathered(iov))

ReadPtr == Expose(1)

(* readv fills the iovecs in order: the position in the data, from 1, of   *)
(* the byte that slot i receives; 0 when no iovec covers the slot.         *)
Position(iov, i) ==
  IF i \in iov[1].base..(iov[1].base + iov[1].len - 1)
  THEN i - iov[1].base + 1
  ELSE IF Len(iov) = 2 /\ i \in iov[2].base..(iov[2].base + iov[2].len - 1)
       THEN iov[1].len + i - iov[2].base + 1
       ELSE 0

Scattered(iov, data) ==
  [i \in Slot |-> IF Position(iov, i) \in 1..Len(data)
                  THEN data[Position(iov, i)] ELSE buffer[i]]

(* fill_iovec_write(iov, 2), a readv that returns Len(data) > 0 bytes and  *)
(* commit_write of that length: the receive path of handle_read.           *)
Receive(data) ==
  LET iov == FillIovecWrite(2)
      len == Least(Len(data), Available)
  IN  /\ iov # <<>>
      /\ Len(data) \in 1..Available
      /\ buffer' = Scattered(iov, data)
      /\ write_idx' = (write_idx + len) % Capacity
      /\ count' = count + len
      /\ read_idx' = read_idx
      /\ ret' = Returned("receive", 0, TRUE, data)

Next ==
  \/ \E data \in Chunk : Push(data)
  \/ \E data \in Chunk : Receive(data)
  \/ \E n \in Count : Peek(n)
  \/ \E n \in Count : Expose(n)
  \/ ReadPtr
  \/ \E n \in Count : Advance(n)
  \/ Clear

Spec == Init /\ [][Next]_vars

-----------------------------------------------------------------------------
Operation == {"push", "receive", "peek", "expose", "advance", "clear"}
Call == [op : Operation, n : Nat, ok : BOOLEAN, data : Seq(Byte)]

(* Types of the members: the indices are slots, the count fits the array.  *)
TypeOK ==
  /\ buffer \in [Slot -> Byte]
  /\ read_idx \in Slot
  /\ write_idx \in Slot
  /\ count \in 0..Capacity
  /\ ret \in Call

(* The three members never disagree: the write index is the read index     *)
(* plus the count, whatever sequence of pushes, receives, advances and     *)
(* clears the callers make and wherever they wrap.                         *)
IndicesAgree == write_idx = (read_idx + count) % Capacity

Covered(iov) ==
  UNION {iov[j].base..(iov[j].base + iov[j].len - 1) : j \in DOMAIN iov}

(* Zero-copy safety: the slots offered to readv and the slots exposed to   *)
(* writev never overlap, and together they are the whole array, so a       *)
(* receive cannot overwrite unread bytes and no free slot is lost.         *)
IovecsPartition ==
  /\ Covered(FillIovec(2)) \cap Covered(FillIovecWrite(2)) = {}
  /\ Covered(FillIovec(2)) \cup Covered(FillIovecWrite(2)) = Slot

(* The unread bytes, oldest first: the refinement mapping. *)
Content == [k \in 1..count |-> buffer[(read_idx + k - 1) % Capacity]]

Queue == INSTANCE ByteQueue WITH queue <- Content

(* The ring buffer implements the bounded FIFO queue: every operation      *)
(* returns the bytes, and leaves the bytes, that the queue would.          *)
ImplementsQueue == Queue!Spec

=============================================================================
