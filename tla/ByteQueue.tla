----------------------------- MODULE ByteQueue -----------------------------
(***************************************************************************)
(* What a RingBuffer promises its users: a FIFO queue of at most Capacity  *)
(* bytes.  `queue` holds the unread bytes in the order they were written   *)
(* and `ret` the last operation: its arguments and what it handed back.    *)
(* RingBuffer.tla is the detailed specification, shown to implement it.    *)
(***************************************************************************)
EXTENDS Integers, Sequences

CONSTANTS
  Capacity,   \* kCapacity, the number of bytes the queue can hold
  Byte,       \* the values of a byte
  Chunk,      \* the byte strings users write
  Count       \* the lengths users ask for

VARIABLES
  queue,      \* the unread bytes, oldest first
  ret         \* the last operation, its count, its success, and the bytes
              \* that it was given or that it returned

vars == <<queue, ret>>

Returned(op, n, ok, data) == [op |-> op, n |-> n, ok |-> ok, data |-> data]

Least(m, n) == IF m <= n THEN m ELSE n

Init ==
  /\ queue = <<>>
  /\ ret = Returned("clear", 0, TRUE, <<>>)

(* All of data is queued, or nothing is and the caller is told so. *)
Push(data) ==
  \/ /\ Len(queue) + Len(data) <= Capacity
     /\ queue' = queue \o data
     /\ ret' = Returned("push", 0, TRUE, data)
  \/ /\ Len(queue) + Len(data) > Capacity
     /\ queue' = queue
     /\ ret' = Returned("push", 0, FALSE, data)

(* The oldest n bytes, or all of them when there are fewer; none is consumed. *)
Peek(n) ==
  /\ queue' = queue
  /\ ret' = Returned("peek", n, TRUE, SubSeq(queue, 1, Least(n, Len(queue))))

(* Any stretch of oldest bytes, empty only when the queue is or the caller *)
(* offers no room: what read_ptr and fill_iovec expose.                    *)
Expose(n) ==
  /\ queue' = queue
  /\ \E k \in 0..Len(queue) :
       /\ k = 0 => n = 0 \/ queue = <<>>
       /\ n >= 2 => k = Len(queue)
       /\ ret' = Returned("expose", n, k > 0, SubSeq(queue, 1, k))

(* The oldest n bytes are consumed, or all of them when there are fewer. *)
Advance(n) ==
  /\ queue' = SubSeq(queue, Least(n, Len(queue)) + 1, Len(queue))
  /\ ret' = Returned("advance", n, TRUE, <<>>)

(* The kernel delivers data, never more than there is room for. *)
Receive(data) ==
  /\ Len(data) > 0
  /\ Len(queue) + Len(data) <= Capacity
  /\ queue' = queue \o data
  /\ ret' = Returned("receive", 0, TRUE, data)

Clear ==
  /\ queue' = <<>>
  /\ ret' = Returned("clear", 0, TRUE, <<>>)

Next ==
  \/ \E data \in Chunk : Push(data) \/ Receive(data)
  \/ \E n \in Count : Peek(n) \/ Expose(n) \/ Advance(n)
  \/ Expose(1)
  \/ Clear

Spec == Init /\ [][Next]_vars

=============================================================================
