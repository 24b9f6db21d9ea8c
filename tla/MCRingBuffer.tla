---------------------------- MODULE MCRingBuffer ----------------------------
(* A small ring buffer for TLC: byte strings up to one longer than the     *)
(* buffer, so that pushes fail, wrap and fill it exactly.                  *)
EXTENDS RingBuffer

MCChunk == UNION {[1..n -> Byte] : n \in 0..(Capacity + 1)}
MCCount == 0..(Capacity + 1)

=============================================================================
