---------------------------- MODULE MCConnection ----------------------------
(* A scaled-down connection: buffers of a few bytes, so that the parser,   *)
(* the handshake's peek and the watermarks meet their limits within a few  *)
(* frames.                                                                 *)
EXTENDS Connection

Bytes(op, header, payload) == [op |-> op, header |-> header, payload |-> payload]

(* A request that fits the peek and one that is not an upgrade; in the     *)
(* second set, one that is longer than the peek and never completes.       *)
MCRequest == {Bytes("upgrade", 2, 0), Bytes("malformed", 2, 0)}
MCLongRequest == {Bytes("upgrade", 2, 0), Bytes("upgrade", 4, 0)}

(* A message and the control frames; in the second set, a message that     *)
(* exceeds rx_buffer_ and a frame that the parser skips.                   *)
MCFrame == {Bytes("message", 1, 1), Bytes("close", 1, 1), Bytes("ping", 1, 2)}
MCOddFrame == {Bytes("message", 1, 1), Bytes("message", 2, 9),
               Bytes("close", 2, 1), Bytes("other", 1, 0)}

=============================================================================
