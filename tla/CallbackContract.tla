-------------------------- MODULE CallbackContract --------------------------
(***************************************************************************)
(* What a connection promises the application that installs callbacks on   *)
(* it: which callback may start when, and inside which other one.          *)
(*   - on_open is the first callback of a connection that opens, and comes *)
(*     once; on_message and a peer's Close come only after it, and never   *)
(*     inside another callback;                                            *)
(*   - on_backpressure and on_drain alternate, and on_backpressure comes   *)
(*     only while the connection is open;                                  *)
(*   - the connection becomes Closed together with an on_close, and is     *)
(*     dropped only after that on_close has returned; then nothing comes.  *)
(* Connection.tla is shown to implement this specification.                *)
(***************************************************************************)
EXTENDS Sequences

VARIABLES
  phase,      \* Handshaking, Open, Closing or Closed
  callbacks,  \* the callbacks in progress, innermost first
  congested,  \* on_backpressure was called and on_drain was not
  gone        \* the server has dropped the connection

vars == <<phase, callbacks, congested, gone>>

Init ==
  /\ phase = "Handshaking"
  /\ callbacks = <<>>
  /\ congested = FALSE
  /\ gone = FALSE

Enter(label) == ~gone /\ callbacks' = <<label>> \o callbacks

Quiet == callbacks = <<>>

Open ==
  /\ Quiet /\ Enter("on_open")
  /\ phase = "Handshaking" /\ phase' = "Open"
  /\ UNCHANGED <<congested, gone>>

(* Data that was buffered when the application closed is still delivered. *)
Message ==
  /\ Quiet /\ Enter("on_message")
  /\ phase # "Handshaking"
  /\ UNCHANGED <<phase, congested, gone>>

CloseFrame ==
  /\ Quiet /\ Enter("on_close_frame")
  /\ phase # "Handshaking"
  /\ UNCHANGED <<phase, congested, gone>>

Congest ==
  /\ Enter("on_backpressure")
  /\ phase = "Open" /\ ~congested
  /\ congested' = TRUE
  /\ UNCHANGED <<phase, gone>>

Drain ==
  /\ Quiet /\ Enter("on_drain")
  /\ congested /\ congested' = FALSE
  /\ UNCHANGED <<phase, gone>>

StartClosing ==
  /\ ~gone
  /\ phase = "Open" /\ phase' = "Closing"
  /\ UNCHANGED <<callbacks, congested, gone>>

(* An open connection is not closed at once, except by the peer. *)
Close ==
  /\ Enter("on_closed")
  /\ phase \in {"Handshaking", "Closing"} /\ phase' = "Closed"
  /\ UNCHANGED <<congested, gone>>

(* on_close(conn, false) is always followed by on_close(conn, true). *)
CloseAfterFrame ==
  /\ ~Quiet /\ Head(callbacks) = "on_close_frame"
  /\ callbacks' = <<"on_closed">> \o Tail(callbacks)
  /\ phase' = "Closed"
  /\ UNCHANGED <<congested, gone>>

Return ==
  /\ ~Quiet /\ Head(callbacks) # "on_close_frame"
  /\ callbacks' = Tail(callbacks)
  /\ UNCHANGED <<phase, congested, gone>>

Drop ==
  /\ Quiet /\ phase = "Closed"
  /\ gone' = TRUE
  /\ UNCHANGED <<phase, callbacks, congested>>

Next ==
  \/ Open \/ Message \/ CloseFrame
  \/ Congest \/ Drain
  \/ StartClosing \/ Close \/ CloseAfterFrame
  \/ Return \/ Drop

Spec == Init /\ [][Next]_vars

=============================================================================
