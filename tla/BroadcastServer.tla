-------------------------- MODULE BroadcastServer --------------------------
(***************************************************************************)
(* The callbacks that examples/broadcast_server.cpp installs, run by       *)
(* connections that do whatever CallbackContract allows: a step of a       *)
(* connection is a step of the contract, and the callback it starts is     *)
(* what the example does in it.  The library has one thread, so the mutex  *)
(* of the example is never contended, and while a callback runs only the   *)
(* connections that it sends to move.                                      *)
(***************************************************************************)
EXTENDS Integers, Sequences

CONSTANTS
  Client,       \* the connections, one per client
  MaxMessages   \* bound: messages received

ASSUME BroadcastAssumption == MaxMessages \in Nat

VARIABLES
  (* The connections, as CallbackContract sees them. *)
  phase, callbacks, congested, gone,
  broadcast_list,  \* of each connection: the weak pointers to it in the list, whose
                   \* order decides only the order in which send() is called
  (* History. *)
  audience,        \* of each message: the open connections with room for it
  received         \* of each connection: the messages sent to it

connVars == <<phase, callbacks, congested, gone>>
vars == <<connVars, broadcast_list, audience, received>>

Contract(c) == INSTANCE CallbackContract
  WITH phase <- phase[c], callbacks <- callbacks[c], congested <- congested[c],
       gone <- gone[c]

Init ==
  /\ phase = [c \in Client |-> "Handshaking"]
  /\ callbacks = [c \in Client |-> <<>>]
  /\ congested = [c \in Client |-> FALSE]
  /\ gone = [c \in Client |-> FALSE]
  /\ broadcast_list = [c \in Client |-> 0]
  /\ audience = <<>> /\ received = [c \in Client |-> {}]

Idle == \A c \in Client : callbacks[c] = <<>>

-----------------------------------------------------------------------------
(* The callbacks of the example. *)

on_connect(c) ==
  /\ broadcast_list' = [broadcast_list EXCEPT ![c] = @ + 1]
  /\ UNCHANGED <<audience, received>>

(* lock() fails for a connection that the server has dropped, send() does  *)
(* nothing unless the connection is open, and a full tx_buffer_ loses the  *)
(* message.                                                                *)
Reached(full) ==
  {d \in Client : /\ broadcast_list[d] > 0 /\ ~gone[d]
                  /\ phase[d] = "Open" /\ d \notin full}

on_message(full) ==
  /\ Len(audience) < MaxMessages
  /\ audience' = Append(audience, {d \in Client : phase[d] = "Open" /\ d \notin full})
  /\ received' = [d \in Client |-> received[d] \cup
                    (IF d \in Reached(full) THEN {Len(audience) + 1} ELSE {})]
  /\ UNCHANGED broadcast_list

(* Mutant: pointers that have expired are removed, and nothing else. *)
RemoveExpired(c) ==
  [d \in Client |-> IF gone[d] THEN 0 ELSE broadcast_list[d]]

(* Mutant: the comparison is the wrong way round. *)
RemoveOthers(c) ==
  [d \in Client |-> IF gone[d] \/ d # c THEN 0 ELSE broadcast_list[d]]

(* The erase of remove_if: ids are unique. *)
Remaining(c) ==
  [d \in Client |-> IF gone[d] \/ d = c THEN 0 ELSE broadcast_list[d]]

on_close(c) ==
  /\ broadcast_list' = Remaining(c)
  /\ UNCHANGED <<audience, received>>

NoHandler == UNCHANGED <<broadcast_list, audience, received>>

-----------------------------------------------------------------------------
(* The next state of connection c; the contract says which one it may be. *)
Moves(c, p, stack, dropped) ==
  /\ phase' = [phase EXCEPT ![c] = p]
  /\ callbacks' = [callbacks EXCEPT ![c] = stack]
  /\ gone' = [gone EXCEPT ![c] = dropped]
  /\ UNCHANGED congested

Opens(c) ==
  Idle /\ Moves(c, "Open", <<"on_open">>, FALSE) /\ Contract(c)!Open /\ on_connect(c)

Receives(c, full) ==
  /\ Idle /\ Moves(c, phase[c], <<"on_message">>, FALSE) /\ Contract(c)!Message
  /\ on_message(full)

(* A peer's Close and the transition to Closed both call on_close. *)
GetsCloseFrame(c) ==
  /\ Idle /\ Moves(c, phase[c], <<"on_close_frame">>, FALSE) /\ Contract(c)!CloseFrame
  /\ on_close(c)

ClosesAfterFrame(c) ==
  Moves(c, "Closed", <<"on_closed">>, FALSE) /\ Contract(c)!CloseAfterFrame /\ on_close(c)

Closes(c) ==
  /\ Idle /\ Moves(c, "Closed", <<"on_closed">>, FALSE) /\ Contract(c)!Close
  /\ on_close(c)

Returns(c) ==
  /\ callbacks[c] # <<>> /\ Moves(c, phase[c], Tail(callbacks[c]), FALSE)
  /\ Contract(c)!Return
  /\ NoHandler

(* The server closes a connection on an error; the example calls no close(). *)
StartsClosing(c) ==
  Idle /\ Moves(c, "Closing", <<>>, gone[c]) /\ Contract(c)!StartClosing /\ NoHandler

(* The example installs neither on_backpressure nor on_drain. *)
Congests(c) ==
  /\ callbacks' = [callbacks EXCEPT ![c] = <<"on_backpressure">> \o @]
  /\ congested' = [congested EXCEPT ![c] = TRUE]
  /\ UNCHANGED <<phase, gone>>
  /\ ~Idle /\ Contract(c)!Congest
  /\ NoHandler

Drains(c) ==
  /\ callbacks' = [callbacks EXCEPT ![c] = <<"on_drain">>]
  /\ congested' = [congested EXCEPT ![c] = FALSE]
  /\ UNCHANGED <<phase, gone>>
  /\ Idle /\ Contract(c)!Drain
  /\ NoHandler

Dropped(c) == Idle /\ Moves(c, phase[c], <<>>, TRUE) /\ Contract(c)!Drop /\ NoHandler

Next ==
  \E c \in Client :
    \/ Opens(c)
    \/ \E full \in SUBSET Client : Receives(c, full)
    \/ GetsCloseFrame(c) \/ ClosesAfterFrame(c) \/ Closes(c)
    \/ Returns(c) \/ Congests(c) \/ Drains(c) \/ StartsClosing(c) \/ Dropped(c)

Spec == Init /\ [][Next]_vars

-----------------------------------------------------------------------------
InService == {c \in Client : phase[c] \in {"Open", "Closing"}}

(* Between callbacks the broadcast list has every connection that is open  *)
(* or closing, once, and no other: none that has expired, and none that    *)
(* closed without ever opening or whose on_close came twice.               *)
ListIsInService ==
  Idle => \A c \in Client : broadcast_list[c] = IF c \in InService THEN 1 ELSE 0

(* A message reaches every connection that is open when it is broadcast    *)
(* and has room for it in its transmit buffer, and no other.               *)
AudienceReached ==
  \A c \in Client : received[c] = {m \in DOMAIN audience : c \in audience[m]}

=============================================================================
