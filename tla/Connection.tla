----------------------------- MODULE Connection -----------------------------
(***************************************************************************)
(* One Connection of ewss.hpp, driven by the reactor of Server::run: the   *)
(* state machine Handshaking, Open, Closing, Closed; the receive and the   *)
(* transmit buffer as byte counts (RingBuffer.tla has their contents); the *)
(* parser loop; backpressure; and the application's callbacks, which run   *)
(* in the middle of the library's functions and may call send() and        *)
(* close() on the very connection that called them.                        *)
(*                                                                         *)
(* A library function runs to completion except where it calls the         *)
(* application: `callbacks` is the stack of callbacks in progress and `io` *)
(* what handle_read or handle_write still has to do when it is empty.      *)
(* `todo` holds what the reactor still has to do in the current pass.      *)
(***************************************************************************)
EXTENDS Integers, Sequences

CONSTANTS
  RxCapacity,     \* kRxBufferSize (4096)
  TxCapacity,     \* kTxBufferSize (8192)
  PeekLen,        \* how much parse_handshake and closing_on_data peek (1024)
  ResponseLen,    \* length of the 101 response
  Request,        \* the upgrade requests the peer may send
  Frame,          \* the frames the peer may send
  SendLen,        \* the payload lengths the application sends
  PeerWaits,      \* the peer sends no frame before it has the 101 response
  MaxItems,       \* bound: requests and frames the peer sends
  MaxCalls        \* bound: send() and close() calls of the application

Item == Request \cup Frame

(* Whole length on the wire; a request is all header. *)
Size(item) == item.header + item.payload

ASSUME ConnectionAssumption ==
  /\ RxCapacity \in Nat \ {0} /\ TxCapacity \in Nat \ {0} /\ PeekLen \in Nat
  /\ ResponseLen \in 1..TxCapacity
  /\ \A item \in Item : item.header \in Nat \ {0} /\ item.payload \in Nat
  /\ \A item \in Request : item.op \in {"upgrade", "malformed"} /\ item.payload = 0
  /\ \A item \in Frame : item.op \in {"message", "close", "ping", "other"}
  /\ SendLen \subseteq Nat
  /\ PeerWaits \in BOOLEAN
  /\ MaxItems \in Nat /\ MaxCalls \in Nat

kTxHighWatermark == (TxCapacity * 3) \div 4
kTxLowWatermark == TxCapacity \div 4

VARIABLES
  (* The peer and the kernel's socket. *)
  inbox,      \* what the peer has sent and the parser has not consumed
  netLen,     \* how many of inbox's bytes still wait in the kernel
  peer,       \* "up", "eof" (it has shut down) or "reset"
  items,      \* how many items the peer has sent
  (* The connection. *)
  state,      \* ops_->state
  sockOpen,   \* socket_.is_open()
  rxLen,      \* rx_buffer_.size(): inbox's first bytes
  txLen,      \* tx_buffer_.size()
  response,   \* how many bytes of the 101 response are still in tx_buffer_
  paused,     \* write_paused_
  late,       \* more than 5 s since created_at_ or, when Closing, closing_at_
  err,        \* last_error_code_
  callbacks,  \* callbacks in progress, innermost first
  io,         \* "idle", "parse" (in the loop of parse_frames) or "return"
  (* The reactor and the application. *)
  todo,       \* stages of the current pass of Server::run, next one first
  removed,    \* the server has dropped the connection
  calls,      \* send() and close() calls made
  (* History. *)
  sent,       \* frames put in tx_buffer_: opcode, and was the payload stored
  opens,      \* calls of on_open
  closes      \* calls of on_close

net == <<inbox, netLen, peer, items>>
tx == <<txLen, response, sent>>
hist == <<opens, closes>>
reactor == <<todo, removed, calls>>
vars == <<net, tx, hist, reactor, state, sockOpen, rxLen, paused, late, err,
          callbacks, io>>

Init ==
  /\ inbox = <<>> /\ netLen = 0 /\ peer = "up" /\ items = 0
  /\ state = "Handshaking" /\ sockOpen = TRUE
  /\ rxLen = 0 /\ txLen = 0 /\ response = 0
  /\ paused = FALSE /\ late = FALSE /\ err = "Ok"
  /\ callbacks = <<>> /\ io = "idle"
  /\ todo = <<>> /\ removed = FALSE /\ calls = 0
  /\ sent = <<>> /\ opens = 0 /\ closes = 0

Least(m, n) == IF m <= n THEN m ELSE n

-----------------------------------------------------------------------------
(* The peer and the clock. *)

(* A peer that waits sends frames only once the whole response was written. *)
PeerSend(item) ==
  /\ peer = "up" /\ items < MaxItems
  /\ item \in Request => items = 0
  /\ item \in Frame => items > 0
  /\ item \in Frame /\ PeerWaits => state # "Handshaking" /\ response = 0
  /\ inbox' = Append(inbox, item)
  /\ netLen' = netLen + Size(item)
  /\ items' = items + 1
  /\ UNCHANGED <<tx, hist, reactor, state, sockOpen, rxLen, paused, late, err,
                 callbacks, io, peer>>

PeerShut ==
  /\ peer = "up" /\ peer' = "eof"
  /\ UNCHANGED <<tx, hist, reactor, state, sockOpen, rxLen, paused, late, err,
                 callbacks, io, inbox, netLen, items>>

(* A reset discards what the kernel had not handed over. *)
PeerReset ==
  /\ peer # "reset" /\ peer' = "reset" /\ netLen' = 0
  /\ UNCHANGED <<tx, hist, reactor, state, sockOpen, rxLen, paused, late, err,
                 callbacks, io, inbox, items>>

(* Five seconds pass. *)
Tick ==
  /\ state \in {"Handshaking", "Closing"} /\ ~late /\ late' = TRUE
  /\ UNCHANGED <<net, tx, hist, reactor, state, sockOpen, rxLen, paused, err,
                 callbacks, io>>

-----------------------------------------------------------------------------
(* Helpers shared by the handlers. *)

(* encode_frame_header: length of the header of an unmasked frame. *)
HeaderLen(n) == IF n < 126 THEN 2 ELSE IF n < 65536 THEN 4 ELSE 10

(* Mutant: the payload is stored without a check that it fits. *)
WriteFrameUnchecked(op, n) ==
  IF TxCapacity - txLen < HeaderLen(n) THEN UNCHANGED tx
  ELSE /\ txLen' = txLen + HeaderLen(n) + n
       /\ sent' = Append(sent, [op |-> op, whole |-> TRUE])
       /\ response' = response

(* The frame is dropped when its header does not fit; when only the        *)
(* payload does not, the header stays in the buffer without it.            *)
write_frame(op, n) ==
  LET room == TxCapacity - txLen
      h == HeaderLen(n)
      whole == n <= room - h
  IN  IF room < h THEN UNCHANGED tx
      ELSE /\ txLen' = txLen + h + (IF whole THEN n ELSE 0)
           /\ sent' = Append(sent, [op |-> op, whole |-> whole])
           /\ response' = response

write_close_frame == write_frame("close", 2)

(* transition_to_state: to Closing it restarts the clock, to Open and to   *)
(* Closed it calls the application.                                        *)
ToOpen ==
  /\ state' = "Open"
  /\ callbacks' = <<"on_open">> \o callbacks
  /\ opens' = opens + 1
  /\ UNCHANGED <<closes, late>>

ToClosing ==
  /\ state' = "Closing" /\ late' = FALSE
  /\ UNCHANGED <<callbacks, hist>>

ToClosed(stack) ==
  /\ state' = "Closed"
  /\ callbacks' = <<"on_closed">> \o stack
  /\ closes' = closes + 1
  /\ UNCHANGED <<opens, late>>

(* Mutant: close() in Closing is the no-op that closing_on_close is. *)
CloseIgnoredInClosing ==
  \/ /\ state \in {"Closing", "Closed"}
     /\ UNCHANGED <<tx, hist, state, late, callbacks>>
  \/ /\ state = "Open" /\ write_close_frame /\ ToClosing
  \/ /\ state = "Handshaking" /\ ToClosed(callbacks) /\ UNCHANGED tx

(* Connection::close.  The socket is closed when on_closed returns. *)
Close ==
  \/ /\ state = "Closed"
     /\ UNCHANGED <<tx, hist, state, late, callbacks>>
  \/ /\ state = "Open"
     /\ write_close_frame
     /\ ToClosing
  \/ /\ state \in {"Handshaking", "Closing"}
     /\ ToClosed(callbacks)
     /\ UNCHANGED tx

(* The first item lies in the first len bytes of rx_buffer_. *)
Arrived(len) == inbox # <<>> /\ Size(Head(inbox)) <= len

(* rx_buffer_.advance over the first item, when len bytes are buffered. *)
Consume(len) ==
  /\ inbox' = Tail(inbox)
  /\ rxLen' = len - Size(Head(inbox))

-----------------------------------------------------------------------------
(* The reactor.  The stages of a pass for this connection: "others" stands *)
(* for the connections before it, then handle_connection_io ("in", "out",  *)
(* "hup"), the timeout sweep, and remove_closed_connections.               *)

AtRest == callbacks = <<>> /\ io = "idle"

Readable == netLen > 0 \/ peer # "up"

(* poll returns with something to do.  It reports what is readable, and    *)
(* may wake up for nothing; it reports writability only when asked to.     *)
(* With no event on this connection, another file descriptor is ready: a   *)
(* poll that times out does nothing at all.                                *)
Poll(in, out) ==
  LET stage(on, label) == IF on THEN <<label>> ELSE <<>>
  IN  /\ AtRest /\ todo = <<>> /\ ~removed
      /\ Readable => in
      /\ out => txLen > 0
      /\ todo' = <<"others">> \o stage(in, "in") \o stage(out, "out")
                   \o stage(peer = "reset", "hup") \o <<"sweep", "reap">>
      /\ UNCHANGED <<net, tx, hist, removed, calls, state, sockOpen, rxLen,
                     paused, late, err, callbacks, io>>

Stage(label) ==
  /\ AtRest /\ todo # <<>> /\ Head(todo) = label
  /\ todo' = Tail(todo)
  /\ calls' = calls

(* The connections before this one have had their turn. *)
Turn ==
  /\ Stage("others")
  /\ UNCHANGED <<net, tx, hist, removed, state, sockOpen, rxLen, paused, late,
                 err, callbacks, io>>

(* Why handle_read fails: no room in rx_buffer_, a closed or reset socket, *)
(* or end of file.                                                         *)
ReadError(code) ==
  \/ code = "BufferFull" /\ rxLen = RxCapacity
  \/ code = "SocketError" /\ rxLen < RxCapacity /\ (~sockOpen \/ peer = "reset")
  \/ /\ code = "ConnectionClosed" /\ rxLen < RxCapacity /\ sockOpen
     /\ peer = "eof" /\ netLen = 0

(* Mutant: the result of handle_read is not looked at. *)
ReadFailsUnnoticed(code) ==
  /\ Stage("in")
  /\ ReadError(code)
  /\ err' = code
  /\ UNCHANGED <<net, tx, hist, removed, state, sockOpen, rxLen, paused, late,
                 callbacks, io>>

(* handle_read fails, and handle_connection_io closes the connection. *)
ReadFails(code) ==
  /\ Stage("in")
  /\ ReadError(code)
  /\ err' = code
  /\ Close
  /\ UNCHANGED <<net, removed, sockOpen, rxLen, paused, io>>

(* handle_read finds nothing: EAGAIN. *)
ReadNothing ==
  /\ Stage("in")
  /\ rxLen < RxCapacity /\ sockOpen /\ peer = "up" /\ netLen = 0
  /\ err' = "Ok"
  /\ UNCHANGED <<net, tx, hist, removed, state, sockOpen, rxLen, paused, late,
                 callbacks, io>>

(* handshake_on_data with len bytes buffered.  What parse_handshake returns *)
(* when the request is incomplete or malformed is dropped by handle_read:   *)
(* the connection stays as it is.  The response fits: nothing else is put   *)
(* in tx_buffer_ before the connection is open.                             *)
handshake_on_data(len) ==
  /\ state = "Handshaking"
  /\ LET done == Arrived(Least(len, PeekLen)) /\ Head(inbox).op = "upgrade"
     IN  \/ /\ ~done
            /\ rxLen' = len
            /\ io' = "idle"
            /\ UNCHANGED <<inbox, tx, hist, state, late, callbacks>>
         \/ /\ done
            /\ Consume(len)
            /\ txLen' = txLen + ResponseLen
            /\ response' = ResponseLen
            /\ ToOpen
            /\ io' = "return"
            /\ UNCHANGED sent

(* open_on_data enters the loop of parse_frames. *)
open_on_data(len) ==
  /\ state = "Open"
  /\ rxLen' = len
  /\ io' = "parse"
  /\ UNCHANGED <<inbox, tx, hist, state, late, callbacks>>

(* closing_on_data looks at the header of the first frame only, and        *)
(* consumes nothing.                                                       *)
closing_on_data(len) ==
  /\ state = "Closing"
  /\ rxLen' = len
  /\ LET answered == /\ inbox # <<>> /\ Head(inbox).op = "close"
                     /\ Head(inbox).header <= Least(len, PeekLen)
     IN  \/ answered /\ ToClosed(callbacks) /\ io' = "return"
         \/ ~answered /\ io' = "idle" /\ UNCHANGED <<hist, state, late, callbacks>>
  /\ UNCHANGED <<inbox, tx>>

(* handle_read takes n bytes and dispatches on the state; it reports       *)
(* success whatever on_data returns.                                       *)
ReadBytes(n) ==
  /\ Stage("in")
  /\ sockOpen /\ peer # "reset"
  /\ n \in 1..Least(RxCapacity - rxLen, netLen)
  /\ netLen' = netLen - n
  /\ \/ handshake_on_data(rxLen + n)
     \/ open_on_data(rxLen + n)
     \/ closing_on_data(rxLen + n)
  /\ err' = "Ok"
  /\ UNCHANGED <<peer, items, removed, sockOpen, paused>>

(* Mutant: the low watermark is checked before advance, on the old size. *)
WriteBytesStale(n) ==
  /\ Stage("out")
  /\ sockOpen /\ peer # "reset" /\ n \in 1..txLen
  /\ txLen' = txLen - n
  /\ response' = response - Least(n, response)
  /\ LET drained == paused /\ txLen < kTxLowWatermark
     IN  /\ paused' = (paused /\ ~drained)
         /\ callbacks' = IF drained THEN <<"on_drain">> ELSE callbacks
         /\ io' = IF drained THEN "return" ELSE io
  /\ err' = "Ok"
  /\ UNCHANGED <<net, sent, hist, removed, state, sockOpen, rxLen, late>>

(* handle_write and handle_write_vectored: the kernel takes n bytes, and   *)
(* check_low_watermark may call the application.                           *)
WriteBytes(n) ==
  /\ Stage("out")
  /\ sockOpen /\ peer # "reset"
  /\ n \in 1..txLen
  /\ txLen' = txLen - n
  /\ response' = response - Least(n, response)
  /\ \/ /\ paused /\ txLen - n < kTxLowWatermark
        /\ paused' = FALSE
        /\ callbacks' = <<"on_drain">>
        /\ io' = "return"
     \/ /\ ~(paused /\ txLen - n < kTxLowWatermark)
        /\ UNCHANGED <<paused, callbacks, io>>
  /\ err' = "Ok"
  /\ UNCHANGED <<net, sent, hist, removed, state, sockOpen, rxLen, late>>

(* There is nothing to write, or the kernel takes nothing: EAGAIN. *)
WriteNothing ==
  /\ Stage("out")
  /\ txLen = 0 \/ (sockOpen /\ peer # "reset")
  /\ err' = "Ok"
  /\ UNCHANGED <<net, tx, hist, removed, state, sockOpen, rxLen, paused, late,
                 callbacks, io>>

(* The write fails, and handle_connection_io closes the connection. *)
WriteFails ==
  /\ Stage("out")
  /\ txLen > 0 /\ (~sockOpen \/ peer = "reset")
  /\ err' = "SocketError"
  /\ Close
  /\ UNCHANGED <<net, removed, sockOpen, rxLen, paused, io>>

(* POLLERR or POLLHUP. *)
HangUp ==
  /\ Stage("hup")
  /\ Close
  /\ UNCHANGED <<net, removed, sockOpen, rxLen, paused, err, io>>

TimedOut == late /\ state \in {"Handshaking", "Closing"}

Sweep ==
  /\ Stage("sweep")
  /\ \/ TimedOut /\ Close
     \/ ~TimedOut /\ UNCHANGED <<tx, hist, state, late, callbacks>>
  /\ UNCHANGED <<net, removed, sockOpen, rxLen, paused, err, io>>

is_closed == ~sockOpen \/ state = "Closed"

(* Mutant: a connection that waits for the peer's Close is dropped too. *)
ReapClosing ==
  /\ Stage("reap")
  /\ removed' = (~sockOpen \/ state \in {"Closing", "Closed"})
  /\ UNCHANGED <<net, tx, hist, state, sockOpen, rxLen, paused, late, err,
                 callbacks, io>>

Reap ==
  /\ Stage("reap")
  /\ removed' = is_closed
  /\ UNCHANGED <<net, tx, hist, state, sockOpen, rxLen, paused, late, err,
                 callbacks, io>>

-----------------------------------------------------------------------------
(* One iteration of parse_frames.  The loop does not look at the state:    *)
(* it goes on after the application has closed the connection.             *)
InLoop == io = "parse" /\ callbacks = <<>>

ParseDone ==
  /\ InLoop /\ ~Arrived(rxLen)
  /\ io' = "idle" /\ err' = "Ok"
  /\ UNCHANGED <<net, tx, hist, reactor, state, sockOpen, rxLen, paused, late,
                 callbacks>>

ParseMessage ==
  /\ InLoop /\ Arrived(rxLen) /\ Head(inbox).op = "message"
  /\ callbacks' = <<"on_message">>
  /\ UNCHANGED <<net, tx, hist, reactor, state, sockOpen, rxLen, paused, late,
                 err, io>>

ParseClose ==
  /\ InLoop /\ Arrived(rxLen) /\ Head(inbox).op = "close"
  /\ callbacks' = <<"on_close_frame">>
  /\ closes' = closes + 1
  /\ UNCHANGED <<net, tx, opens, reactor, state, sockOpen, rxLen, paused, late,
                 err, io>>

(* Mutant: an unknown frame ends the loop and stays in rx_buffer_. *)
ParseControlStops ==
  /\ InLoop /\ Arrived(rxLen) /\ Head(inbox).op \in {"ping", "other"}
  /\ io' = "idle" /\ err' = "Ok"
  /\ UNCHANGED <<net, tx, hist, reactor, state, sockOpen, rxLen, paused, late,
                 callbacks>>

(* A ping is answered with its payload; a pong, a continuation or an       *)
(* unknown frame is skipped.                                               *)
ParseControl ==
  /\ InLoop /\ Arrived(rxLen)
  /\ \/ Head(inbox).op = "ping" /\ write_frame("pong", Head(inbox).payload)
     \/ Head(inbox).op = "other" /\ UNCHANGED tx
  /\ Consume(rxLen)
  /\ UNCHANGED <<netLen, peer, items, hist, reactor, state, sockOpen, paused,
                 late, err, callbacks, io>>

(* handle_read or handle_write returns after its last callback. *)
IoReturn ==
  /\ io = "return" /\ callbacks = <<>>
  /\ io' = "idle" /\ err' = "Ok"
  /\ UNCHANGED <<net, tx, hist, reactor, state, sockOpen, rxLen, paused, late,
                 callbacks>>

-----------------------------------------------------------------------------
(* The application.  It calls the connection from one of its callbacks or, *)
(* between two stages, from a callback of another connection.              *)
MayCall ==
  /\ calls < MaxCalls /\ calls' = calls + 1
  /\ \/ callbacks # <<>>
     \/ AtRest /\ todo # <<>> /\ Head(todo) \in {"others", "sweep", "reap"}

(* Mutants: write_paused_ is not looked at; the state is not looked at. *)
SendPausedToo(n) ==
  /\ MayCall /\ state = "Open"
  /\ write_frame("message", n)
  /\ LET full == txLen' > kTxHighWatermark
     IN  /\ paused' = (paused \/ full)
         /\ callbacks' = IF full THEN <<"on_backpressure">> \o callbacks
                         ELSE callbacks
  /\ UNCHANGED <<net, hist, todo, removed, state, sockOpen, rxLen, late, err, io>>

SendInAnyState(n) ==
  /\ MayCall
  /\ write_frame("message", n)
  /\ UNCHANGED <<net, hist, todo, removed, state, sockOpen, rxLen, paused, late,
                 err, callbacks, io>>

(* send_impl and check_high_watermark; outside Open it does nothing. *)
Send(n) ==
  /\ MayCall /\ state = "Open"
  /\ write_frame("message", n)
  /\ LET full == ~paused /\ txLen' > kTxHighWatermark
     IN  /\ paused' = (paused \/ full)
         /\ callbacks' = IF full THEN <<"on_backpressure">> \o callbacks
                         ELSE callbacks
  /\ UNCHANGED <<net, hist, todo, removed, state, sockOpen, rxLen, late, err, io>>

AppClose ==
  /\ MayCall /\ state # "Closed"
  /\ Close
  /\ UNCHANGED <<net, todo, removed, sockOpen, rxLen, paused, err, io>>

Returns(label) == callbacks # <<>> /\ Head(callbacks) = label

(* A callback after which the library has nothing more to do. *)
ReturnPlain ==
  /\ \E label \in {"on_open", "on_backpressure", "on_drain"} : Returns(label)
  /\ callbacks' = Tail(callbacks)
  /\ UNCHANGED <<net, tx, hist, reactor, state, sockOpen, rxLen, paused, late,
                 err, io>>

(* Mutant: one message per call of parse_frames. *)
ReturnMessageLeavesLoop ==
  /\ Returns("on_message")
  /\ callbacks' = Tail(callbacks)
  /\ Consume(rxLen)
  /\ io' = "return"
  /\ UNCHANGED <<netLen, peer, items, tx, hist, reactor, state, sockOpen, paused,
                 late, err>>

(* on_message returns to parse_frames, which consumes the frame. *)
ReturnMessage ==
  /\ Returns("on_message")
  /\ callbacks' = Tail(callbacks)
  /\ Consume(rxLen)
  /\ UNCHANGED <<netLen, peer, items, tx, hist, reactor, state, sockOpen, paused,
                 late, err, io>>

(* Mutant: a peer's Close takes the connection to Closing. *)
ReturnCloseFrameToClosing ==
  /\ Returns("on_close_frame")
  /\ state' = "Closing" /\ late' = FALSE
  /\ callbacks' = Tail(callbacks)
  /\ io' = "return"
  /\ UNCHANGED <<net, tx, hist, reactor, sockOpen, rxLen, paused, err>>

(* on_close(conn, false) returns to parse_frames, which leaves its loop    *)
(* through transition_to_state(kClosed).                                   *)
ReturnCloseFrame ==
  /\ Returns("on_close_frame")
  /\ ToClosed(Tail(callbacks))
  /\ io' = "return"
  /\ UNCHANGED <<net, tx, reactor, sockOpen, rxLen, paused, err>>

(* Mutant: the socket is left to the destructor. *)
ReturnClosedKeepsSocket ==
  /\ Returns("on_closed")
  /\ callbacks' = Tail(callbacks)
  /\ UNCHANGED <<net, tx, hist, reactor, state, sockOpen, rxLen, paused, late,
                 err, io>>

(* on_close(conn, true) returns; every caller of transition_to_state then  *)
(* closes the socket.                                                      *)
ReturnClosed ==
  /\ Returns("on_closed")
  /\ callbacks' = Tail(callbacks)
  /\ sockOpen' = FALSE
  /\ UNCHANGED <<net, tx, hist, reactor, state, rxLen, paused, late, err, io>>

(* The server has let the connection go. *)
Gone == removed /\ UNCHANGED vars

Environment ==
  \/ \E item \in Item : PeerSend(item)
  \/ PeerShut
  \/ PeerReset
  \/ Tick

Application ==
  \/ \E n \in SendLen : Send(n)
  \/ AppClose

Callback == ReturnPlain \/ ReturnMessage \/ ReturnCloseFrame \/ ReturnClosed

Parser == ParseDone \/ ParseMessage \/ ParseClose \/ ParseControl \/ IoReturn

Reactor ==
  \/ Turn
  \/ \E code \in {"BufferFull", "SocketError", "ConnectionClosed"} : ReadFails(code)
  \/ ReadNothing
  \/ \E n \in 1..RxCapacity : ReadBytes(n)
  \/ \E n \in 1..TxCapacity : WriteBytes(n)
  \/ WriteNothing
  \/ WriteFails
  \/ HangUp
  \/ Sweep
  \/ Reap

Next ==
  \/ Environment
  \/ Application
  \/ Callback
  \/ Parser
  \/ Reactor
  \/ \E in, out \in BOOLEAN : Poll(in, out)
  \/ Gone

Spec == Init /\ [][Next]_vars

-----------------------------------------------------------------------------
(* Fairness.  The reactor is a loop on one thread: it takes its next step, *)
(* callbacks return, and poll reports what is readable.  A poll for other  *)
(* reasons is not fair: a server with nothing to do never completes one.   *)
ReactorFairness ==
  /\ WF_vars(Callback)
  /\ WF_vars(Parser)
  /\ WF_vars(Reactor)
  /\ WF_vars(Readable /\ \E in, out \in BOOLEAN : Poll(in, out))

(* A peer that keeps reading: the socket is writable again and again, and  *)
(* then takes at least one byte.                                           *)
PeerReads ==
  /\ SF_vars(\E in \in BOOLEAN : Poll(in, TRUE))
  /\ SF_vars(\E n \in 1..TxCapacity : WriteBytes(n))

FairSpec == Spec /\ ReactorFairness
ReadingSpec == FairSpec /\ PeerReads

-----------------------------------------------------------------------------
Label == {"on_open", "on_message", "on_close_frame", "on_closed",
          "on_backpressure", "on_drain"}

(* Types of the variables. *)
TypeOK ==
  /\ inbox \in Seq(Item) /\ netLen \in Nat /\ items \in 0..MaxItems
  /\ peer \in {"up", "eof", "reset"}
  /\ state \in {"Handshaking", "Open", "Closing", "Closed"}
  /\ sockOpen \in BOOLEAN /\ paused \in BOOLEAN /\ late \in BOOLEAN
  /\ rxLen \in 0..RxCapacity /\ txLen \in 0..TxCapacity /\ response \in 0..txLen
  /\ err \in {"Ok", "BufferFull", "SocketError", "ConnectionClosed"}
  /\ callbacks \in Seq(Label) /\ io \in {"idle", "parse", "return"}
  /\ todo \in Seq({"others", "in", "out", "hup", "sweep", "reap"})
  /\ removed \in BOOLEAN /\ calls \in 0..MaxCalls
  /\ sent \in Seq([op : {"message", "pong", "close"}, whole : BOOLEAN])
  /\ opens \in Nat /\ closes \in Nat

(* Backpressure is never stuck on: while write_paused_ is set, tx_buffer_  *)
(* still holds enough for a later write to cross the low watermark and     *)
(* call on_drain.                                                          *)
PausedCanDrain == paused => txLen >= kTxLowWatermark

(* The application's handler behind a label: on_close is one handler,      *)
(* called for a Close frame and again for the transition to Closed.        *)
Handler(label) ==
  IF label \in {"on_close_frame", "on_closed"} THEN "on_close" ELSE label

(* The recursions send -> on_backpressure -> send and close -> on_close -> *)
(* close stop, whatever the application calls from inside a callback: at   *)
(* most three run at a time, and none is entered again while it runs       *)
(* except on_close.  That one is entered a second time when the handler of *)
(* a Close frame closes a connection that is not Open any more: the inner  *)
(* call reports the transition to Closed.                                  *)
ReentryBounded ==
  /\ Len(callbacks) <= 3
  /\ \A i, j \in DOMAIN callbacks :
       i < j /\ Handler(callbacks[i]) = Handler(callbacks[j]) =>
         /\ callbacks[i] = "on_closed" /\ callbacks[j] = "on_close_frame"
         /\ j = Len(callbacks)

(* Whenever the reactor is between two stages, the state machine and the   *)
(* socket agree: Closed exactly when the descriptor has been given back.   *)
ClosedIffReleased == AtRest => (state = "Closed" <=> ~sockOpen)

(* An I/O error never leaves the connection in service: it is closing or   *)
(* closed when handle_connection_io is done with it.                       *)
ErrorMeansClosing == AtRest /\ err # "Ok" => state \in {"Closing", "Closed"}

(* The frames written: one Close frame at most, no message after it, and   *)
(* only pongs may still follow.                                            *)
CloseFrameIsLast ==
  \A i, j \in DOMAIN sent : i < j /\ sent[i].op = "close" => sent[j].op = "pong"

(* With a peer that waits for the 101 response, no complete frame is left  *)
(* unparsed in rx_buffer_ when the reactor polls again in state Open.      *)
NoFrameLeftBehind ==
  PeerWaits /\ AtRest /\ todo = <<>> /\ state = "Open" => ~Arrived(rxLen)

Rank == [Handshaking |-> 0, Open |-> 1, Closing |-> 2, Closed |-> 3]

(* The state machine never goes back: no path through a callback reopens a *)
(* connection or takes a closing one to Open again.                        *)
StateOnlyAdvances == [][Rank[state'] >= Rank[state]]_state

(* Every frame put in tx_buffer_ is complete: what is echoed is what was   *)
(* received (tests/test_integration.cpp:386).                              *)
FramesWhole == \A i \in DOMAIN sent : sent[i].whole

(* on_close undoes on_open: the bookkeeping of examples/perf_server.cpp,   *)
(* which counts an opened connection up in one and down in the other.      *)
ClosesMatchOpens == opens = 1 => closes <= 1

(* What the application is promised: see CallbackContract. *)
Contract == INSTANCE CallbackContract
              WITH phase <- state, congested <- paused, gone <- removed
KeepsContract == Contract!Spec

(* A peer that has gone is noticed and its connection removed, whatever    *)
(* state it was in and whatever it left behind in the buffers.             *)
DeadPeerRemoved == peer # "up" ~> removed

(* Backpressure ends: the application gets on_drain or the connection      *)
(* closes, provided the peer keeps reading.                                *)
BackpressureEnds == paused ~> (~paused \/ state = "Closed")

(* Everything an open connection receives is parsed, or the connection     *)
(* leaves Open.                                                            *)
FramesConsumed ==
  (state = "Open" /\ inbox # <<>>) ~> (inbox = <<>> \/ state # "Open")

=============================================================================
