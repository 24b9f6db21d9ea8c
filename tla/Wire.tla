------------------------------- MODULE Wire -------------------------------
(***************************************************************************)
(* Frames on their way from a client through rx_buffer_ to parse_frames    *)
(* and, as an echo, through tx_buffer_ back to the client, as bytes of TCP *)
(* streams that may be cut anywhere.  Both buffers are bounded: a frame    *)
(* that does not fit into the first ends the connection, an echo that does *)
(* not fit into the second is dropped or torn.  The client is the          *)
(* BenchClient of examples/benchmark_echo.cpp, which has an encoder and a  *)
(* decoder of its own, or one that sends what encode_frame gives it.       *)
(***************************************************************************)
EXTENDS FrameCodec, SequencesExt

CONSTANTS
  RxCap,       \* kRxBufferSize, which is also what parse_frames peeks
  TxCap,       \* kTxBufferSize
  TextOp,      \* the opcode of a text frame
  CloseOp,     \* of a Close frame
  CloseCode,   \* the status code that close() sends, a uint16_t
  Key,         \* the client's mask key
  PayloadLen,  \* the lengths of the payloads it sends
  MaxFrames,   \* bound: frames sent
  Xor(_, _)    \* of two bytes

ASSUME WireAssumption ==
  /\ RxCap \in Nat \ {0} /\ TxCap \in Nat \ {0}
  /\ TextOp \in 0..(OpCodes - 1) /\ CloseOp \in 0..(OpCodes - 1)
  /\ CloseCode \in 0..(Base * Base - 1)
  /\ Key \in [1..MaskLen -> Byte]
  /\ \A n \in PayloadLen : n \in Nat /\ n + 2 + LongLen + MaskLen < SizeWrap
  /\ \A b, m \in Byte : Xor(b, m) \in Byte /\ Xor(Xor(b, m), m) = b

VARIABLES
  toServer,   \* bytes the client has sent and the server not received
  rx,         \* the server's rx_buffer_
  tx,         \* its tx_buffer_
  toClient,   \* bytes the server has sent and the client not read
  conn,       \* the server's state of the connection
  torn,       \* an echo's header is in the stream without its payload
  sent,       \* history: the payloads sent,
  delivered,  \* given to on_message,
  written,    \* echoed whole, before any was torn,
  echoed      \* and the lengths that recv_frame has read

serverVars == <<rx, tx, conn, torn, delivered, written>>
wireVars == <<toServer, toClient, sent, echoed, serverVars>>

(* After the handshake, which leaves both buffers empty. *)
WireInit ==
  /\ toServer = <<>> /\ rx = <<>> /\ tx = <<>> /\ toClient = <<>>
  /\ conn = "Open" /\ torn = FALSE
  /\ sent = <<>> /\ delivered = <<>> /\ written = <<>> /\ echoed = <<>>

(* Bytes that tell every position and every frame from the others. *)
Payload(n) == [i \in 1..n |-> (3 * i + n + Len(sent)) % Base]

(* unmask_payload, which masks as well. *)
unmask_payload(payload, key) ==
  [i \in DOMAIN payload |-> Xor(payload[i], key[((i - 1) % MaskLen) + 1])]

(* BenchClient::send_masked: a header as encode_frame_header lays it out,  *)
(* then the key and the masked payload.                                    *)
send_masked(n) ==
  /\ Len(sent) < MaxFrames
  /\ toServer' = toServer \o encode_frame_header(TextOp, n, TRUE) \o Key
                   \o [i \in 1..n |-> Xor(Payload(n)[i], Key[((i - 1) % MaskLen) + 1])]
  /\ sent' = Append(sent, Payload(n))
  /\ UNCHANGED <<toClient, echoed, serverVars>>

(* A client without masking. *)
SendPlain(n) ==
  /\ Len(sent) < MaxFrames
  /\ toServer' = toServer \o encode_frame(TextOp, Payload(n), FALSE)
  /\ sent' = Append(sent, Payload(n))
  /\ UNCHANGED <<toClient, echoed, serverVars>>

(* total_frame_size is a size_t. *)
TotalSize(header) == (header.size + header.payload_len) % SizeWrap

CanParse ==
  LET header == parse_frame_header(rx)
  IN  header.size > 0 /\ Len(rx) >= TotalSize(header)

(* handle_read: readv fills the free part of rx_buffer_ with k bytes.  The *)
(* parse loop of the read before has ended.                                *)
Arrive(k) ==
  /\ conn = "Open" /\ ~CanParse
  /\ k <= Len(toServer) /\ Len(rx) + k <= RxCap
  /\ rx' = rx \o SubSeq(toServer, 1, k)
  /\ toServer' = SubSeq(toServer, k + 1, Len(toServer))
  /\ UNCHANGED <<tx, toClient, conn, torn, sent, delivered, written, echoed>>

(* RingBuffer::push takes all of n bytes or none. *)
HasRoom(n) == Len(tx) + n <= TxCap

(* Mutant: the payload is pushed although the header was not. *)
PushAnyway(header, payload) ==
  LET first == IF HasRoom(Len(header)) THEN header ELSE <<>>
  IN  IF HasRoom(Len(first) + Len(payload)) THEN first \o payload ELSE first

(* What write_frame and write_close_frame add to tx_buffer_: nothing when  *)
(* there is no room for the header, the header alone when there is none    *)
(* for the payload.                                                        *)
Pushed(header, payload) ==
  IF ~HasRoom(Len(header)) THEN <<>>
  ELSE IF HasRoom(Len(header) + Len(payload)) THEN header \o payload ELSE header

(* on_message's send() of the payload: send_impl and write_frame. *)
Echo(op, payload) ==
  LET header == encode_frame_header(op, Len(payload), FALSE)
      whole == HasRoom(Len(header) + Len(payload))
  IN  /\ tx' = tx \o Pushed(header, payload)
      /\ torn' = (torn \/ (HasRoom(Len(header)) /\ ~whole))
      /\ written' = IF whole /\ ~torn THEN Append(written, payload) ELSE written

(* A Close frame first, the socket the next time. *)
close ==
  \/ /\ conn = "Open" /\ conn' = "Closing"
     /\ tx' = tx \o Pushed(encode_frame_header(CloseOp, 2, FALSE), BigEndian(CloseCode, 2))
  \/ /\ conn = "Closing" /\ conn' = "Closed"
     /\ UNCHANGED tx

(* handle_read finds rx_buffer_ full, and handle_connection_io closes.     *)
(* closing_on_data, which consumes nothing, is not called any more.        *)
RxFull ==
  /\ ~CanParse /\ toServer # <<>> /\ Len(rx) = RxCap
  /\ close
  /\ UNCHANGED <<toServer, rx, toClient, torn, sent, delivered, written, echoed>>

(* One iteration of parse_frames on a data frame (Connection.tla has the   *)
(* others), with an on_message that echoes.                                *)
ParseFrame ==
  /\ conn = "Open" /\ CanParse
  /\ LET header == parse_frame_header(rx)
         total == TotalSize(header)
         raw == SubSeq(rx, header.size + 1, header.size + header.payload_len)
         key == SubSeq(rx, header.size - MaskLen + 1, header.size)
         payload == IF header.masked THEN unmask_payload(raw, key) ELSE raw
     IN  /\ delivered' = Append(delivered, payload)
         /\ Echo(header.opcode, payload)
         /\ rx' = SubSeq(rx, total + 1, Len(rx))
  /\ UNCHANGED <<toServer, toClient, conn, sent, echoed>>

(* handle_write_vectored: the kernel takes k bytes. *)
Flush(k) ==
  /\ conn # "Closed" /\ k <= Len(tx)
  /\ toClient' = toClient \o SubSeq(tx, 1, k)
  /\ tx' = SubSeq(tx, k + 1, Len(tx))
  /\ UNCHANGED <<toServer, rx, conn, torn, sent, delivered, written, echoed>>

(* BenchClient::recv_frame looks at the seven bits only: the server masks  *)
(* nothing.  It waits for all the bytes that the header announces, and     *)
(* returns whether their number is that of the payload sent.               *)
recv_frame ==
  /\ Len(toClient) >= 2
  /\ LET code == toClient[2] % Half
         ext == Extension(code)
         plen == IF ext = 0 THEN code ELSE Number(SubSeq(toClient, 3, 2 + ext))
     IN  /\ Len(toClient) >= 2 + ext /\ Len(toClient) >= 2 + ext + plen
         /\ toClient' = SubSeq(toClient, 3 + ext + plen, Len(toClient))
         /\ echoed' = Append(echoed, plen)
  /\ UNCHANGED <<toServer, sent, serverVars>>

WireNext ==
  \/ \E n \in PayloadLen : send_masked(n) \/ SendPlain(n)
  \/ \E k \in 1..RxCap : Arrive(k)
  \/ RxFull
  \/ ParseFrame
  \/ \E k \in 1..TxCap : Flush(k)
  \/ recv_frame

WireSpec == WireInit /\ [][WireNext]_wireVars

-----------------------------------------------------------------------------
(* Bytes of the frame of a payload of n bytes. *)
FrameLen(n, mask) ==
  Len(encode_frame_header(TextOp, n, mask)) + (IF mask THEN MaskLen ELSE 0) + n

(* Payloads arrive as they were sent, wherever the stream is cut: none is  *)
(* delivered before it is complete and, once all bytes are received, none  *)
(* is left.  A frame that does not fit into rx_buffer_ is never delivered, *)
(* and handle_read's kBufferFull gives up the connection only with a frame *)
(* at the front that does not fit when it is masked.                       *)
FramesSurviveSplitting ==
  /\ IsPrefix(delivered, sent)
  /\ toServer = <<>> /\ ~CanParse => delivered = sent /\ rx = <<>>
  /\ \A k \in DOMAIN delivered : FrameLen(Len(delivered[k]), FALSE) <= RxCap
  /\ conn # "Open" => /\ Len(delivered) < Len(sent)
                      /\ FrameLen(Len(sent[Len(delivered) + 1]), TRUE) > RxCap

(* recv_frame, the client's own decoder, reads the echoes that write_frame *)
(* put into tx_buffer_ whole, each with its length and the next one at its *)
(* boundary, also after an echo that was dropped because there was no room *)
(* for its header.  Nothing is said of what follows a header without its   *)
(* payload or the Close frame.  When no echo is missing, recv_frame finds  *)
(* the length it expects.                                                  *)
EchoAccepted ==
  /\ \A k \in DOMAIN echoed : k <= Len(written) => echoed[k] = Len(written[k])
  /\ conn = "Open" /\ ~torn =>
       /\ Len(echoed) <= Len(written)
       /\ toClient = <<>> /\ tx = <<>> => Len(echoed) = Len(written)
  /\ Len(written) = Len(delivered) =>
       \A k \in DOMAIN echoed : k <= Len(written) => echoed[k] = Len(sent[k])

=============================================================================
