---------------------------- MODULE ParserProofs ----------------------------
(***************************************************************************)
(* No complete frame is left in rx_buffer_: proved for every Connection,   *)
(* from three facts that ConnectionProofs does not need.  rx_buffer_ and   *)
(* the kernel hold no more bytes than the items they stand for (Stream), a *)
(* peer that waits has sent nothing but its request when the handshake is  *)
(* done (Waits), and the parser's loop is left only when the first frame   *)
(* is incomplete (Parsed).                                                 *)
(***************************************************************************)
EXTENDS ConnectionProofs

(* The end of every item in the stream that inbox stands for: a sum, as a  *)
(* function that is there rather than one that is computed.                *)
Ends(off, s) ==
  off[0] = 0 /\ \A k \in 1..Len(s) : off[k] = off[k - 1] + Size(s[k])

Fits(s, n) == \E off \in [Nat -> Int] : Ends(off, s) /\ n <= off[Len(s)]

Stream == Fits(inbox, rxLen + netLen)

Waits ==
  /\ items = 0 => inbox = <<>>
  /\ PeerWaits /\ state = "Handshaking" => Len(inbox) <= 1

Looping == \A i \in DOMAIN callbacks : callbacks[i] = "on_message" => io = "parse"

Parsed == PeerWaits /\ state = "Open" /\ io # "parse" => ~Arrived(rxLen)

-----------------------------------------------------------------------------
LEMMA SizeType ==
  ASSUME NEW item \in Item
  PROVE  Size(item) \in Nat \ {0}
  BY ConnectionAssumption DEF Size

(* Without items there are no bytes. *)
LEMMA EmptyFits ==
  ASSUME NEW n \in Nat, Fits(<<>>, n)
  PROVE  n = 0
<1>1. Len(<<>>) = 0
  BY EmptySeq
<1>2. QED
  BY <1>1 DEF Fits, Ends

LEMMA AppendFits ==
  ASSUME NEW s \in Seq(Item), NEW item \in Item, NEW n \in Nat, Fits(s, n)
  PROVE  Fits(Append(s, item), n + Size(item))
<1>1. PICK off \in [Nat -> Int] : Ends(off, s) /\ n <= off[Len(s)]
  BY DEF Fits
<1> DEFINE t == Append(s, item)
           m == Len(s)
           new == [k \in Nat |-> IF k <= m THEN off[k] ELSE off[m] + Size(item)]
<1>2. m \in Nat /\ Len(t) = m + 1 /\ t[m + 1] = item /\ \A k \in 1..m : t[k] = s[k]
  BY AppendProperties, LenProperties
<1>3. Size(item) \in Nat /\ \A k \in Nat : off[k] \in Int
  BY <1>2, SizeType
<1> HIDE DEF t, m
<1>4. new \in [Nat -> Int] /\ new[0] = off[0] /\ new[m + 1] = off[m] + Size(item)
  <2>1. \A k \in Nat : (IF k <= m THEN off[k] ELSE off[m] + Size(item)) \in Int
    BY <1>2, <1>3
  <2>2. new \in [Nat -> Int]
    BY <2>1
  <2>3. 0 <= m /\ ~(m + 1 <= m) /\ m + 1 \in Nat
    BY <1>2
  <2>4. QED
    BY <2>2, <2>3
<1>5. ASSUME NEW k \in 1..(m + 1)
      PROVE  new[k] = new[k - 1] + Size(t[k])
  <2>1. CASE k \in 1..m
    <3>1. off[k] = off[k - 1] + Size(s[k])
      BY <1>1, <2>1 DEF Ends, m
    <3>2. new[k] = off[k] /\ new[k - 1] = off[k - 1] /\ t[k] = s[k]
      BY <1>2, <2>1, SMTT(20)
    <3>3. QED
      BY <3>1, <3>2
  <2>2. CASE k = m + 1
    <3>1. new[k] = off[m] + Size(item) /\ new[k - 1] = off[m] /\ t[k] = item
      BY <1>2, <2>2
    <3>2. QED
      BY <3>1
  <2>3. QED
    BY <1>2, <2>1, <2>2
<1> HIDE DEF new
<1>6. n + Size(item) <= new[Len(t)]
  <2>1. n <= off[m]
    BY <1>1 DEF m
  <2>2. QED
    BY <1>2, <1>3, <1>4, <2>1
<1>7. Ends(new, t)
  BY <1>1, <1>2, <1>4, <1>5 DEF Ends
<1>8. Fits(t, n + Size(item))
  BY <1>4, <1>6, <1>7 DEF Fits
<1>9. QED
  BY <1>8 DEF t

LEMMA TailFits ==
  ASSUME NEW s \in Seq(Item), s # <<>>, NEW n \in Nat, Fits(s, n), Size(Head(s)) <= n
  PROVE  Fits(Tail(s), n - Size(Head(s)))
<1>1. PICK off \in [Nat -> Int] : Ends(off, s) /\ n <= off[Len(s)]
  BY DEF Fits
<1> DEFINE t == Tail(s)
           m == Len(s)
           z == Size(Head(s))
           new == [k \in Nat |-> off[k + 1] - z]
<1>2. /\ m \in Nat \ {0} /\ Len(t) = m - 1 /\ Head(s) = s[1] /\ Head(s) \in Item
      /\ \A k \in 1..Len(t) : t[k] = s[k + 1]
      /\ \A k \in 1..m : s[k] \in Item
  BY HeadTailProperties, LenProperties, EmptySeq, ElementOfSeq
<1>3. z \in Nat /\ \A k \in 1..m : Size(s[k]) \in Nat
  BY <1>2, SizeType
<1>4. off[0] = 0 /\ off[1] = z /\ \A k \in 1..m : off[k] = off[k - 1] + Size(s[k])
  <2>1. off[0] = 0 /\ \A k \in 1..m : off[k] = off[k - 1] + Size(s[k])
    BY <1>1 DEF Ends
  <2>2. off[1] = 0 + z
    BY <1>2, <2>1
  <2>3. QED
    BY <1>3, <2>1, <2>2
<1> HIDE DEF t, m, z
<1>5. new \in [Nat -> Int] /\ \A k \in Nat : new[k] = off[k + 1] - z
  <2>1. \A k \in Nat : off[k + 1] - z \in Int
    <3>1. \A k \in Nat : off[k + 1] \in Int
      OBVIOUS
    <3>2. QED
      BY <1>3, <3>1
  <2>2. QED
    BY <2>1
<1> HIDE DEF new
<1>6. new[0] = 0
  BY <1>3, <1>4, <1>5
<1>7. \A k \in 1..Len(t) : new[k] = new[k - 1] + Size(t[k])
  <2>1. ASSUME NEW k \in 1..(m - 1)
        PROVE  new[k] = new[k - 1] + Size(s[k + 1])
    <3>1. k + 1 \in 1..m /\ (k + 1) - 1 = k /\ k \in Nat /\ k - 1 \in Nat /\ (k - 1) + 1 = k
      BY <1>2
    <3>2. off[k + 1] = off[k] + Size(s[k + 1]) /\ Size(s[k + 1]) \in Nat
      BY <1>3, <1>4, <3>1
    <3>3. new[k] = off[k + 1] - z /\ new[k - 1] = off[k] - z /\ off[k] \in Int
      BY <1>5, <3>1
    <3>4. QED
      BY <1>3, <3>2, <3>3
  <2>2. QED
    BY <1>2, <2>1
<1>8. n - z <= new[Len(t)]
  <2>1. n <= off[m] /\ off[m] \in Int
    BY <1>1, <1>2 DEF m
  <2>2. m - 1 \in Nat /\ (m - 1) + 1 = m
    BY <1>2
  <2>3. new[m - 1] = off[m] - z
    BY <1>5, <2>2
  <2>4. QED
    BY <1>2, <1>3, <2>1, <2>3
<1>9. Fits(t, n - z)
  BY <1>5, <1>6, <1>7, <1>8 DEF Fits, Ends
<1>10. QED
  BY <1>9 DEF t, z

LEMMA LessFits ==
  ASSUME NEW s \in Seq(Item), NEW n \in Nat, NEW m \in Nat, m <= n, Fits(s, n)
  PROVE  Fits(s, m)
<1>1. PICK off \in [Nat -> Int] : Ends(off, s) /\ n <= off[Len(s)]
  BY DEF Fits
<1>2. Len(s) \in Nat /\ off[Len(s)] \in Int
  BY LenProperties
<1>3. m <= off[Len(s)]
  BY <1>1, <1>2
<1>4. QED
  BY <1>1, <1>3 DEF Fits

-----------------------------------------------------------------------------
(* The bytes of the items, through every step. *)

LEMMA ConsumeStream ==
  ASSUME Received, NEW len \in Nat, NEW left \in Nat, Fits(inbox, len + left),
         Arrived(len), Consume(len), netLen' = left
  PROVE  Stream'
<1> DEFINE z == Size(Head(inbox))
<1>1. inbox \in Seq(Item) /\ inbox # <<>> /\ Head(inbox) \in Item /\ z <= len
  BY HeadTailProperties DEF Received, Arrived
<1>2. z \in Nat
  BY <1>1, SizeType
<1>3. inbox' = Tail(inbox) /\ rxLen' = len - z
  BY DEF Consume
<1>4. len + left \in Nat /\ z <= len + left /\ (len + left) - z = rxLen' + netLen'
  <2> HIDE DEF z
  <2>1. QED
    BY <1>1, <1>2, <1>3
<1>5. Fits(Tail(inbox), (len + left) - z)
  BY <1>1, <1>4, TailFits
<1>6. Fits(Tail(inbox), rxLen' + netLen')
  BY <1>4, <1>5, Zenon
<1>7. QED
  BY <1>3, <1>6 DEF Stream

(* on_message returns to a parser that holds the whole frame. *)
LEMMA MessageHeld ==
  ASSUME Control, Stack, Received, ReturnMessage
  PROVE  Arrived(rxLen) /\ \E i \in DOMAIN callbacks : callbacks[i] = "on_message"
<1>1. callbacks \in Seq(Label)
  BY DEF Control, ControlTypes
<1>2. 1 \in DOMAIN callbacks /\ callbacks[1] = "on_message"
  BY <1>1, PopProperties DEF ReturnMessage, Returns
<1>3. QED
  BY <1>2 DEF Received, HeadHeld

(* handle_read: what is buffered then, and whether an item is consumed. *)
LEMMA ReadBytesEffect ==
  ASSUME Received, NEW n \in 1..RxCapacity, ReadBytes(n)
  PROVE  /\ rxLen + n \in Nat /\ netLen - n \in Nat /\ netLen' = netLen - n
         /\ items' = items
         /\ \/ UNCHANGED inbox /\ rxLen' = rxLen + n /\ (state' # "Open" \/ io' = "parse")
            \/ /\ Arrived(rxLen + n) /\ Consume(rxLen + n)
               /\ state = "Handshaking" /\ state' = "Open"
<1>1. rxLen \in Nat /\ n \in Nat /\ n <= netLen /\ netLen \in Nat /\ PeekLen \in Nat
  BY ConnectionAssumption DEF ReadBytes, Received, Least
<1>2. CASE open_on_data(rxLen + n) \/ closing_on_data(rxLen + n)
  BY <1>1, <1>2 DEF ReadBytes, open_on_data, closing_on_data, ToClosed
<1>3. CASE handshake_on_data(rxLen + n)
  <2>1. CASE Arrived(Least(rxLen + n, PeekLen)) /\ Consume(rxLen + n) /\ ToOpen
    <3>1. Size(Head(inbox)) \in Nat
      BY <2>1, HeadTailProperties, SizeType DEF Arrived, Received
    <3>2. Arrived(rxLen + n)
      BY <1>1, <2>1, <3>1 DEF Arrived, Least
    <3>3. QED
      BY <1>1, <1>3, <2>1, <3>2 DEF ReadBytes, handshake_on_data, ToOpen
  <2>2. CASE UNCHANGED <<inbox, state>> /\ rxLen' = rxLen + n
    BY <1>1, <1>3, <2>2 DEF ReadBytes, handshake_on_data
  <2>3. QED
    BY <1>3, <2>1, <2>2 DEF handshake_on_data
<1>4. QED
  BY <1>2, <1>3 DEF ReadBytes

LEMMA StreamStep ==
  ASSUME Control, Stack, Received, Stream, [Next]_vars
  PROVE  Stream'
<1>0. inbox \in Seq(Item) /\ rxLen \in Nat /\ netLen \in Nat
  BY ConnectionAssumption DEF Received
<1>1. CASE UNCHANGED <<inbox, rxLen>> /\ netLen' \in {netLen, 0}
  <2>1. rxLen' + netLen' \in Nat /\ rxLen' + netLen' <= rxLen + netLen /\ rxLen + netLen \in Nat
    <3>1. rxLen' = rxLen /\ netLen' \in Nat /\ netLen' <= netLen
      BY <1>0, <1>1
    <3>2. \A a, b, c \in Nat : b <= c => /\ a + b \in Nat /\ a + c \in Nat
                                          /\ a + b <= a + c
      OBVIOUS
    <3>3. QED
      BY <1>0, <3>1, <3>2, Zenon
  <2>2. Fits(inbox, rxLen' + netLen')
    BY <1>0, <2>1, LessFits DEF Stream
  <2>3. QED
    BY <1>1, <2>2 DEF Stream
<1>2. ASSUME NEW item \in Item, PeerSend(item) PROVE Stream'
  <2>1. inbox' = Append(inbox, item) /\ rxLen' = rxLen /\ netLen' = netLen + Size(item)
    BY <1>2 DEF PeerSend
  <2>2. Size(item) \in Nat /\ rxLen + netLen \in Nat
    BY <1>0, SizeType
  <2>3. Fits(Append(inbox, item), (rxLen + netLen) + Size(item))
    BY <1>0, <2>2, AppendFits DEF Stream
  <2>4. rxLen' + netLen' = (rxLen + netLen) + Size(item)
    BY <1>0, <2>1, <2>2
  <2>5. QED
    BY <2>1, <2>3, <2>4, Zenon DEF Stream
<1>3. ASSUME NEW n \in 1..RxCapacity, ReadBytes(n) PROVE Stream'
  <2>1. (rxLen + n) + (netLen - n) = rxLen + netLen
    BY <1>0, ConnectionAssumption
  <2>2. CASE UNCHANGED inbox /\ rxLen' = rxLen + n
    <3>1. netLen' = netLen - n
      BY <1>3, ReadBytesEffect
    <3>2. QED
      BY <2>1, <2>2, <3>1, Zenon DEF Stream
  <2>3. CASE Arrived(rxLen + n) /\ Consume(rxLen + n)
    <3>1. rxLen + n \in Nat /\ netLen - n \in Nat /\ netLen' = netLen - n
      BY <1>3, ReadBytesEffect
    <3>2. Fits(inbox, (rxLen + n) + (netLen - n))
      BY <2>1, Zenon DEF Stream
    <3>3. QED
      BY <2>3, <3>1, <3>2, ConsumeStream
  <2>4. QED
    BY <1>3, <2>2, <2>3, ReadBytesEffect
<1>4. CASE ParseControl
  BY <1>0, <1>4, ConsumeStream DEF ParseControl, Stream
<1>5. CASE ReturnMessage
  BY <1>0, <1>5, MessageHeld, ConsumeStream DEF ReturnMessage, Stream
<1>6. QED
  BY <1>1, <1>2, <1>3, <1>4, <1>5
  DEF Next, vars, net, Environment, PeerShut, PeerReset, Tick,
      Application, Send, AppClose, Callback, ReturnPlain,
      ReturnCloseFrame, ReturnClosed, Parser, ParseDone, ParseMessage, ParseClose,
      IoReturn, Reactor, Turn, ReadFails, ReadNothing,
      WriteBytes, WriteNothing, WriteFails, HangUp, Sweep, Reap, Gone, Poll

LEMMA WaitsStep ==
  ASSUME Control, Stack, Received, Rest, Waits, [Next]_vars
  PROVE  Waits'
<1>0. inbox \in Seq(Item) /\ Len(inbox) \in Nat /\ items \in Nat
  BY LenProperties, ConnectionAssumption DEF Received, Rest
<1>1. state' = "Handshaking" => state = "Handshaking"
  BY DEF Next, vars, net, Environment, PeerSend, PeerShut, PeerReset, Tick,
      Application, Send, AppClose, Callback, ReturnPlain, ReturnMessage,
      ReturnCloseFrame, ReturnClosed, Parser, ParseDone, ParseMessage, ParseClose,
      ParseControl, IoReturn, Reactor, Turn, ReadFails, ReadNothing, ReadBytes,
      WriteBytes, WriteNothing, WriteFails, HangUp, Sweep, Reap, Gone, Poll,
      Close, ToClosed, ToClosing, ToOpen, handshake_on_data, open_on_data, closing_on_data
<1>2. CASE UNCHANGED <<inbox, items>>
  BY <1>1, <1>2 DEF Waits
<1>3. ASSUME NEW item \in Item, PeerSend(item) PROVE Waits'
  <2>1. items' # 0 /\ inbox' = Append(inbox, item) /\ state' = state
    BY <1>0, <1>3 DEF PeerSend
  <2>2. ASSUME PeerWaits, state = "Handshaking" PROVE Len(inbox') <= 1
    <3>1. item \in Request /\ items = 0
      BY <1>3, <2>2 DEF PeerSend, Item
    <3>2. Len(inbox) = 0
      BY <3>1, EmptySeq DEF Waits
    <3>3. Len(inbox') = Len(inbox) + 1
      BY <1>0, <2>1, AppendProperties
    <3>4. QED
      BY <3>2, <3>3
  <2>3. QED
    BY <2>1, <2>2 DEF Waits
<1>4. CASE /\ inbox # <<>> /\ inbox' = Tail(inbox) /\ items' = items
  <2>1. items # 0 /\ Len(inbox') = Len(inbox) - 1
    BY <1>0, <1>4, HeadTailProperties DEF Waits
  <2>2. Len(inbox) <= 1 => Len(inbox') <= 1
    BY <1>0, <2>1
  <2>3. QED
    BY <1>1, <1>4, <2>1, <2>2 DEF Waits
<1>5. CASE ParseControl
  BY <1>4, <1>5 DEF ParseControl, Arrived, Consume
<1>6. CASE ReturnMessage
  BY <1>4, <1>6, MessageHeld DEF ReturnMessage, Arrived, Consume
<1>7. ASSUME NEW n \in 1..RxCapacity, ReadBytes(n) PROVE Waits'
  BY <1>2, <1>4, <1>7, ReadBytesEffect DEF Arrived, Consume
<1>8. QED
  BY <1>2, <1>3, <1>5, <1>6, <1>7
  DEF Next, vars, net, Environment, PeerShut, PeerReset, Tick,
      Application, Send, AppClose, Callback, ReturnPlain,
      ReturnCloseFrame, ReturnClosed, Parser, ParseDone, ParseMessage, ParseClose,
      IoReturn, Reactor, Turn, ReadFails, ReadNothing,
      WriteBytes, WriteNothing, WriteFails, HangUp, Sweep, Reap, Gone, Poll

(* on_message runs inside the parser's loop, and nothing leaves the loop   *)
(* meanwhile.                                                              *)
LEMMA LoopingStep ==
  ASSUME Control, Stack, Looping, [Next]_vars
  PROVE  Looping'
<1>0. callbacks \in Seq(Label)
  BY DEF Control, ControlTypes
<1>1. CASE ParseMessage
  BY <1>1 DEF ParseMessage, InLoop, Looping
<1>2. ASSUME NEW k \in DOMAIN callbacks, callbacks[k] = "on_message"
      PROVE  io' = "parse"
  <2>1. io = "parse" /\ callbacks # <<>>
    BY <1>0, <1>2 DEF Looping
  <2>2. ~ReturnCloseFrame
    <3>1. SUFFICES ASSUME ReturnCloseFrame PROVE FALSE
      OBVIOUS
    <3>2. /\ callbacks[1] = "on_close_frame" /\ 1 \in DOMAIN callbacks
          /\ "on_close_frame" \in Outermost /\ "on_message" \in Outermost
      BY <1>0, <2>1, <3>1, PopProperties DEF ReturnCloseFrame, Returns, Outermost
    <3>3. 1 = Len(callbacks) /\ k = Len(callbacks)
      BY <1>2, <3>2 DEF Stack, Nesting
    <3>4. QED
      BY <1>2, <3>2, <3>3
  <2>3. io' = io
    BY <2>1, <2>2
    DEF Next, vars, net, Environment, PeerSend, PeerShut, PeerReset, Tick,
      Application, Send, AppClose, Callback, ReturnPlain, ReturnMessage,
      ReturnClosed, Parser, ParseDone, ParseMessage, ParseClose, InLoop,
      ParseControl, IoReturn, Reactor, Turn, ReadFails, ReadNothing, ReadBytes,
      WriteBytes, WriteNothing, WriteFails, HangUp, Sweep, Reap, Gone, Poll,
      Stage, AtRest
  <2>4. QED
    BY <2>1, <2>3
<1>3. QED
  BY <1>1, <1>2, MessageKept DEF Looping

LEMMA ParsedStep ==
  ASSUME Control, Stack, Received, Stream, Waits, Looping, Parsed, [Next]_vars
  PROVE  Parsed'
<1>0. inbox \in Seq(Item) /\ rxLen \in Nat /\ netLen \in Nat /\ Len(inbox) \in Nat
  BY ConnectionAssumption, LenProperties DEF Received
<1>1. CASE state' # "Open" \/ io' = "parse"
  BY <1>1 DEF Parsed
<1>2. CASE /\ UNCHANGED <<inbox, rxLen>> /\ state' = state
           /\ io # "parse" \/ io' = io
  BY <1>2 DEF Parsed, Arrived
<1>3. CASE ParseDone
  BY <1>3 DEF ParseDone, net, Parsed, Arrived
<1>4. ASSUME NEW item \in Item, PeerSend(item) PROVE Parsed'
  <2>1. inbox' = Append(inbox, item) /\ UNCHANGED <<rxLen, state, io>>
    BY <1>4 DEF PeerSend
  <2>2. CASE inbox = <<>>
    <3>1. rxLen = 0
      <4>1. rxLen + netLen \in Nat /\ Fits(<<>>, rxLen + netLen)
        BY <1>0, <2>2 DEF Stream
      <4>2. rxLen + netLen = 0
        BY <4>1, EmptyFits
      <4>3. QED
        BY <1>0, <4>2
    <3>2. Head(inbox') = item
      BY <2>1, <2>2
    <3>3. Size(item) \in Nat \ {0}
      BY SizeType
    <3>4. QED
      BY <2>1, <3>1, <3>2, <3>3 DEF Parsed, Arrived
  <2>3. CASE inbox # <<>>
    <3>1. Head(inbox') = Head(inbox)
      BY <1>0, <2>1, <2>3
    <3>2. QED
      BY <2>1, <2>3, <3>1 DEF Parsed, Arrived
  <2>4. QED
    BY <2>2, <2>3
<1>5. ASSUME NEW n \in 1..RxCapacity, ReadBytes(n) PROVE Parsed'
  <2>1. CASE Arrived(rxLen + n) /\ Consume(rxLen + n) /\ state = "Handshaking"
    <3>1. inbox # <<>> /\ inbox' = Tail(inbox)
      BY <2>1 DEF Arrived, Consume
    <3>2. ASSUME PeerWaits PROVE inbox' = <<>>
      <4>1. Len(inbox) <= 1
        BY <2>1, <3>2 DEF Waits
      <4>2. inbox' \in Seq(Item) /\ Len(inbox') = Len(inbox) - 1 /\ Len(inbox') \in Nat
        BY <1>0, <3>1, HeadTailProperties, LenProperties
      <4>3. Len(inbox') = 0
        BY <1>0, <4>1, <4>2
      <4>4. QED
        BY <4>2, <4>3, EmptySeq
    <3>3. QED
      BY <3>2 DEF Parsed, Arrived
  <2>2. QED
    BY <1>1, <1>5, <2>1, ReadBytesEffect
<1>6. CASE ParseControl
  BY <1>1, <1>6 DEF ParseControl, InLoop
<1>7. CASE ReturnMessage
  BY <1>1, <1>7, MessageHeld DEF ReturnMessage, Looping
<1>8. ASSUME Close, UNCHANGED <<inbox, rxLen, io>> PROVE Parsed'
  BY <1>1, <1>2, <1>8 DEF Close, ToClosing, ToClosed
<1>9. CASE IoReturn
  BY <1>2, <1>9 DEF IoReturn, net
<1>10. ASSUME NEW n \in 1..TxCapacity, WriteBytes(n) PROVE Parsed'
  BY <1>2, <1>10 DEF WriteBytes, net, Stage, AtRest
<1>11. CASE ReturnCloseFrame
  BY <1>1, <1>11 DEF ReturnCloseFrame, ToClosed
<1>12. QED
  BY <1>2, <1>3, <1>4, <1>5, <1>6, <1>7, <1>8, <1>9, <1>10, <1>11
  DEF Next, vars, net, Environment, PeerShut, PeerReset, Tick,
      Application, Send, AppClose, Callback, ReturnPlain, ReturnClosed,
      Parser, ParseMessage, ParseClose, Reactor, Turn, ReadFails, ReadNothing,
      WriteNothing, WriteFails, HangUp, Sweep, Reap, Gone, Poll

Parsing == Stream /\ Waits /\ Looping /\ Parsed

(* A frame that is complete in rx_buffer_ is parsed in the pass of the     *)
(* reactor that completed it: parse_frames leaves its loop only at an      *)
(* incomplete frame, and the handshake leaves nothing behind it, provided  *)
(* that the peer waits for the 101 response.                               *)
THEOREM EveryFrameParsed == Spec => []NoFrameLeftBehind
<1>1. Init => Parsing
  <2>1. ASSUME Init
        PROVE  Parsing
    <3>1. Len(<<>>) = 0 /\ DOMAIN <<>> = {}
      BY EmptySeq
    <3>2. Stream
      <4> DEFINE off == [k \in Nat |-> 0]
      <4>1. off \in [Nat -> Int] /\ Ends(off, <<>>) /\ 0 <= off[Len(<<>>)]
        BY <3>1 DEF Ends
      <4>2. inbox = <<>> /\ rxLen + netLen = 0
        BY <2>1 DEF Init
      <4>3. Fits(<<>>, 0)
        BY <4>1 DEF Fits
      <4>4. QED
        BY <4>2, <4>3, Zenon DEF Stream
    <3>3. Waits /\ Looping /\ Parsed
      BY <2>1, <3>1 DEF Init, Waits, Looping, Parsed
    <3>4. QED
      BY <3>2, <3>3 DEF Parsing
  <2>2. QED
    BY <2>1
<1>2. Control /\ Stack /\ Received /\ Rest /\ Parsing /\ [Next]_vars => Parsing'
  BY StreamStep, WaitsStep, LoopingStep, ParsedStep DEF Parsing
<1>3. Parsing => NoFrameLeftBehind
  BY DEF Parsing, Parsed, NoFrameLeftBehind, AtRest
<1>4. QED
  BY <1>1, <1>2, <1>3, ControlAlways, StackAlways, BuffersAlways, PTL DEF Spec

=============================================================================
