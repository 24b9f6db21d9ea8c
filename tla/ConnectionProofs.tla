-------------------------- MODULE ConnectionProofs --------------------------
(***************************************************************************)
(* Theorems about Connection, for every capacity, every set of requests    *)
(* and frames and any number of calls of the application.                  *)
(*                                                                         *)
(* The argument has two layers.  Control speaks of the state machine, the  *)
(* callback stack and the reactor's schedule only; it is inductive by      *)
(* itself, and under it every step of Connection is a step of              *)
(* CallbackContract or a stutter.                                          *)
(***************************************************************************)
EXTENDS Connection, SequenceTheorems, TLAPS

States == {"Handshaking", "Open", "Closing", "Closed"}

(* Types of the variables that Control is about. *)
ControlTypes ==
  /\ state \in States
  /\ sockOpen \in BOOLEAN /\ paused \in BOOLEAN /\ removed \in BOOLEAN
  /\ callbacks \in Seq(Label)

(* The socket is given back only in Closed; until then a connection that   *)
(* is Closed is still inside its on_close(conn, true).                     *)
Released ==
  /\ ~sockOpen => state = "Closed"
  /\ state = "Closed" /\ sockOpen =>
       \E i \in DOMAIN callbacks : callbacks[i] = "on_closed"

(* on_close(conn, true) runs only in Closed. *)
InClosed ==
  \A i \in DOMAIN callbacks : callbacks[i] = "on_closed" => state = "Closed"

(* The reactor removes closed connections at the end of a pass. *)
Schedule ==
  /\ todo \in Seq({"others", "in", "out", "hup", "sweep", "reap"})
  /\ \A i \in DOMAIN todo : todo[i] = "reap" => i = Len(todo)

(* A connection that was dropped is closed and nothing of it is running. *)
Dropped == removed => state = "Closed" /\ AtRest /\ todo = <<>>

(* Frames are parsed only after the handshake. *)
ParsesFrames == io = "parse" => state # "Handshaking"

(* An error is followed by Close before anything else happens. *)
ErrorCloses == err # "Ok" => state \in {"Closing", "Closed"}

Control ==
  /\ ControlTypes /\ Released /\ InClosed /\ Dropped
  /\ ParsesFrames /\ ErrorCloses

-----------------------------------------------------------------------------
(* The two ways the callback stack changes. *)

(* Entering a callback puts it first and keeps the others in order. *)
LEMMA PushProperties ==
  ASSUME NEW s \in Seq(Label), NEW label \in Label
  PROVE  /\ <<label>> \o s \in Seq(Label)
         /\ Len(<<label>> \o s) = Len(s) + 1
         /\ (<<label>> \o s)[1] = label
         /\ \A i \in 1..Len(s) : (<<label>> \o s)[i + 1] = s[i]
         /\ <<label>> \o s # <<>>
  OBVIOUS

(* Leaving the innermost callback keeps the others in order. *)
LEMMA PopProperties ==
  ASSUME NEW s \in Seq(Label), s # <<>>
  PROVE  /\ Tail(s) \in Seq(Label)
         /\ Len(Tail(s)) = Len(s) - 1
         /\ \A i \in 1..Len(Tail(s)) : Tail(s)[i] = s[i + 1]
         /\ Head(s) = s[1] /\ Len(s) >= 1
  OBVIOUS

(* Control says nothing of the peer, of the buffers and of the clock. *)
control == <<state, sockOpen, paused, removed, callbacks, io, err, todo>>

LEMMA ControlStutters == Control /\ UNCHANGED control => Control'
BY DEF Control, ControlTypes, Released, InClosed, Dropped, ParsesFrames, ErrorCloses,
       AtRest, control

LEMMA ControlInit == Init => Control
<1> SUFFICES ASSUME Init PROVE Control
  OBVIOUS
<1>1. callbacks \in Seq(Label) /\ state \in States
  BY DEF Init, States
<1>2. ControlTypes
  BY <1>1, Zenon DEF Init, ControlTypes
<1>3. Released /\ Dropped
  BY Zenon DEF Init, Released, Dropped
<1>4. InClosed /\ ParsesFrames /\ ErrorCloses
  BY DEF Init, InClosed, ParsesFrames, ErrorCloses
<1>5. QED
  BY <1>2, <1>3, <1>4 DEF Control

(* Whatever calls Close while the connection is not dropped leaves it      *)
(* Closing or Closed, and inside its on_close if it became Closed just now. *)
LEMMA CloseControl ==
  ASSUME Control, Close, ~removed,
         UNCHANGED <<sockOpen, paused, removed, io>>
  PROVE  Control' /\ state' \in {"Closing", "Closed"}
<1>0. "on_closed" \in Label
  BY DEF Label
<1>1. CASE state = "Closed" /\ UNCHANGED <<state, callbacks>>
  BY <1>1 DEF Control, ControlTypes, Released, InClosed, Dropped, ParsesFrames,
              ErrorCloses, States
<1>2. CASE state = "Open" /\ state' = "Closing" /\ UNCHANGED callbacks
  BY <1>2 DEF Control, ControlTypes, Released, InClosed, Dropped, ParsesFrames,
              ErrorCloses, States
<1>3. CASE state' = "Closed" /\ callbacks' = <<"on_closed">> \o callbacks
  <2>1. /\ callbacks' \in Seq(Label)
        /\ 1 \in DOMAIN callbacks' /\ callbacks'[1] = "on_closed"
    BY <1>0, <1>3, PushProperties DEF Control, ControlTypes
  <2>2. QED
    BY <1>3, <2>1 DEF Control, ControlTypes, Released, InClosed, Dropped, ParsesFrames,
                      ErrorCloses, States
<1>4. QED
  BY <1>1, <1>2, <1>3 DEF Close, ToClosing, ToClosed

(* A callback that is entered leaves the connection open or closed as it   *)
(* was: only the stack grows.                                              *)
LEMMA EnterControl ==
  ASSUME Control, ~removed, NEW label \in Label \ {"on_closed"},
         callbacks' = <<label>> \o callbacks,
         paused' \in BOOLEAN, UNCHANGED <<state, sockOpen, removed>>,
         io' = "parse" => state # "Handshaking",
         err' \in {err, "Ok"}
  PROVE  Control'
<1>1. /\ callbacks' \in Seq(Label) /\ callbacks \in Seq(Label)
      /\ \A i \in DOMAIN callbacks' :
            \/ i = 1 /\ callbacks'[i] # "on_closed"
            \/ i - 1 \in DOMAIN callbacks /\ callbacks'[i] = callbacks[i - 1]
      /\ \A i \in DOMAIN callbacks :
            i + 1 \in DOMAIN callbacks' /\ callbacks'[i + 1] = callbacks[i]
  <2>1. callbacks \in Seq(Label) /\ label \in Label /\ label # "on_closed"
    BY DEF Control, ControlTypes
  <2>2. /\ callbacks' \in Seq(Label) /\ Len(callbacks') = Len(callbacks) + 1
        /\ callbacks'[1] = label
        /\ \A i \in 1..Len(callbacks) : callbacks'[i + 1] = callbacks[i]
    BY <2>1, PushProperties
  <2>3. /\ DOMAIN callbacks' = 1..(Len(callbacks) + 1)
        /\ DOMAIN callbacks = 1..Len(callbacks) /\ Len(callbacks) \in Nat
    BY <2>1, <2>2
  <2>4. ASSUME NEW i \in DOMAIN callbacks', i # 1
        PROVE  i - 1 \in DOMAIN callbacks /\ callbacks'[i] = callbacks[i - 1]
    <3>1. i - 1 \in 1..Len(callbacks) /\ (i - 1) + 1 = i
      BY <2>3, <2>4
    <3>2. QED
      BY <2>2, <2>3, <3>1
  <2>5. \A i \in DOMAIN callbacks :
            i + 1 \in DOMAIN callbacks' /\ callbacks'[i + 1] = callbacks[i]
    BY <2>2, <2>3
  <2>6. callbacks'[1] # "on_closed"
    BY <2>1, <2>2, Zenon
  <2>7. QED
    BY <2>1, <2>2, <2>4, <2>5, <2>6, Zenon
<1>2. QED
  BY <1>1 DEF Control, ControlTypes, Released, InClosed, Dropped, ParsesFrames, ErrorCloses

(* A callback other than on_closed that returns. *)
LEMMA ReturnControl ==
  ASSUME Control, callbacks # <<>>, Head(callbacks) # "on_closed",
         callbacks' = Tail(callbacks),
         UNCHANGED <<state, sockOpen, paused, removed, io, err>>
  PROVE  Control'
<1>1. /\ callbacks' \in Seq(Label) /\ callbacks \in Seq(Label)
      /\ callbacks[1] # "on_closed"
      /\ \A i \in DOMAIN callbacks :
            i # 1 => i - 1 \in DOMAIN callbacks' /\ callbacks'[i - 1] = callbacks[i]
      /\ \A i \in DOMAIN callbacks' :
            i + 1 \in DOMAIN callbacks /\ callbacks'[i] = callbacks[i + 1]
  BY PopProperties DEF Control, ControlTypes
<1>2. ~removed
  BY DEF Control, Dropped, AtRest
<1>3. QED
  BY <1>1, <1>2 DEF Control, ControlTypes, Released, InClosed, Dropped, ParsesFrames, ErrorCloses

(* A step that moves only the reactor's schedule, io to something other    *)
(* than the parser, or the error back to Ok.                               *)
LEMMA ScheduleControl ==
  ASSUME Control, ~removed, UNCHANGED <<state, sockOpen, paused, removed, callbacks>>,
         io' = "parse" => state # "Handshaking",
         err' \in {err, "Ok"}
  PROVE  Control'
BY DEF Control, ControlTypes, Released, InClosed, Dropped, ParsesFrames, ErrorCloses

(* The connection is still in the reactor's hands while it has work. *)
LEMMA WorkingNotRemoved ==
  ASSUME Control, todo # <<>> \/ ~AtRest
  PROVE  ~removed
BY DEF Control, Dropped

LEMMA ReactorControl == Schedule /\ Control /\ Reactor => Control'
<1> SUFFICES ASSUME Schedule, Control, Reactor PROVE Control'
  OBVIOUS
<1>0. ~removed /\ AtRest
  BY WorkingNotRemoved DEF Reactor, Turn, ReadFails, ReadNothing, ReadBytes,
     WriteBytes, WriteNothing, WriteFails, HangUp, Sweep, Reap, Stage
<1>1. CASE Turn \/ ReadNothing \/ WriteNothing
  BY <1>0, <1>1, ScheduleControl DEF Turn, ReadNothing, WriteNothing, AtRest
<1>2. ASSUME NEW code \in {"BufferFull", "SocketError", "ConnectionClosed"},
             ReadFails(code)
      PROVE  Control'
  BY <1>0, <1>2, CloseControl DEF ReadFails
<1>3. CASE WriteFails \/ HangUp
  BY <1>0, <1>3, CloseControl DEF WriteFails, HangUp
<1>4. CASE Sweep
  <2>1. CASE TimedOut /\ Close
    BY <1>0, <1>4, <2>1, CloseControl DEF Sweep
  <2>2. CASE ~TimedOut /\ UNCHANGED <<tx, hist, state, late, callbacks>>
    BY <1>0, <1>4, <2>2, ScheduleControl DEF Sweep, AtRest
  <2>3. QED
    BY <1>4, <2>1, <2>2 DEF Sweep
<1>5. ASSUME NEW n \in 1..RxCapacity, ReadBytes(n) PROVE Control'
  <2> USE <1>5 DEF ReadBytes
  <2>1. CASE handshake_on_data(rxLen + n)
    <3>1. CASE UNCHANGED <<state, callbacks>> /\ io' = "idle"
      BY <1>0, <3>1, ScheduleControl
    <3>2. CASE ToOpen /\ io' = "return"
      <4>1. callbacks' = <<"on_open">> \o callbacks /\ "on_open" \in Label
        BY <3>2 DEF ToOpen, Label
      <4>2. /\ callbacks' \in Seq(Label)
            /\ \A i \in DOMAIN callbacks' : callbacks'[i] = "on_open"
        BY <1>0, <4>1, PushProperties DEF Control, ControlTypes, AtRest
      <4>3. QED
        BY <1>0, <2>1, <3>2, <4>2 DEF ToOpen, handshake_on_data, Control,
           ControlTypes, Released, InClosed, Dropped, ParsesFrames, ErrorCloses, States
    <3>3. QED
      BY <2>1, <3>1, <3>2 DEF handshake_on_data
  <2>2. CASE open_on_data(rxLen + n)
    BY <1>0, <2>2, ScheduleControl DEF open_on_data
  <2>3. CASE closing_on_data(rxLen + n)
    <3>1. CASE UNCHANGED <<state, callbacks>> /\ io' = "idle"
      BY <1>0, <3>1, ScheduleControl
    <3>2. CASE ToClosed(callbacks) /\ io' = "return"
      <4>1. callbacks' = <<"on_closed">> \o callbacks /\ "on_closed" \in Label
        BY <3>2 DEF ToClosed, Label
      <4>2. /\ callbacks' \in Seq(Label)
            /\ 1 \in DOMAIN callbacks' /\ callbacks'[1] = "on_closed"
        BY <4>1, PushProperties DEF Control, ControlTypes
      <4>3. QED
        BY <1>0, <3>2, <4>2 DEF ToClosed, Control, ControlTypes, Released, InClosed,
           Dropped, ParsesFrames, ErrorCloses, States
    <3>3. QED
      BY <2>3, <3>1, <3>2 DEF closing_on_data
  <2>4. QED
    BY <2>1, <2>2, <2>3
<1>6. ASSUME NEW n \in 1..TxCapacity, WriteBytes(n) PROVE Control'
  <2>1. CASE UNCHANGED <<paused, callbacks, io>>
    BY <1>0, <1>6, <2>1, ScheduleControl DEF WriteBytes, AtRest
  <2>2. CASE paused' = FALSE /\ callbacks' = <<"on_drain">> /\ io' = "return"
    <3>1. callbacks' = <<"on_drain">> \o callbacks /\ "on_drain" \in Label
      BY <1>0, <2>2 DEF AtRest, Label
    <3>2. QED
      BY <1>0, <1>6, <2>2, <3>1, EnterControl DEF WriteBytes
  <2>3. QED
    BY <1>6, <2>1, <2>2 DEF WriteBytes
<1>7. CASE Reap
  <2>1. is_closed \in BOOLEAN /\ (is_closed => state = "Closed")
    BY DEF is_closed, Control, ControlTypes, Released
  <2>2. todo' = <<>>
    BY <1>7 DEF Reap, Stage, Schedule
  <2>3. QED
    BY <1>0, <1>7, <2>1, <2>2 DEF Reap, Control, ControlTypes, Released, InClosed, Dropped,
       ParsesFrames, ErrorCloses, AtRest
<1>8. QED
  BY <1>1, <1>2, <1>3, <1>4, <1>5, <1>6, <1>7 DEF Reactor

LEMMA ScheduleStep == Schedule /\ [Next]_vars => Schedule'
<1> SUFFICES ASSUME Schedule, [Next]_vars PROVE Schedule'
  OBVIOUS
<1>1. CASE UNCHANGED todo
  BY <1>1 DEF Schedule
<1>2. CASE todo # <<>> /\ todo' = Tail(todo)
  BY <1>2 DEF Schedule
<1>3. ASSUME NEW in \in BOOLEAN, NEW out \in BOOLEAN, Poll(in, out)
      PROVE  Schedule'
  <2> DEFINE a == IF in THEN <<"in">> ELSE <<>>
             b == IF out THEN <<"out">> ELSE <<>>
             c == IF peer = "reset" THEN <<"hup">> ELSE <<>>
             Early == {"others", "in", "out", "hup"}
  <2>1. todo' = (((<<"others">> \o a) \o b) \o c) \o <<"sweep", "reap">>
    BY <1>3 DEF Poll
  <2>2. a \in Seq(Early) /\ b \in Seq(Early) /\ c \in Seq(Early)
    <3>1. \A word \in Early : <<word>> \in Seq(Early)
      OBVIOUS
    <3>2. <<>> \in Seq(Early) /\ {"in", "out", "hup"} \subseteq Early
      OBVIOUS
    <3>3. QED
      BY <3>1, <3>2, Zenon
  <2> DEFINE front == ((<<"others">> \o a) \o b) \o c
  <2> HIDE DEF a, b, c
  <2>3. front \in Seq(Early)
    BY <2>2
  <2> HIDE DEF front
  <2>4. todo' = front \o <<"sweep", "reap">>
    BY <2>1 DEF front
  <2>5. /\ todo' \in Seq({"others", "in", "out", "hup", "sweep", "reap"})
        /\ Len(todo') = Len(front) + 2
        /\ \A i \in 1..Len(front) : todo'[i] \in Early
        /\ todo'[Len(front) + 1] = "sweep"
    BY <2>3, <2>4
  <2>6. QED
    BY <2>3, <2>5 DEF Schedule
<1>4. QED
  BY <1>1, <1>2, <1>3
  DEF Next, vars, net, reactor, Environment, PeerSend, PeerShut, PeerReset, Tick,
      Application, Send, AppClose, Callback, ReturnPlain, ReturnMessage,
      ReturnCloseFrame, ReturnClosed, Parser, ParseDone, ParseMessage, ParseClose,
      ParseControl, IoReturn, Reactor, Turn, ReadFails, ReadNothing, ReadBytes,
      WriteBytes, WriteNothing, WriteFails, HangUp, Sweep, Reap, Stage, Gone

LEMMA ParserControl == Control /\ Parser => Control'
<1> SUFFICES ASSUME Control, Parser PROVE Control'
  OBVIOUS
<1>0. ~removed
  BY WorkingNotRemoved DEF Parser, ParseDone, ParseMessage, ParseClose,
     ParseControl, IoReturn, InLoop, AtRest
<1>1. CASE ParseDone \/ ParseControl \/ IoReturn
  BY <1>0, <1>1, ScheduleControl DEF ParseDone, ParseControl, IoReturn, reactor,
     Control, ParsesFrames
<1>2. ASSUME NEW label \in {"on_message", "on_close_frame"},
             InLoop, callbacks' = <<label>>,
             UNCHANGED <<reactor, state, sockOpen, paused, err, io>>
      PROVE  Control'
  <2>1. callbacks' = <<label>> \o callbacks /\ label \in Label
    BY <1>2 DEF InLoop, Label
  <2>2. QED
    BY <1>0, <1>2, <2>1, EnterControl DEF reactor, Control, ControlTypes, ParsesFrames
<1>3. QED
  BY <1>1, <1>2 DEF Parser, ParseMessage, ParseClose

LEMMA CallbackControl == Control /\ Callback => Control'
<1> SUFFICES ASSUME Control, Callback PROVE Control'
  OBVIOUS
<1>0. /\ callbacks # <<>> /\ callbacks \in Seq(Label)
      /\ ~removed /\ "on_closed" \in Label
  BY WorkingNotRemoved DEF Callback, ReturnPlain, ReturnMessage, ReturnCloseFrame,
     ReturnClosed, Returns, Control, ControlTypes, AtRest, Label
<1>1. CASE ReturnPlain \/ ReturnMessage
  BY <1>1, ReturnControl DEF ReturnPlain, ReturnMessage, Returns, reactor
<1>2. CASE ReturnCloseFrame
  <2>1. callbacks' = <<"on_closed">> \o Tail(callbacks) /\ state' = "Closed"
    BY <1>2 DEF ReturnCloseFrame, ToClosed
  <2>2. /\ callbacks' \in Seq(Label)
        /\ 1 \in DOMAIN callbacks' /\ callbacks'[1] = "on_closed"
    BY <1>0, <2>1, PopProperties, PushProperties
  <2>3. QED
    BY <1>0, <1>2, <2>1, <2>2 DEF ReturnCloseFrame, reactor, Control, ControlTypes,
       Released, InClosed, Dropped, ParsesFrames, ErrorCloses, States
<1>3. CASE ReturnClosed
  <2>1. callbacks' \in Seq(Label)
    BY <1>0, <1>3, PopProperties DEF ReturnClosed
  <2>2. state = "Closed"
    BY <1>0, <1>3, PopProperties DEF ReturnClosed, Returns, Control, InClosed
  <2>3. QED
    BY <1>0, <1>3, <2>1, <2>2 DEF ReturnClosed, reactor, Control, ControlTypes,
       Released, InClosed, Dropped, ParsesFrames, ErrorCloses
<1>4. QED
  BY <1>1, <1>2, <1>3 DEF Callback

LEMMA ApplicationControl == Control /\ Application => Control'
<1> SUFFICES ASSUME Control, Application PROVE Control'
  OBVIOUS
<1>0. ~removed
  BY WorkingNotRemoved DEF Application, Send, AppClose, MayCall, AtRest
<1>1. CASE AppClose
  BY <1>0, <1>1, CloseControl DEF AppClose
<1>2. ASSUME NEW n \in SendLen, Send(n) PROVE Control'
  <2>1. CASE UNCHANGED callbacks
    BY <1>0, <1>2, <2>1 DEF Send, Control, ControlTypes, Released, InClosed,
       Dropped, ParsesFrames, ErrorCloses
  <2>2. CASE callbacks' = <<"on_backpressure">> \o callbacks
    <3>1. "on_backpressure" \in Label \ {"on_closed"}
      BY DEF Label
    <3>2. QED
      BY <1>0, <1>2, <2>2, <3>1, EnterControl DEF Send, Control, ControlTypes,
         ParsesFrames
  <2>3. QED
    BY <1>2, <2>1, <2>2 DEF Send
<1>3. QED
  BY <1>1, <1>2 DEF Application

LEMMA ControlStep == Schedule /\ Control /\ [Next]_vars => Control'
<1> SUFFICES ASSUME Schedule, Control, [Next]_vars PROVE Control'
  OBVIOUS
<1>1. CASE Environment \/ Gone \/ UNCHANGED vars
  BY <1>1, ControlStutters DEF Environment, PeerSend, PeerShut, PeerReset, Tick,
     Gone, vars, net, tx, hist, reactor, control
<1>2. ASSUME NEW in \in BOOLEAN, NEW out \in BOOLEAN, Poll(in, out)
      PROVE  Control'
  BY <1>2, ScheduleControl DEF Poll, AtRest
<1>3. QED
  BY <1>1, <1>2, ReactorControl, ParserControl, CallbackControl,
     ApplicationControl DEF Next

(* The reactor's schedule and the control state, in every reachable state. *)
THEOREM ControlAlways == Spec => [](Schedule /\ Control)
<1>1. Init => Schedule
  BY DEF Init, Schedule
<1>2. QED
  BY <1>1, ControlInit, ControlStep, ScheduleStep, PTL DEF Spec

(* The state machine and the socket agree between two stages of the        *)
(* reactor: a connection is Closed exactly when its descriptor has been    *)
(* given back, whatever the application called from its callbacks.         *)
THEOREM SocketFollowsState == Spec => []ClosedIffReleased
<1>1. Control => ClosedIffReleased
  BY DEF Control, ControlTypes, Released, ClosedIffReleased, AtRest
<1>2. QED
  BY <1>1, ControlAlways, PTL

(* No I/O error leaves a connection in service: after handle_read or       *)
(* handle_write has failed, the connection is Closing or Closed.           *)
THEOREM ErrorsClose == Spec => []ErrorMeansClosing
<1>1. Control => ErrorMeansClosing
  BY DEF Control, ErrorCloses, ErrorMeansClosing
<1>2. QED
  BY <1>1, ControlAlways, PTL

-----------------------------------------------------------------------------
(* Under Control, every step is a step of the contract or changes nothing  *)
(* the contract speaks of.                                                 *)

LEMMA CloseKeepsContract ==
  ASSUME Control, Close, ~removed, UNCHANGED <<paused, removed>>
  PROVE  [Contract!Next]_(Contract!vars)
<1>1. CASE state = "Closed" /\ UNCHANGED <<state, callbacks>>
  BY <1>1 DEF Contract!vars
<1>2. CASE state = "Open" /\ state' = "Closing" /\ UNCHANGED callbacks
  BY <1>2 DEF Contract!StartClosing, Contract!Next
<1>3. CASE /\ state \in {"Handshaking", "Closing"} /\ state' = "Closed"
           /\ callbacks' = <<"on_closed">> \o callbacks
  BY <1>3 DEF Contract!Close, Contract!Enter, Contract!Next
<1>4. QED
  BY <1>1, <1>2, <1>3 DEF Close, ToClosing, ToClosed

LEMMA ReactorKeepsContract ==
  ASSUME Control, Reactor
  PROVE  [Contract!Next]_(Contract!vars)
<1>0. ~removed /\ AtRest /\ callbacks = <<>>
  BY WorkingNotRemoved DEF Reactor, Turn, ReadFails, ReadNothing, ReadBytes,
     WriteBytes, WriteNothing, WriteFails, HangUp, Sweep, Reap, Stage, AtRest
<1>s. CASE UNCHANGED <<state, callbacks, paused, removed>>
  BY <1>s DEF Contract!vars
<1>1. ASSUME Close, UNCHANGED <<paused, removed>>
      PROVE  [Contract!Next]_(Contract!vars)
  BY <1>0, <1>1, CloseKeepsContract
<1>2. ASSUME NEW n \in 1..RxCapacity, ReadBytes(n)
      PROVE  [Contract!Next]_(Contract!vars)
  <2>1. UNCHANGED <<paused, removed>>
    BY <1>2 DEF ReadBytes
  <2>2. CASE state = "Handshaking" /\ ToOpen
    BY <1>0, <2>1, <2>2 DEF ToOpen, Contract!Open, Contract!Quiet, Contract!Enter,
       Contract!Next
  <2>3. CASE state = "Closing" /\ ToClosed(callbacks)
    BY <1>0, <2>1, <2>3 DEF ToClosed, Contract!Close, Contract!Enter, Contract!Next
  <2>4. QED
    BY <1>2, <1>s, <2>1, <2>2, <2>3
    DEF ReadBytes, handshake_on_data, open_on_data, closing_on_data
<1>3. ASSUME NEW n \in 1..TxCapacity, WriteBytes(n)
      PROVE  [Contract!Next]_(Contract!vars)
  <2>1. UNCHANGED <<state, removed>>
    BY <1>3 DEF WriteBytes
  <2>2. CASE paused /\ paused' = FALSE /\ callbacks' = <<"on_drain">>
    <3>1. callbacks' = <<"on_drain">> \o callbacks
      BY <1>0, <2>2
    <3>2. QED
      BY <1>0, <2>1, <2>2, <3>1, Zenon DEF Contract!Drain, Contract!Quiet,
         Contract!Enter, Contract!Next
  <2>3. QED
    BY <1>3, <1>s, <2>1, <2>2 DEF WriteBytes
<1>4. CASE Reap
  <2>1. is_closed => state = "Closed"
    BY DEF is_closed, Control, ControlTypes, Released
  <2>2. CASE is_closed
    <3>1. removed' = TRUE
      BY <1>4, <2>2 DEF Reap
    <3>2. QED
      BY <1>0, <1>4, <2>1, <2>2, <3>1, Zenon DEF Reap, Contract!Drop, Contract!Quiet,
         Contract!Next
  <2>3. CASE ~is_closed
    <3>1. removed' = removed
      <4>1. removed = FALSE
        BY <1>0, Zenon DEF Control, ControlTypes
      <4>2. removed' = FALSE
        BY <1>4, <2>3 DEF Reap, is_closed
      <4>3. QED
        BY <4>1, <4>2
    <3>2. QED
      BY <1>4, <1>s, <3>1 DEF Reap
  <2>4. QED
    BY <2>2, <2>3
<1>5. QED
  BY <1>s, <1>1, <1>2, <1>3, <1>4
  DEF Reactor, Turn, ReadFails, ReadNothing, WriteNothing, WriteFails, HangUp, Sweep

LEMMA StepKeepsContract ==
  Control /\ [Next]_vars => [Contract!Next]_(Contract!vars)
<1> SUFFICES ASSUME Control, [Next]_vars PROVE [Contract!Next]_(Contract!vars)
  OBVIOUS
<1>s. CASE UNCHANGED <<state, callbacks, paused, removed>>
  BY <1>s DEF Contract!vars
<1>1. CASE Environment \/ Gone \/ UNCHANGED vars
  BY <1>1, <1>s DEF Environment, PeerSend, PeerShut, PeerReset, Tick, Gone, vars,
     reactor
<1>2. ASSUME NEW in \in BOOLEAN, NEW out \in BOOLEAN, Poll(in, out)
      PROVE  [Contract!Next]_(Contract!vars)
  BY <1>2, <1>s DEF Poll
<1>3. CASE Application
  <2>0. ~removed
    BY <1>3, WorkingNotRemoved DEF Application, Send, AppClose, MayCall, AtRest
  <2>1. CASE AppClose
    BY <2>0, <2>1, CloseKeepsContract DEF AppClose
  <2>2. ASSUME NEW n \in SendLen, Send(n)
        PROVE  [Contract!Next]_(Contract!vars)
    <3>0. state = "Open" /\ UNCHANGED <<state, removed>>
      BY <2>2 DEF Send
    <3>1. CASE ~paused /\ txLen' > kTxHighWatermark
      <4>1. paused' = TRUE /\ callbacks' = <<"on_backpressure">> \o callbacks
        BY <2>2, <3>1 DEF Send, Control, ControlTypes
      <4>2. QED
        BY <2>0, <3>0, <3>1, <4>1, Zenon DEF Contract!Congest, Contract!Enter,
           Contract!Next
    <3>2. CASE ~(~paused /\ txLen' > kTxHighWatermark)
      <4>1. UNCHANGED <<paused, callbacks>>
        BY <2>2, <3>2 DEF Send, Control, ControlTypes
      <4>2. QED
        BY <1>s, <3>0, <4>1
    <3>3. QED
      BY <3>1, <3>2
  <2>3. QED
    BY <1>3, <2>1, <2>2 DEF Application
<1>4. CASE Callback
  <2>1. CASE ReturnPlain \/ ReturnMessage \/ ReturnClosed
    BY <2>1 DEF ReturnPlain, ReturnMessage, ReturnClosed, Returns, reactor,
       Contract!Return, Contract!Quiet, Contract!Next
  <2>2. CASE ReturnCloseFrame
    BY <2>2 DEF ReturnCloseFrame, Returns, ToClosed, reactor,
       Contract!CloseAfterFrame, Contract!Quiet, Contract!Next
  <2>3. QED
    BY <1>4, <2>1, <2>2 DEF Callback
<1>5. CASE Parser
  <2>0. ~removed
    BY <1>5, WorkingNotRemoved DEF Parser, ParseDone, ParseMessage, ParseClose,
       ParseControl, IoReturn, InLoop, AtRest
  <2>1. CASE ParseMessage \/ ParseClose
    <3>1. callbacks = <<>> /\ state # "Handshaking" /\ UNCHANGED <<state, paused, removed>>
      BY <2>1 DEF ParseMessage, ParseClose, InLoop, reactor, Control, ParsesFrames
    <3>2. CASE callbacks' = <<"on_message">>
      <4>1. callbacks' = <<"on_message">> \o callbacks
        BY <3>1, <3>2
      <4>2. QED
        BY <2>0, <3>1, <4>1 DEF Contract!Message, Contract!Quiet, Contract!Enter,
           Contract!Next
    <3>3. CASE callbacks' = <<"on_close_frame">>
      <4>1. callbacks' = <<"on_close_frame">> \o callbacks
        BY <3>1, <3>3
      <4>2. QED
        BY <2>0, <3>1, <4>1 DEF Contract!CloseFrame, Contract!Quiet, Contract!Enter,
           Contract!Next
    <3>4. QED
      BY <2>1, <3>2, <3>3 DEF ParseMessage, ParseClose
  <2>2. QED
    BY <1>5, <1>s, <2>1 DEF Parser, ParseDone, ParseControl, IoReturn, reactor
<1>6. QED
  BY <1>1, <1>2, <1>3, <1>4, <1>5, ReactorKeepsContract DEF Next

(* A connection keeps the callback contract: whatever the peer sends and   *)
(* whatever the application calls from inside its callbacks, each callback *)
(* starts only where CallbackContract lets it.                             *)
THEOREM ContractKept == Spec => KeepsContract
<1>1. Init => Contract!Init
  BY DEF Init, Contract!Init
<1>2. QED
  BY <1>1, ControlAlways, StepKeepsContract, PTL DEF Spec, KeepsContract, Contract!Spec

(* No path through the callbacks reopens a connection: the state machine   *)
(* Handshaking, Open, Closing, Closed never goes back.                     *)
THEOREM NeverGoesBack == Spec => StateOnlyAdvances
<1>1. Control /\ [Contract!Next]_(Contract!vars) => [Rank[state'] >= Rank[state]]_state
  BY DEF Control, ControlTypes, States, Rank, Contract!Next, Contract!vars,
     Contract!Open, Contract!Message, Contract!CloseFrame, Contract!Congest,
     Contract!Drain, Contract!StartClosing, Contract!Close,
     Contract!CloseAfterFrame, Contract!Return, Contract!Drop
<1>2. QED
  BY <1>1, ControlAlways, StepKeepsContract, PTL DEF Spec, StateOnlyAdvances

-----------------------------------------------------------------------------
(* The callback stack.  Four callbacks are entered only when no other is   *)
(* running, so they can only be at its bottom; of the two that nest, the   *)
(* one needs write_paused_ clear and sets it, the other needs a state that *)
(* is not Closed and leaves it Closed.                                     *)

Outermost == {"on_open", "on_message", "on_close_frame", "on_drain"}

Nesting(s) ==
  /\ \A i \in DOMAIN s : s[i] \in Outermost => i = Len(s)
  /\ \A i, j \in DOMAIN s : s[i] = s[j] => i = j

PauseNoted == \A i \in DOMAIN callbacks : callbacks[i] = "on_backpressure" => paused

Stack == Nesting(callbacks) /\ PauseNoted

LEMMA PushNests ==
  ASSUME NEW s \in Seq(Label), NEW label \in Label \ Outermost,
         Nesting(s), \A i \in DOMAIN s : s[i] # label
  PROVE  Nesting(<<label>> \o s)
<1> DEFINE t == <<label>> \o s
<1>1. /\ t \in Seq(Label) /\ Len(t) = Len(s) + 1 /\ t[1] = label
      /\ \A i \in 1..Len(s) : t[i + 1] = s[i]
  BY PushProperties
<1> HIDE DEF t
<1>2. /\ DOMAIN t = 1..(Len(s) + 1) /\ DOMAIN s = 1..Len(s) /\ Len(s) \in Nat
  BY <1>1
<1>3. ASSUME NEW i \in DOMAIN t, i # 1
      PROVE  i - 1 \in DOMAIN s /\ t[i] = s[i - 1]
  <2>1. i - 1 \in 1..Len(s) /\ (i - 1) + 1 = i
    BY <1>2, <1>3
  <2>2. QED
    BY <1>1, <1>2, <2>1
<1>4. ASSUME NEW i \in DOMAIN t, t[i] \in Outermost PROVE i = Len(t)
  BY <1>1, <1>2, <1>3, <1>4 DEF Nesting
<1>5. ASSUME NEW i \in DOMAIN t, NEW j \in DOMAIN t, t[i] = t[j] PROVE i = j
  BY <1>1, <1>2, <1>3, <1>5 DEF Nesting
<1>6. QED
  BY <1>4, <1>5 DEF Nesting, t

LEMMA PopNests ==
  ASSUME NEW s \in Seq(Label), s # <<>>, Nesting(s)
  PROVE  Nesting(Tail(s))
BY PopProperties DEF Nesting

LEMMA SingleNests ==
  ASSUME NEW label \in Label
  PROVE  Nesting(<<label>>)
BY DEF Nesting

LEMMA StackStep ==
  Control /\ Stack /\ [Contract!Next]_(Contract!vars) => Stack'
<1> SUFFICES ASSUME Control, Stack, [Contract!Next]_(Contract!vars) PROVE Stack'
  OBVIOUS
<1>0. callbacks \in Seq(Label) /\ Outermost \subseteq Label
      /\ "on_closed" \in Label \ Outermost
      /\ "on_backpressure" \in Label \ Outermost
  BY DEF Control, ControlTypes, Label, Outermost
<1>1. ASSUME callbacks = <<>>, NEW label \in Outermost, callbacks' = <<label>> \o callbacks
      PROVE  Stack'
  <2>1. callbacks' = <<label>> /\ label # "on_backpressure"
    BY <1>1 DEF Outermost
  <2>2. QED
    BY <1>0, <2>1, SingleNests DEF Stack, Nesting, PauseNoted
<1>2. CASE Contract!Open \/ Contract!Message \/ Contract!CloseFrame \/ Contract!Drain
  <2>1. callbacks = <<>> /\ \E label \in Outermost : callbacks' = <<label>> \o callbacks
    BY <1>2 DEF Contract!Open, Contract!Message, Contract!CloseFrame,
       Contract!Drain, Contract!Quiet, Contract!Enter, Outermost
  <2>2. QED
    BY <1>1, <2>1
<1>3. CASE Contract!Congest
  <2>1. ~paused /\ paused' /\ callbacks' = <<"on_backpressure">> \o callbacks
    BY <1>3 DEF Contract!Congest, Contract!Enter
  <2>2. \A i \in DOMAIN callbacks : callbacks[i] # "on_backpressure"
    BY <2>1 DEF Stack, PauseNoted
  <2>3. Nesting(callbacks')
    BY <1>0, <2>1, <2>2, PushNests DEF Stack
  <2>4. QED
    BY <2>1, <2>3 DEF Stack, Nesting, PauseNoted
<1>4. CASE Contract!Close
  <2>1. /\ state # "Closed" /\ UNCHANGED paused
        /\ callbacks' = <<"on_closed">> \o callbacks
    BY <1>4 DEF Contract!Close, Contract!Enter
  <2>2. \A i \in DOMAIN callbacks : callbacks[i] # "on_closed"
    BY <2>1 DEF Control, InClosed
  <2>3. Nesting(callbacks')
    BY <1>0, <2>1, <2>2, PushNests DEF Stack
  <2>4. ASSUME NEW i \in DOMAIN callbacks', callbacks'[i] = "on_backpressure"
        PROVE  paused'
    <3>1. /\ callbacks' \in Seq(Label) /\ Len(callbacks') = Len(callbacks) + 1
          /\ callbacks'[1] = "on_closed"
          /\ \A k \in 1..Len(callbacks) : callbacks'[k + 1] = callbacks[k]
      BY <1>0, <2>1, PushProperties
    <3>2. i \in 1..(Len(callbacks) + 1) /\ i # 1 /\ Len(callbacks) \in Nat
      BY <1>0, <2>4, <3>1
    <3>3. i - 1 \in DOMAIN callbacks /\ callbacks[i - 1] = "on_backpressure"
      <4>1. i - 1 \in 1..Len(callbacks) /\ (i - 1) + 1 = i
        BY <3>2
      <4>2. QED
        BY <1>0, <2>4, <3>1, <4>1
    <3>4. QED
      BY <2>1, <3>3 DEF Stack, PauseNoted
  <2>5. QED
    BY <2>3, <2>4 DEF Stack, Nesting, PauseNoted
<1>5. CASE Contract!CloseAfterFrame
  <2>1. /\ callbacks # <<>> /\ Head(callbacks) = "on_close_frame"
        /\ callbacks' = <<"on_closed">> \o Tail(callbacks)
    BY <1>5 DEF Contract!CloseAfterFrame, Contract!Quiet
  <2>2. Len(callbacks) = 1
    <3>1. 1 \in DOMAIN callbacks /\ callbacks[1] = "on_close_frame"
      BY <1>0, <2>1, PopProperties
    <3>2. "on_close_frame" \in Outermost
      BY DEF Outermost
    <3>3. QED
      BY <1>0, <3>1, <3>2 DEF Stack, Nesting
  <2>3. callbacks' = <<"on_closed">>
    <3>1. Tail(callbacks) \in Seq(Label) /\ Len(Tail(callbacks)) = 0
      BY <1>0, <2>1, <2>2, PopProperties
    <3>2. Tail(callbacks) = <<>>
      BY <3>1, EmptySeq
    <3>3. <<"on_closed">> \in Seq(Label)
      BY <1>0
    <3>4. QED
      BY <2>1, <3>2, <3>3, ConcatEmptySeq
  <2>4. QED
    BY <1>0, <2>3, SingleNests DEF Stack, Nesting, PauseNoted
<1>6. CASE Contract!Return
  <2>1. callbacks # <<>> /\ callbacks' = Tail(callbacks) /\ UNCHANGED paused
    BY <1>6 DEF Contract!Return, Contract!Quiet
  <2>2. Nesting(callbacks')
    BY <1>0, <2>1, PopNests DEF Stack
  <2>3. PauseNoted'
    BY <1>0, <2>1, PopProperties DEF Stack, PauseNoted
  <2>4. QED
    BY <2>2, <2>3 DEF Stack, Nesting
<1>7. CASE Contract!StartClosing \/ Contract!Drop \/ UNCHANGED Contract!vars
  BY <1>7 DEF Contract!StartClosing, Contract!Drop, Contract!vars, Stack, Nesting,
     PauseNoted
<1>8. QED
  BY <1>2, <1>3, <1>4, <1>5, <1>6, <1>7 DEF Contract!Next

LEMMA StackAlways == Spec => []Stack
<1>1. Init => Stack
  BY DEF Init, Stack, Nesting, PauseNoted
<1>2. QED
  BY <1>1, ControlAlways, StepKeepsContract, StackStep, PTL DEF Spec

(* The recursions of send with on_backpressure and of close with on_close  *)
(* end: three callbacks at most run at a time, and on_close alone can be   *)
(* entered while it runs, once, by a close() in the handler of a Close     *)
(* frame.                                                                  *)
THEOREM RecursionIsBounded == Spec => []ReentryBounded
<1>1. ASSUME Control, Stack PROVE ReentryBounded
  <2>1. /\ callbacks \in Seq(Label) /\ DOMAIN callbacks = 1..Len(callbacks) /\ Len(callbacks) \in Nat
    BY <1>1 DEF Control, ControlTypes
  <2>2. \A i \in DOMAIN callbacks : callbacks[i] \in Label
    BY <2>1, ElementOfSeq
  <2>3. /\ \A i \in DOMAIN callbacks : callbacks[i] \in Outermost => i = Len(callbacks)
        /\ \A i, j \in DOMAIN callbacks : callbacks[i] = callbacks[j] => i = j
    BY <1>1 DEF Stack, Nesting
  <2>4. \A i \in DOMAIN callbacks :
          i # Len(callbacks) => callbacks[i] \in {"on_closed", "on_backpressure"}
    BY <2>2, <2>3 DEF Label, Outermost
  <2>5. Len(callbacks) <= 3
    <3>1. SUFFICES ASSUME ~(Len(callbacks) <= 3) PROVE FALSE
      OBVIOUS
    <3>2. /\ 1 \in DOMAIN callbacks /\ 2 \in DOMAIN callbacks /\ 3 \in DOMAIN callbacks
          /\ 1 # Len(callbacks) /\ 2 # Len(callbacks) /\ 3 # Len(callbacks)
      <4> DEFINE n == Len(callbacks)
      <4>1. n \in Nat /\ ~(n <= 3)
        BY <2>1, <3>1
      <4> HIDE DEF n
      <4>2. 1 \in 1..n /\ 2 \in 1..n /\ 3 \in 1..n /\ 1 # n /\ 2 # n /\ 3 # n
        BY ONLY <4>1
      <4>3. QED
        BY <2>1, <4>2 DEF n
    <3>3. /\ callbacks[1] \in {"on_closed", "on_backpressure"}
          /\ callbacks[2] \in {"on_closed", "on_backpressure"}
          /\ callbacks[3] \in {"on_closed", "on_backpressure"}
      BY <2>4, <3>2
    <3>4. QED
      BY <2>3, <3>2, <3>3
  <2>6. ASSUME NEW i \in DOMAIN callbacks, NEW j \in DOMAIN callbacks, i < j,
               Handler(callbacks[i]) = Handler(callbacks[j])
        PROVE  /\ callbacks[i] = "on_closed" /\ callbacks[j] = "on_close_frame"
               /\ j = Len(callbacks)
    <3>1. i # j /\ i # Len(callbacks)
      BY <2>1, <2>6
    <3>2. callbacks[i] # callbacks[j] /\ callbacks[i] \in {"on_closed", "on_backpressure"}
      BY <2>3, <2>4, <3>1
    <3>3. callbacks[i] = "on_closed" /\ callbacks[j] = "on_close_frame"
      <4>1. CASE callbacks[i] = "on_backpressure"
        <5>1. Handler(callbacks[j]) = "on_backpressure"
          BY <2>6, <4>1 DEF Handler
        <5>2. callbacks[j] = "on_backpressure"
          BY <5>1 DEF Handler
        <5>3. QED
          BY <3>2, <4>1, <5>2
      <4>2. CASE callbacks[i] = "on_closed"
        <5>1. Handler(callbacks[j]) = "on_close"
          BY <2>6, <4>2 DEF Handler
        <5>2. callbacks[j] \in Label
          BY <2>2
        <5>3. callbacks[j] \in {"on_close_frame", "on_closed"}
          BY <5>1, <5>2 DEF Handler, Label
        <5>4. QED
          BY <3>2, <4>2, <5>3
      <4>3. QED
        BY <3>2, <4>1, <4>2
    <3>4. QED
      BY <2>3, <3>3 DEF Outermost
  <2>7. QED
    BY <2>5, <2>6 DEF ReentryBounded
<1>2. QED
  BY <1>1, ControlAlways, StackAlways, PTL

-----------------------------------------------------------------------------
(* The buffers.  Three groups of variables: what was received, what is to  *)
(* be sent, and the rest; TypeOK is their types together.                  *)

(* While on_message runs, the frame it was called for is still in          *)
(* rx_buffer_, so parse_frames can consume it afterwards.                  *)
HeadHeld ==
  \A i \in DOMAIN callbacks : callbacks[i] = "on_message" => Arrived(rxLen)

Received ==
  /\ inbox \in Seq(Item) /\ netLen \in Nat
  /\ rxLen \in 0..RxCapacity
  /\ HeadHeld

SentFrame == [op : {"message", "pong", "close"}, whole : BOOLEAN]

(* Nothing is put in tx_buffer_ before the handshake is done: the response *)
(* finds it empty.                                                         *)
Unsent == state = "Handshaking" => txLen = 0

(* A Close frame is only written on the way to Closing. *)
CloseFrameCloses ==
  \A i \in DOMAIN sent : sent[i].op = "close" => state \in {"Closing", "Closed"}

Transmitted ==
  /\ txLen \in 0..TxCapacity /\ response \in 0..txLen
  /\ sent \in Seq(SentFrame)
  /\ Unsent /\ PausedCanDrain
  /\ CloseFrameCloses /\ CloseFrameIsLast

Rest ==
  /\ items \in 0..MaxItems /\ calls \in 0..MaxCalls
  /\ peer \in {"up", "eof", "reset"}
  /\ err \in {"Ok", "BufferFull", "SocketError", "ConnectionClosed"}
  /\ io \in {"idle", "parse", "return"}
  /\ opens \in Nat /\ closes \in Nat

LateType == late \in BOOLEAN

(* Consuming the first item of what has arrived. *)
LEMMA ConsumeType ==
  ASSUME Received, NEW len \in 0..RxCapacity, Arrived(len), Consume(len)
  PROVE  inbox' \in Seq(Item) /\ rxLen' \in 0..RxCapacity
<1>1. inbox \in Seq(Item) /\ inbox # <<>> /\ Head(inbox) \in Item
  BY DEF Received, Arrived
<1>2. Size(Head(inbox)) \in Nat /\ Size(Head(inbox)) <= len
  BY <1>1, ConnectionAssumption DEF Size, Arrived
<1>3. QED
  BY <1>1, <1>2, ConnectionAssumption DEF Consume

(* on_message gets on the stack in ParseMessage only. *)
LEMMA MessageKept ==
  ASSUME Control, Stack, [Next]_vars,
         NEW i \in DOMAIN callbacks', callbacks'[i] = "on_message"
  PROVE  ParseMessage \/ \E k \in DOMAIN callbacks : callbacks[k] = "on_message"
<1>0. callbacks \in Seq(Label)
  BY DEF Control, ControlTypes
<1>1. CASE UNCHANGED callbacks
  BY <1>1
<1>2. CASE callbacks # <<>> /\ callbacks' = Tail(callbacks)
  BY <1>0, <1>2, PopProperties
<1>3. ASSUME NEW label \in Label \ {"on_message"},
             NEW s \in {callbacks, Tail(callbacks)},
             s = callbacks \/ callbacks # <<>>,
             callbacks' = <<label>> \o s
      PROVE  \E k \in DOMAIN callbacks : callbacks[k] = "on_message"
  <2>1. /\ s \in Seq(Label)
        /\ \A k \in DOMAIN s : \E l \in DOMAIN callbacks : callbacks[l] = s[k]
    <3>1. CASE s = callbacks
      BY <1>0, <3>1
    <3>2. CASE s = Tail(callbacks) /\ callbacks # <<>>
      BY <1>0, <3>2, PopProperties
    <3>3. QED
      BY <1>3, <3>1, <3>2
  <2>2. /\ callbacks' \in Seq(Label) /\ Len(callbacks') = Len(s) + 1
        /\ callbacks'[1] = label /\ label # "on_message"
        /\ \A k \in 1..Len(s) : callbacks'[k + 1] = s[k]
    BY <1>3, <2>1, PushProperties
  <2>3. i \in 1..(Len(s) + 1) /\ i # 1 /\ Len(s) \in Nat
    BY <2>1, <2>2
  <2>4. i - 1 \in 1..Len(s) /\ (i - 1) + 1 = i
    BY <2>3
  <2>5. i - 1 \in DOMAIN s /\ s[i - 1] = "on_message"
    BY <2>1, <2>2, <2>4
  <2>6. QED
    BY <2>1, <2>5
<1>4. CASE Contract!Open \/ Contract!CloseFrame \/ Contract!Drain
           \/ Contract!Congest \/ Contract!Close
  <2>1. \E label \in Label \ {"on_message"} : callbacks' = <<label>> \o callbacks
    BY <1>4 DEF Contract!Open, Contract!CloseFrame, Contract!Drain,
       Contract!Congest, Contract!Close, Contract!Enter, Label
  <2>2. QED
    BY <1>3, <2>1
<1>5. CASE Contract!CloseAfterFrame
  BY <1>3, <1>5 DEF Contract!CloseAfterFrame, Contract!Quiet, Label
<1>6. CASE Contract!Message
  <2>1. callbacks = <<>> /\ callbacks' = <<"on_message">>
    BY <1>6 DEF Contract!Message, Contract!Quiet, Contract!Enter
  <2>2. QED
    BY <2>1 DEF Next, vars, net, reactor, Environment, PeerSend, PeerShut, PeerReset, Tick,
      Application, Send, AppClose, Callback, ReturnPlain, ReturnMessage,
      ReturnCloseFrame, ReturnClosed, Returns, Parser, ParseDone, ParseClose,
      ParseControl, IoReturn, Reactor, Turn, ReadFails, ReadNothing, ReadBytes,
      WriteBytes, WriteNothing, WriteFails, HangUp, Sweep, Reap, Stage, Gone,
      Close, ToClosed, ToClosing, handshake_on_data, open_on_data, closing_on_data,
      ToOpen, Poll
<1>7. QED
  BY <1>1, <1>2, <1>4, <1>5, <1>6, StepKeepsContract
  DEF Contract!Next, Contract!vars, Contract!StartClosing, Contract!Return,
      Contract!Drop, Contract!Quiet

(* How the frame under on_message stays where it is. *)
LEMMA HeadHeldKept ==
  ASSUME Control, Stack, HeadHeld, [Next]_vars, UNCHANGED <<inbox, rxLen>>
  PROVE  HeadHeld'
<1>1. ASSUME NEW i \in DOMAIN callbacks', callbacks'[i] = "on_message"
      PROVE  Arrived(rxLen)
  BY <1>1, MessageKept DEF ParseMessage, HeadHeld
<1>2. QED
  BY <1>1 DEF HeadHeld, Arrived

LEMMA ReceivedStep ==
  Control /\ Stack /\ Received /\ [Next]_vars => Received'
<1> SUFFICES ASSUME Control, Stack, Received, [Next]_vars PROVE Received'
  OBVIOUS
<1>0. callbacks \in Seq(Label) /\ RxCapacity \in Nat /\ rxLen \in 0..RxCapacity
  BY ConnectionAssumption DEF Control, ControlTypes, Received
<1>1. CASE UNCHANGED <<inbox, rxLen>> /\ netLen' \in {netLen, 0}
  BY <1>1, HeadHeldKept DEF Received
<1>2. ASSUME NEW item \in Item, PeerSend(item) PROVE Received'
  <2>1. Size(item) \in Nat
    BY ConnectionAssumption DEF Size
  <2>2. inbox' \in Seq(Item) /\ (inbox # <<>> => inbox' # <<>> /\ Head(inbox') = Head(inbox))
    BY <1>2 DEF PeerSend, Received
  <2>3. Arrived(rxLen) => Arrived(rxLen)'
    BY <1>2, <2>2 DEF PeerSend, Arrived, Size
  <2>4. QED
    BY <1>2, <2>1, <2>2, <2>3 DEF PeerSend, Received, HeadHeld
<1>3. ASSUME NEW n \in 1..RxCapacity, ReadBytes(n) PROVE Received'
  <2>1. /\ rxLen + n \in 0..RxCapacity /\ netLen' \in Nat
        /\ callbacks = <<>>
    BY <1>0, <1>3 DEF ReadBytes, Least, Received, Stage, AtRest
  <2>2. inbox' \in Seq(Item) /\ rxLen' \in 0..RxCapacity
    <3>1. CASE UNCHANGED inbox /\ rxLen' = rxLen + n
      BY <2>1, <3>1 DEF Received
    <3>2. CASE Arrived(Least(rxLen + n, PeekLen)) /\ Consume(rxLen + n)
      <4>1. Arrived(rxLen + n)
        <5>1. inbox # <<>> /\ Head(inbox) \in Item
          BY <3>2 DEF Arrived, Received
        <5>2. Size(Head(inbox)) \in Nat
          BY <5>1, ConnectionAssumption DEF Size
        <5>3. QED
          BY <1>0, <2>1, <3>2, <5>1, <5>2, ConnectionAssumption DEF Arrived, Least
      <4>2. QED
        BY <2>1, <3>2, <4>1, ConsumeType
    <3>3. QED
      BY <1>3, <3>1, <3>2 DEF ReadBytes, handshake_on_data, open_on_data, closing_on_data
  <2>3. /\ callbacks' \in Seq(Label)
        /\ \A i \in DOMAIN callbacks' : callbacks'[i] # "on_message"
    <3>1. \/ callbacks' = <<>>
          \/ callbacks' = <<"on_open">> \o <<>>
          \/ callbacks' = <<"on_closed">> \o <<>>
      <4>1. CASE handshake_on_data(rxLen + n)
        BY <2>1, <4>1 DEF handshake_on_data, ToOpen
      <4>2. CASE open_on_data(rxLen + n)
        BY <2>1, <4>2 DEF open_on_data
      <4>3. CASE closing_on_data(rxLen + n)
        BY <2>1, <4>3 DEF closing_on_data, ToClosed
      <4>4. QED
        BY <1>3, <4>1, <4>2, <4>3 DEF ReadBytes
    <3>2. \A label \in Label \ {"on_message"} :
            LET s == <<label>> \o <<>>
            IN  s \in Seq(Label) /\ \A i \in DOMAIN s : s[i] # "on_message"
      BY PushProperties
    <3>3. "on_open" \in Label \ {"on_message"} /\ "on_closed" \in Label \ {"on_message"}
      BY DEF Label
    <3>4. CASE callbacks' = <<>>
      BY <3>4
    <3>5. CASE callbacks' = <<"on_open">> \o <<>>
      BY <3>2, <3>3, <3>5, Zenon
    <3>6. CASE callbacks' = <<"on_closed">> \o <<>>
      BY <3>2, <3>3, <3>6, Zenon
    <3>7. QED
      BY <3>1, <3>4, <3>5, <3>6
  <2>4. QED
    BY <2>1, <2>2, <2>3 DEF Received, HeadHeld
<1>4. CASE ParseControl
  <2>1. inbox' \in Seq(Item) /\ rxLen' \in 0..RxCapacity
    BY <1>0, <1>4, ConsumeType DEF ParseControl
  <2>2. QED
    BY <1>4, <2>1 DEF ParseControl, InLoop, Received, HeadHeld
<1>5. CASE ReturnMessage
  <2>1. /\ 1 \in DOMAIN callbacks /\ callbacks[1] = "on_message" /\ callbacks # <<>>
        /\ callbacks' = Tail(callbacks)
    BY <1>0, <1>5, PopProperties DEF ReturnMessage, Returns
  <2>2. Arrived(rxLen)
    BY <2>1 DEF Received, HeadHeld
  <2>3. inbox' \in Seq(Item) /\ rxLen' \in 0..RxCapacity
    BY <1>0, <1>5, <2>2, ConsumeType DEF ReturnMessage
  <2>4. Len(callbacks) = 1
    <3>1. "on_message" \in Outermost
      BY DEF Outermost
    <3>2. QED
      BY <2>1, <3>1 DEF Stack, Nesting
  <2>5. DOMAIN callbacks' = {}
    BY <1>0, <2>1, <2>4, PopProperties
  <2>6. QED
    BY <1>5, <2>3, <2>5 DEF ReturnMessage, Received, HeadHeld
<1>6. QED
  BY <1>1, <1>2, <1>3, <1>4, <1>5
  DEF Next, vars, net, Environment, PeerShut, PeerReset, Tick,
      Application, Send, AppClose, Callback, ReturnPlain,
      ReturnCloseFrame, ReturnClosed, Parser, ParseDone, ParseMessage, ParseClose,
      IoReturn, Reactor, Turn, ReadFails, ReadNothing,
      WriteBytes, WriteNothing, WriteFails, HangUp, Sweep, Reap, Gone, Poll

LEMMA RestStep == Rest /\ [Next]_vars => Rest'
<1> SUFFICES ASSUME Rest, [Next]_vars PROVE Rest'
  OBVIOUS
<1> USE ConnectionAssumption DEF Rest, reactor, hist, net, tx
<1>1. CASE Environment \/ Gone \/ UNCHANGED vars
  BY <1>1 DEF Environment, PeerSend, PeerShut, PeerReset, Tick, Gone, vars
<1>c. Close => opens' = opens /\ closes' \in Nat
  BY DEF Close, ToClosing, ToClosed
<1>2. CASE Application
  BY <1>2, <1>c DEF Application, Send, AppClose, MayCall
<1>3. CASE Callback
  BY <1>3 DEF Callback, ReturnPlain, ReturnMessage, ReturnCloseFrame, ReturnClosed,
     ToClosed
<1>4. CASE Parser
  BY <1>4 DEF Parser, ParseDone, ParseMessage, ParseClose, ParseControl, IoReturn
<1>5. CASE Reactor
  <2>1. ASSUME NEW n \in 1..RxCapacity, ReadBytes(n) PROVE Rest'
    BY <2>1 DEF ReadBytes, Stage, handshake_on_data, open_on_data, closing_on_data,
       ToOpen, ToClosed
  <2>2. ASSUME NEW n \in 1..TxCapacity, WriteBytes(n) PROVE Rest'
    BY <2>2 DEF WriteBytes, Stage
  <2>3. QED
    BY <1>5, <1>c, <2>1, <2>2 DEF Reactor, Turn, ReadFails, ReadNothing, WriteNothing,
       WriteFails, HangUp, Sweep, Reap, Stage
<1>6. ASSUME NEW in \in BOOLEAN, NEW out \in BOOLEAN, Poll(in, out) PROVE Rest'
  BY <1>6 DEF Poll
<1>7. QED
  BY <1>1, <1>2, <1>3, <1>4, <1>5, <1>6 DEF Next

LEMMA LateStep == LateType /\ [Next]_vars => LateType'
<1>1. [Next]_vars => late' \in {late, TRUE, FALSE}
  BY DEF Next, vars, Environment, PeerSend, PeerShut, PeerReset, Tick,
     Application, Send, AppClose, Callback, ReturnPlain, ReturnMessage,
     ReturnCloseFrame, ReturnClosed, Parser, ParseDone, ParseMessage, ParseClose,
     ParseControl, IoReturn, Reactor, Turn, ReadFails, ReadNothing, ReadBytes,
     WriteBytes, WriteNothing, WriteFails, HangUp, Sweep, Reap, Gone, Poll,
     Close, ToClosed, ToClosing, ToOpen, handshake_on_data, open_on_data,
     closing_on_data
<1>2. QED
  BY <1>1, Zenon DEF LateType

(* What write_frame does to tx_buffer_: it never shrinks nor overflows, and *)
(* at most one frame is added.                                              *)
LEMMA WriteFrameEffect ==
  ASSUME Transmitted, NEW op \in {"message", "pong", "close"}, NEW n \in Nat,
         write_frame(op, n)
  PROVE  /\ txLen' \in txLen..TxCapacity /\ response' = response
         /\ \/ sent' = sent
            \/ \E whole \in BOOLEAN : sent' = Append(sent, [op |-> op, whole |-> whole])
<1> DEFINE h == HeaderLen(n)
           fits == n <= (TxCapacity - txLen) - h
<1>0. /\ txLen \in 0..TxCapacity /\ TxCapacity \in Nat /\ h \in Nat
      /\ fits \in BOOLEAN
  BY ConnectionAssumption DEF Transmitted, HeaderLen
<1>1. CASE UNCHANGED tx
  BY <1>0, <1>1 DEF tx
<1>2. CASE /\ ~(TxCapacity - txLen < h)
           /\ txLen' = txLen + h + (IF fits THEN n ELSE 0)
           /\ sent' = Append(sent, [op |-> op, whole |-> fits])
           /\ response' = response
  <2> HIDE DEF h
  <2>1. txLen' \in txLen..TxCapacity
    BY <1>0, <1>2
  <2> HIDE DEF fits
  <2>2. QED
    BY <1>0, <1>2, <2>1
<1>3. QED
  BY <1>1, <1>2 DEF write_frame

LEMMA WatermarksOrdered ==
  /\ kTxLowWatermark \in Nat /\ kTxHighWatermark \in Nat
  /\ kTxLowWatermark <= kTxHighWatermark
BY ConnectionAssumption DEF kTxLowWatermark, kTxHighWatermark

(* A frame may be written when the connection is past its handshake; a     *)
(* message only in Open, a Close frame only from Open to Closing, and a    *)
(* pong at any time.                                                       *)
LEMMA WriteFrameKeeps ==
  ASSUME Transmitted, NEW op \in {"message", "pong", "close"}, NEW n \in Nat,
         write_frame(op, n),
         state' # "Handshaking",
         state \in {"Closing", "Closed"} => state' \in {"Closing", "Closed"},
         op # "pong" => state = "Open",
         op = "close" => state' = "Closing",
         paused' => paused \/ txLen' > kTxHighWatermark
  PROVE  Transmitted'
<1>1. /\ txLen' \in txLen..TxCapacity /\ response' = response
      /\ \/ sent' = sent
         \/ \E whole \in BOOLEAN : sent' = Append(sent, [op |-> op, whole |-> whole])
  BY WriteFrameEffect
<1>0. /\ txLen \in 0..TxCapacity /\ TxCapacity \in Nat /\ response \in 0..txLen
      /\ sent \in Seq(SentFrame)
  BY ConnectionAssumption DEF Transmitted
<1>2. txLen' \in 0..TxCapacity /\ response' \in 0..txLen'
  BY <1>0, <1>1
<1>3. PausedCanDrain' /\ Unsent'
  BY <1>0, <1>1, WatermarksOrdered DEF Transmitted, PausedCanDrain, Unsent,
     kTxLowWatermark
<1>4. sent' \in Seq(SentFrame) /\ CloseFrameCloses' /\ CloseFrameIsLast'
  <2>1. CASE sent' = sent
    BY <1>0, <2>1 DEF Transmitted, CloseFrameCloses, CloseFrameIsLast
  <2>2. ASSUME NEW whole \in BOOLEAN, sent' = Append(sent, [op |-> op, whole |-> whole])
        PROVE  sent' \in Seq(SentFrame) /\ CloseFrameCloses' /\ CloseFrameIsLast'
    <3> DEFINE frame == [op |-> op, whole |-> whole]
    <3>1. frame \in SentFrame /\ frame.op = op
      BY DEF SentFrame
    <3> HIDE DEF frame
    <3>2. /\ sent' \in Seq(SentFrame) /\ Len(sent') = Len(sent) + 1
          /\ \A i \in 1..Len(sent) : sent'[i] = sent[i]
          /\ sent'[Len(sent) + 1] = frame
      BY <1>0, <2>2, <3>1, AppendProperties DEF frame
    <3>3. DOMAIN sent = 1..Len(sent) /\ DOMAIN sent' = 1..(Len(sent) + 1)
          /\ Len(sent) \in Nat
      BY <1>0, <3>2
    <3>4. CloseFrameCloses'
      BY <3>1, <3>2, <3>3 DEF Transmitted, CloseFrameCloses
    <3>5. ASSUME NEW i \in DOMAIN sent', NEW j \in DOMAIN sent', i < j,
                 sent'[i].op = "close"
          PROVE  sent'[j].op = "pong"
      <4>1. i \in DOMAIN sent /\ sent[i].op = "close"
        BY <3>2, <3>3, <3>5
      <4>2. op = "pong"
        BY <4>1 DEF Transmitted, CloseFrameCloses
      <4>3. QED
        BY <3>1, <3>2, <3>3, <3>5, <4>1, <4>2 DEF Transmitted, CloseFrameIsLast
    <3>6. QED
      BY <3>2, <3>4, <3>5 DEF CloseFrameIsLast
  <2>3. QED
    BY <1>1, <2>1, <2>2
<1>5. QED
  BY <1>2, <1>3, <1>4 DEF Transmitted

(* A step that leaves tx_buffer_ alone. *)
LEMMA TransmittedKept ==
  ASSUME Transmitted, UNCHANGED tx, paused' => paused,
         state' = "Handshaking" => state = "Handshaking",
         state \in {"Closing", "Closed"} => state' \in {"Closing", "Closed"}
  PROVE  Transmitted'
BY DEF Transmitted, tx, Unsent, PausedCanDrain, CloseFrameCloses, CloseFrameIsLast

LEMMA TransmittedStep == Control /\ Received /\ Transmitted /\ [Next]_vars => Transmitted'
<1> SUFFICES ASSUME Control, Received, Transmitted, [Next]_vars PROVE Transmitted'
  OBVIOUS
<1>0. /\ txLen \in 0..TxCapacity /\ TxCapacity \in Nat /\ response \in 0..txLen
      /\ ResponseLen \in 1..TxCapacity /\ 2 \in Nat /\ SendLen \subseteq Nat
  BY ConnectionAssumption DEF Transmitted
<1>s. /\ state' = "Handshaking" => state = "Handshaking"
      /\ state \in {"Closing", "Closed"} => state' \in {"Closing", "Closed"}
  <2>1. [Contract!Next]_(Contract!vars)
    BY StepKeepsContract
  <2>2. QED
    BY <2>1 DEF Contract!Next, Contract!vars,
       Contract!Open, Contract!Message, Contract!CloseFrame, Contract!Congest,
       Contract!Drain, Contract!StartClosing, Contract!Close,
       Contract!CloseAfterFrame, Contract!Return, Contract!Drop
<1>1. ASSUME UNCHANGED tx, paused' => paused PROVE Transmitted'
  BY <1>s, <1>1, TransmittedKept
<1>2. ASSUME Close, UNCHANGED paused PROVE Transmitted'
  <2>1. CASE UNCHANGED tx
    BY <1>1, <1>2, <2>1
  <2>2. CASE state = "Open" /\ write_frame("close", 2) /\ state' = "Closing"
    BY <1>0, <1>2, <2>2, WriteFrameKeeps
  <2>3. QED
    BY <1>2, <2>1, <2>2 DEF Close, ToClosing, write_close_frame
<1>3. ASSUME NEW n \in SendLen, Send(n) PROVE Transmitted'
  <2>1. /\ state = "Open" /\ state' = "Open" /\ write_frame("message", n)
        /\ n \in Nat
    BY <1>0, <1>3 DEF Send
  <2>2. paused' => paused \/ txLen' > kTxHighWatermark
    BY <1>3 DEF Send
  <2>3. QED
    BY <2>1, <2>2, WriteFrameKeeps
<1>4. CASE ParseControl
  <2>1. CASE UNCHANGED tx
    BY <1>1, <1>4, <2>1 DEF ParseControl
  <2>2. CASE write_frame("pong", Head(inbox).payload)
    <3>1. Head(inbox).payload \in Nat
      BY <1>4, ConnectionAssumption DEF ParseControl, Arrived, Received
    <3>2. state' = state /\ state # "Handshaking" /\ UNCHANGED paused
      BY <1>4 DEF ParseControl, InLoop, Control, ParsesFrames
    <3>3. QED
      BY <1>s, <2>2, <3>1, <3>2, WriteFrameKeeps
  <2>3. QED
    BY <1>4, <2>1, <2>2 DEF ParseControl
<1>5. ASSUME NEW n \in 1..RxCapacity, ReadBytes(n) PROVE Transmitted'
  <2>0. UNCHANGED paused
    BY <1>5 DEF ReadBytes
  <2>1. CASE UNCHANGED tx
    BY <1>1, <2>0, <2>1
  <2>2. CASE /\ state = "Handshaking" /\ state' = "Open"
             /\ txLen' = txLen + ResponseLen /\ response' = ResponseLen
             /\ UNCHANGED sent
    <3>1. txLen = 0
      BY <2>2 DEF Transmitted, Unsent
    <3>2. /\ txLen' \in 0..TxCapacity /\ response' \in 0..txLen'
          /\ txLen' >= txLen
      BY <1>0, <2>2, <3>1
    <3>3. PausedCanDrain'
      BY <1>0, <2>0, <3>2, WatermarksOrdered
      DEF Transmitted, PausedCanDrain, kTxLowWatermark
    <3>4. QED
      BY <2>2, <3>2, <3>3 DEF Transmitted, Unsent, CloseFrameCloses, CloseFrameIsLast
  <2>3. QED
    BY <1>5, <2>1, <2>2
    DEF ReadBytes, handshake_on_data, open_on_data, closing_on_data, ToOpen, tx
<1>6. ASSUME NEW n \in 1..TxCapacity, WriteBytes(n) PROVE Transmitted'
  <2>1. /\ n \in 1..txLen /\ txLen' = txLen - n
        /\ response' = response - Least(n, response)
        /\ UNCHANGED <<sent, state>>
    BY <1>6 DEF WriteBytes
  <2>2. txLen' \in 0..TxCapacity /\ response' \in 0..txLen'
    BY <1>0, <2>1 DEF Least
  <2>3. PausedCanDrain'
    <3>1. CASE paused' = FALSE
      BY <3>1, Zenon DEF PausedCanDrain
    <3>2. CASE UNCHANGED paused /\ ~(paused /\ txLen - n < kTxLowWatermark)
      BY <1>0, <2>1, <2>2, <3>2, WatermarksOrdered DEF PausedCanDrain, kTxLowWatermark
    <3>3. QED
      BY <1>6, <3>1, <3>2 DEF WriteBytes
  <2>4. Unsent'
    BY <1>0, <2>1 DEF Transmitted, Unsent
  <2>5. QED
    BY <2>1, <2>2, <2>3, <2>4 DEF Transmitted, CloseFrameCloses, CloseFrameIsLast
<1>7. QED
  BY <1>1, <1>2, <1>3, <1>4, <1>5, <1>6
  DEF Next, vars, tx, Environment, PeerSend, PeerShut, PeerReset, Tick,
      Application, AppClose, Callback, ReturnPlain, ReturnMessage,
      ReturnCloseFrame, ReturnClosed, Parser, ParseDone, ParseMessage, ParseClose,
      IoReturn, Reactor, Turn, ReadFails, ReadNothing,
      WriteNothing, WriteFails, HangUp, Sweep, Reap, Gone, Poll

LEMMA BuffersAlways == Spec => [](Received /\ Transmitted /\ Rest /\ LateType)
<1>1. Init => Received /\ Transmitted /\ Rest /\ LateType
  <2> SUFFICES ASSUME Init PROVE Received /\ Transmitted /\ Rest /\ LateType
    OBVIOUS
  <2>1. Received
    BY ConnectionAssumption DEF Init, Received, HeadHeld
  <2>2. Transmitted
    <3>1. PausedCanDrain
      BY Zenon DEF Init, PausedCanDrain
    <3>2. txLen \in 0..TxCapacity /\ response \in 0..txLen /\ Unsent
      BY ConnectionAssumption DEF Init, Unsent
    <3>3. sent \in Seq(SentFrame) /\ CloseFrameCloses /\ CloseFrameIsLast
      BY DEF Init, CloseFrameCloses, CloseFrameIsLast
    <3>4. QED
      BY <3>1, <3>2, <3>3 DEF Transmitted
  <2>3. Rest
    BY ConnectionAssumption DEF Init, Rest
  <2>4. LateType
    BY Zenon DEF Init, LateType
  <2>5. QED
    BY <2>1, <2>2, <2>3, <2>4
<1>2. QED
  BY <1>1, ControlAlways, StackAlways, ReceivedStep, TransmittedStep, RestStep,
     LateStep, PTL DEF Spec

(* Type correctness: in particular neither buffer overflows or underflows, *)
(* whatever is received, sent, echoed and closed.                          *)
THEOREM ConnectionTypes == Spec => []TypeOK
<1>1. Schedule /\ Control /\ Received /\ Transmitted /\ Rest /\ LateType
        => TypeOK
  BY Zenon DEF Schedule, Control, ControlTypes, States, Received, Transmitted,
     SentFrame, Rest, LateType, TypeOK
<1>2. QED
  BY <1>1, ControlAlways, BuffersAlways, PTL

(* Backpressure can always end: while write_paused_ is set, tx_buffer_     *)
(* holds at least the low watermark, so a later write reaches on_drain.    *)
THEOREM PauseCanEnd == Spec => []PausedCanDrain
<1>1. Transmitted => PausedCanDrain
  BY DEF Transmitted
<1>2. QED
  BY <1>1, BuffersAlways, PTL

(* One Close frame at most is written, and no message after it, however    *)
(* send() and close() are called from the callbacks.                       *)
THEOREM CloseFrameEndsMessages == Spec => []CloseFrameIsLast
<1>1. Transmitted => CloseFrameIsLast
  BY DEF Transmitted
<1>2. QED
  BY <1>1, BuffersAlways, PTL

=============================================================================
