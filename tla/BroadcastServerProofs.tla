----------------------- MODULE BroadcastServerProofs -----------------------
(***************************************************************************)
(* Theorems about BroadcastServer, for every set of connections and every  *)
(* number of messages, over connections of which only CallbackContract is  *)
(* known.  The list is exact between callbacks; within them it is ahead of *)
(* the phase of a connection whose Close frame is being reported, so the   *)
(* inductive invariant looks at the callbacks in progress.                 *)
(***************************************************************************)
EXTENDS BroadcastServer, SequenceTheorems, TLAPS

Phase == {"Handshaking", "Open", "Closing", "Closed"}

Callback ==
  {"on_open", "on_message", "on_close_frame", "on_closed", "on_backpressure", "on_drain"}

Types ==
  /\ phase \in [Client -> Phase]
  /\ callbacks \in [Client -> Seq(Callback)]
  /\ congested \in [Client -> BOOLEAN]
  /\ gone \in [Client -> BOOLEAN]
  /\ broadcast_list \in [Client -> Nat]
  /\ audience \in Seq(SUBSET Client)
  /\ received \in [Client -> SUBSET Nat]

(* The first on_close of c, for the peer's Close, has begun. *)
Leaving(stack) == \E k \in DOMAIN stack : stack[k] = "on_close_frame"

Served(p, stack) == p \in {"Open", "Closing"} /\ ~Leaving(stack)

Exact ==
  \A c \in Client :
    /\ broadcast_list[c] = IF Served(phase[c], callbacks[c]) THEN 1 ELSE 0
    /\ gone[c] => phase[c] = "Closed"

-----------------------------------------------------------------------------
(* What the stack of callbacks tells. *)

LEMMA LeavingNot ==
  /\ ~Leaving(<<>>)
  /\ \A l \in Callback : Leaving(<<l>>) <=> l = "on_close_frame"
  /\ \A l \in Callback : <<l>> \in Seq(Callback)
<1>1. ~Leaving(<<>>)
  BY EmptySeq DEF Leaving
<1>2. ASSUME NEW l \in Callback
      PROVE  (Leaving(<<l>>) <=> l = "on_close_frame") /\ <<l>> \in Seq(Callback)
  <2>1. <<l>> \in Seq(Callback) /\ DOMAIN <<l>> = {1} /\ <<l>>[1] = l
    OBVIOUS
  <2>2. QED
    BY <2>1 DEF Leaving
<1>3. QED
  BY <1>1, <1>2

LEMMA LeavingTail ==
  ASSUME NEW s \in Seq(Callback), s # <<>>, Head(s) # "on_close_frame"
  PROVE  Tail(s) \in Seq(Callback) /\ (Leaving(Tail(s)) <=> Leaving(s))
<1>1. /\ Tail(s) \in Seq(Callback) /\ Len(Tail(s)) = Len(s) - 1 /\ Head(s) = s[1]
      /\ \A k \in 1..Len(Tail(s)) : Tail(s)[k] = s[k + 1]
  BY HeadTailProperties
<1>2. DOMAIN Tail(s) = 1..(Len(s) - 1) /\ DOMAIN s = 1..Len(s) /\ Len(s) \in Nat
  BY <1>1, LenProperties
<1>3. ASSUME NEW k \in DOMAIN s, s[k] = "on_close_frame"
      PROVE  k - 1 \in DOMAIN Tail(s) /\ Tail(s)[k - 1] = "on_close_frame"
  <2>1. k # 1
    BY <1>1, <1>3
  <2>2. k - 1 \in 1..Len(Tail(s)) /\ (k - 1) + 1 = k
    BY <1>1, <1>2, <1>3, <2>1
  <2>3. QED
    BY <1>1, <1>2, <1>3, <2>2
<1>4. \A k \in DOMAIN Tail(s) : k + 1 \in DOMAIN s /\ s[k + 1] = Tail(s)[k]
  BY <1>1, <1>2
<1>5. QED
  BY <1>1, <1>3, <1>4 DEF Leaving

LEMMA LeavingCongest ==
  ASSUME NEW s \in Seq(Callback)
  PROVE  /\ <<"on_backpressure">> \o s \in Seq(Callback)
         /\ Leaving(<<"on_backpressure">> \o s) <=> Leaving(s)
<1> DEFINE t == <<"on_backpressure">> \o s
<1>1. <<"on_backpressure">> \in Seq(Callback) /\ Len(<<"on_backpressure">>) = 1
      /\ <<"on_backpressure">>[1] = "on_backpressure"
  BY LeavingNot DEF Callback
<1>2. /\ t \in Seq(Callback) /\ Len(t) = Len(s) + 1 /\ t[1] = "on_backpressure"
      /\ \A k \in 1..Len(s) : t[k + 1] = s[k]
  BY <1>1, ConcatProperties, LenProperties
<1> HIDE DEF t
<1>3. DOMAIN t = 1..(Len(s) + 1) /\ DOMAIN s = 1..Len(s) /\ Len(s) \in Nat
  BY <1>2, LenProperties
<1>4. ASSUME NEW k \in DOMAIN t, t[k] = "on_close_frame"
      PROVE  k - 1 \in DOMAIN s /\ s[k - 1] = "on_close_frame"
  <2>1. k # 1
    BY <1>2, <1>4
  <2>2. k - 1 \in 1..Len(s) /\ (k - 1) + 1 = k
    BY <1>3, <1>4, <2>1
  <2>3. QED
    BY <1>2, <1>3, <1>4, <2>2
<1>5. \A k \in DOMAIN s : k + 1 \in DOMAIN t /\ t[k + 1] = s[k]
  BY <1>2, <1>3
<1>6. Leaving(t) <=> Leaving(s)
  BY <1>4, <1>5 DEF Leaving
<1>7. QED
  BY <1>2, <1>6 DEF t

(* Between callbacks, being served is being in service. *)
LEMMA ServedWhenIdle ==
  ASSUME Idle, NEW c \in Client
  PROVE  Served(phase[c], callbacks[c]) <=> phase[c] \in {"Open", "Closing"}
BY LeavingNot DEF Idle, Served

-----------------------------------------------------------------------------
(* The step of one connection, and what the callback does to the list. *)

Changes(c, p, stack) ==
  /\ \A d \in Client : phase'[d] = IF d = c THEN p ELSE phase[d]
  /\ \A d \in Client : callbacks'[d] = IF d = c THEN stack ELSE callbacks[d]
  /\ phase' \in [Client -> Phase] /\ callbacks' \in [Client -> Seq(Callback)]

LEMMA MovesChanges ==
  ASSUME Types, NEW c \in Client, NEW p \in Phase, NEW stack \in Seq(Callback),
         NEW dropped \in BOOLEAN, Moves(c, p, stack, dropped)
  PROVE  /\ Changes(c, p, stack)
         /\ \A d \in Client : gone'[d] = IF d = c THEN dropped ELSE gone[d]
         /\ gone' \in [Client -> BOOLEAN] /\ congested' = congested
BY DEF Types, Moves, Changes

LEMMA Kept ==
  ASSUME Types, Exact, NEW c \in Client, NEW p, NEW stack, Changes(c, p, stack),
         Served(p, stack) <=> Served(phase[c], callbacks[c]),
         gone'[c] => p = "Closed", \A d \in Client \ {c} : gone'[d] = gone[d],
         broadcast_list' = broadcast_list
  PROVE  Exact'
<1>1. ASSUME NEW d \in Client
      PROVE  /\ broadcast_list'[d] = IF Served(phase'[d], callbacks'[d]) THEN 1 ELSE 0
             /\ gone'[d] => phase'[d] = "Closed"
  <2>1. CASE d = c
    BY <2>1 DEF Changes, Exact
  <2>2. CASE d # c
    BY <2>2 DEF Changes, Exact
  <2>3. QED
    BY <2>1, <2>2
<1>2. QED
  BY <1>1 DEF Exact

(* The erase takes the connection out, and only it: what has expired is    *)
(* not in the list any more.                                               *)
LEMMA Erased ==
  ASSUME Types, Exact, NEW c \in Client, NEW p, NEW stack, Changes(c, p, stack),
         ~Served(p, stack), ~gone'[c], \A d \in Client \ {c} : gone'[d] = gone[d],
         broadcast_list' = Remaining(c)
  PROVE  Exact' /\ broadcast_list' \in [Client -> Nat]
<1>1. \A d \in Client : broadcast_list'[d] = IF gone[d] \/ d = c THEN 0 ELSE broadcast_list[d]
  BY DEF Remaining
<1>2. ASSUME NEW d \in Client
      PROVE  /\ broadcast_list'[d] = IF Served(phase'[d], callbacks'[d]) THEN 1 ELSE 0
             /\ gone'[d] => phase'[d] = "Closed"
  <2>1. CASE d = c
    BY <1>1, <2>1 DEF Changes
  <2>2. CASE d # c
    <3>1. phase'[d] = phase[d] /\ callbacks'[d] = callbacks[d] /\ gone'[d] = gone[d]
      BY <2>2 DEF Changes
    <3>2. broadcast_list[d] = IF Served(phase[d], callbacks[d]) THEN 1 ELSE 0
      BY DEF Exact
    <3>3. gone[d] => phase[d] = "Closed" /\ ~Served(phase[d], callbacks[d])
      BY DEF Exact, Served
    <3>4. QED
      BY <1>1, <2>2, <3>1, <3>2, <3>3
  <2>3. QED
    BY <2>1, <2>2
<1>3. broadcast_list' \in [Client -> Nat]
  BY DEF Types, Remaining
<1>4. QED
  BY <1>2, <1>3 DEF Exact

(* What the contract says of the connection that moves. *)
LEMMA ContractSays ==
  ASSUME NEW c \in Client
  PROVE  /\ Contract(c)!Open => phase[c] = "Handshaking" /\ ~gone[c]
         /\ Contract(c)!Message => ~gone[c]
         /\ Contract(c)!CloseFrame => ~gone[c]
         /\ Contract(c)!Close => phase[c] \in {"Handshaking", "Closing"} /\ ~gone[c]
         /\ Contract(c)!CloseAfterFrame => UNCHANGED gone[c]
         /\ Contract(c)!Return => Head(callbacks[c]) # "on_close_frame" /\ UNCHANGED gone[c]
         /\ Contract(c)!StartClosing => phase[c] = "Open" /\ ~gone[c]
         /\ Contract(c)!Drain => ~gone[c]
         /\ Contract(c)!Drop => phase[c] = "Closed"
BY DEF Contract!Open, Contract!Message, Contract!CloseFrame, Contract!Close,
       Contract!CloseAfterFrame, Contract!Return, Contract!StartClosing, Contract!Drain,
       Contract!Drop, Contract!Enter, Contract!Quiet

LEMMA ListStep ==
  ASSUME Types, Exact, NEW c \in Client,
         Opens(c) \/ GetsCloseFrame(c) \/ ClosesAfterFrame(c) \/ Closes(c)
  PROVE  Types' /\ Exact'
<1>0. /\ phase[c] \in Phase /\ {"Open", "Closed"} \subseteq Phase
      /\ {"on_open", "on_close_frame", "on_closed"} \subseteq Callback /\ FALSE \in BOOLEAN
  BY DEF Types, Phase, Callback
<1>1. ASSUME NEW p \in Phase, NEW stack \in Seq(Callback), Moves(c, p, stack, FALSE),
             broadcast_list' \in [Client -> Nat], UNCHANGED <<audience, received>>
      PROVE  Types'
  <2>1. /\ Changes(c, p, stack) /\ gone' \in [Client -> BOOLEAN] /\ congested' = congested
    BY <1>1, MovesChanges
  <2>2. QED
    BY <1>1, <2>1 DEF Types, Changes
<1>2. ASSUME NEW p \in Phase, NEW stack \in Seq(Callback), Moves(c, p, stack, FALSE),
             ~Served(p, stack), on_close(c)
      PROVE  Types' /\ Exact'
  <2>1. /\ Changes(c, p, stack)
        /\ \A d \in Client : gone'[d] = IF d = c THEN FALSE ELSE gone[d]
    BY <1>2, MovesChanges
  <2>2. ~gone'[c] /\ \A d \in Client \ {c} : gone'[d] = gone[d]
    BY <2>1
  <2>3. broadcast_list' = Remaining(c) /\ UNCHANGED <<audience, received>>
    BY <1>2 DEF on_close
  <2>4. Exact' /\ broadcast_list' \in [Client -> Nat]
    BY <1>2, <2>1, <2>2, <2>3, Erased
  <2>5. QED
    BY <1>1, <1>2, <2>3, <2>4
<1>3. CASE Opens(c)
  <2> DEFINE stack == <<"on_open">>
  <2>1. /\ Idle /\ Moves(c, "Open", stack, FALSE) /\ phase[c] = "Handshaking"
        /\ broadcast_list' = [broadcast_list EXCEPT ![c] = broadcast_list[c] + 1]
        /\ UNCHANGED <<audience, received>>
    BY <1>3, ContractSays DEF Opens, on_connect
  <2>2. stack \in Seq(Callback) /\ ~Leaving(stack)
    BY <1>0, LeavingNot
  <2> HIDE DEF stack
  <2>3. /\ Changes(c, "Open", stack)
        /\ \A d \in Client : gone'[d] = IF d = c THEN FALSE ELSE gone[d]
    BY <1>0, <2>1, <2>2, MovesChanges
  <2>4. /\ broadcast_list' \in [Client -> Nat]
        /\ \A d \in Client : broadcast_list'[d] =
                               IF d = c THEN broadcast_list[c] + 1 ELSE broadcast_list[d]
    BY <2>1 DEF Types
  <2>5. broadcast_list[c] = 0 /\ Served("Open", stack)
    BY <2>1, <2>2 DEF Exact, Served
  <2>6. broadcast_list'[c] = 1
    BY <2>4, <2>5
  <2>7. ASSUME NEW d \in Client
        PROVE  /\ broadcast_list'[d] = IF Served(phase'[d], callbacks'[d]) THEN 1 ELSE 0
               /\ gone'[d] => phase'[d] = "Closed"
    <3>1. CASE d = c
      BY <2>3, <2>5, <2>6, <3>1 DEF Changes
    <3>2. CASE d # c
      BY <2>3, <2>4, <3>2 DEF Changes, Exact
    <3>3. QED
      BY <3>1, <3>2
  <2>8. Types'
    BY <1>0, <1>1, <2>1, <2>2, <2>4
  <2>9. QED
    BY <2>7, <2>8 DEF Exact
<1>4. CASE GetsCloseFrame(c)
  <2>1. Moves(c, phase[c], <<"on_close_frame">>, FALSE) /\ on_close(c)
    BY <1>4 DEF GetsCloseFrame
  <2>2. <<"on_close_frame">> \in Seq(Callback) /\ ~Served(phase[c], <<"on_close_frame">>)
    BY <1>0, LeavingNot DEF Served
  <2>3. QED
    BY <1>0, <1>2, <2>1, <2>2
<1>5. CASE ClosesAfterFrame(c) \/ Closes(c)
  <2>1. Moves(c, "Closed", <<"on_closed">>, FALSE) /\ on_close(c)
    BY <1>5 DEF ClosesAfterFrame, Closes
  <2>2. <<"on_closed">> \in Seq(Callback) /\ ~Served("Closed", <<"on_closed">>)
    BY <1>0, LeavingNot DEF Served
  <2>3. QED
    BY <1>0, <1>2, <2>1, <2>2
<1>6. QED
  BY <1>3, <1>4, <1>5

LEMMA QuietStep ==
  ASSUME Types, Exact, NEW c \in Client,
         Returns(c) \/ Congests(c) \/ Drains(c) \/ StartsClosing(c) \/ Dropped(c)
  PROVE  Types' /\ Exact'
<1>0. /\ phase[c] \in Phase /\ "Closing" \in Phase /\ "on_drain" \in Callback
      /\ callbacks[c] \in Seq(Callback) /\ <<>> \in Seq(Callback)
      /\ TRUE \in BOOLEAN /\ FALSE \in BOOLEAN /\ gone[c] \in BOOLEAN
  BY EmptySeq DEF Types, Phase, Callback
<1>1. UNCHANGED <<broadcast_list, audience, received>>
  BY DEF Returns, Congests, Drains, StartsClosing, Dropped, NoHandler
<1>2. ASSUME NEW p \in Phase, NEW stack \in Seq(Callback), NEW dropped \in BOOLEAN,
             Moves(c, p, stack, dropped), dropped => p = "Closed",
             Served(p, stack) <=> Served(phase[c], callbacks[c])
      PROVE  Types' /\ Exact'
  <2>1. /\ Changes(c, p, stack) /\ gone' \in [Client -> BOOLEAN] /\ congested' = congested
        /\ \A d \in Client : gone'[d] = IF d = c THEN dropped ELSE gone[d]
    BY <1>2, MovesChanges
  <2>2. (gone'[c] => p = "Closed") /\ \A d \in Client \ {c} : gone'[d] = gone[d]
    BY <1>2, <2>1
  <2>3. broadcast_list' = broadcast_list
    BY <1>1
  <2>4. Exact'
    BY <1>2, <2>1, <2>2, <2>3, Kept
  <2>5. Types'
    BY <1>1, <2>1 DEF Types, Changes
  <2>6. QED
    BY <2>4, <2>5
<1>3. ASSUME NEW stack \in Seq(Callback), callbacks' = [callbacks EXCEPT ![c] = stack],
             NEW b \in BOOLEAN, congested' = [congested EXCEPT ![c] = b],
             UNCHANGED <<phase, gone>>, Leaving(stack) <=> Leaving(callbacks[c])
      PROVE  Types' /\ Exact'
  <2>1. /\ Changes(c, phase[c], stack) /\ congested' \in [Client -> BOOLEAN]
    BY <1>3 DEF Types, Changes
  <2>2. Served(phase[c], stack) <=> Served(phase[c], callbacks[c])
    BY <1>3 DEF Served
  <2>3. (gone'[c] => phase[c] = "Closed") /\ \A d \in Client \ {c} : gone'[d] = gone[d]
    BY <1>3 DEF Exact
  <2>4. broadcast_list' = broadcast_list
    BY <1>1
  <2>5. Exact'
    BY <2>1, <2>2, <2>3, <2>4, Kept
  <2>6. Types'
    BY <1>1, <1>3, <2>1 DEF Types, Changes
  <2>7. QED
    BY <2>5, <2>6
<1>4. CASE Returns(c)
  <2> DEFINE stack == Tail(callbacks[c])
  <2>1. /\ callbacks[c] # <<>> /\ Moves(c, phase[c], stack, FALSE)
        /\ Head(callbacks[c]) # "on_close_frame"
    BY <1>4, ContractSays DEF Returns
  <2>2. stack \in Seq(Callback) /\ (Leaving(stack) <=> Leaving(callbacks[c]))
    BY <1>0, <2>1, LeavingTail
  <2> HIDE DEF stack
  <2>3. Served(phase[c], stack) <=> Served(phase[c], callbacks[c])
    BY <2>2 DEF Served
  <2>4. QED
    BY <1>0, <1>2, <2>1, <2>2, <2>3
<1>5. CASE Congests(c)
  <2> DEFINE stack == <<"on_backpressure">> \o callbacks[c]
  <2>1. /\ callbacks' = [callbacks EXCEPT ![c] = stack]
        /\ congested' = [congested EXCEPT ![c] = TRUE] /\ UNCHANGED <<phase, gone>>
    BY <1>5 DEF Congests
  <2>2. stack \in Seq(Callback) /\ (Leaving(stack) <=> Leaving(callbacks[c]))
    BY <1>0, LeavingCongest
  <2> HIDE DEF stack
  <2>3. QED
    BY <1>0, <1>3, <2>1, <2>2
<1>6. CASE Drains(c)
  <2> DEFINE stack == <<"on_drain">>
  <2>1. /\ callbacks' = [callbacks EXCEPT ![c] = stack] /\ callbacks[c] = <<>>
        /\ congested' = [congested EXCEPT ![c] = FALSE] /\ UNCHANGED <<phase, gone>>
    BY <1>6 DEF Drains, Idle
  <2>2. stack \in Seq(Callback) /\ ~Leaving(stack) /\ ~Leaving(callbacks[c])
    BY <1>0, <2>1, LeavingNot
  <2> HIDE DEF stack
  <2>3. QED
    BY <1>0, <1>3, <2>1, <2>2
<1>7. CASE StartsClosing(c)
  <2>1. /\ callbacks[c] = <<>> /\ Moves(c, "Closing", <<>>, gone[c])
        /\ phase[c] = "Open" /\ ~gone[c]
    BY <1>7, ContractSays DEF StartsClosing, Idle
  <2>2. Served("Closing", <<>>) /\ Served(phase[c], callbacks[c])
    BY <2>1, LeavingNot DEF Served
  <2>3. QED
    BY <1>0, <1>2, <2>1, <2>2
<1>8. CASE Dropped(c)
  <2>1. callbacks[c] = <<>> /\ Moves(c, phase[c], <<>>, TRUE) /\ phase[c] = "Closed"
    BY <1>8, ContractSays DEF Dropped, Idle
  <2>2. Served(phase[c], <<>>) <=> Served(phase[c], callbacks[c])
    BY <2>1
  <2>3. QED
    BY <1>0, <1>2, <2>1, <2>2
<1>9. QED
  BY <1>4, <1>5, <1>6, <1>7, <1>8

LEMMA MessageStep ==
  ASSUME Types, Exact, NEW c \in Client, NEW full \in SUBSET Client, Receives(c, full)
  PROVE  Types' /\ Exact'
<1> DEFINE stack == <<"on_message">>
<1>1. /\ Idle /\ Moves(c, phase[c], stack, FALSE) /\ broadcast_list' = broadcast_list
      /\ audience' = Append(audience, {d \in Client : phase[d] = "Open" /\ d \notin full})
      /\ received' = [d \in Client |-> received[d] \cup
                       (IF d \in Reached(full) THEN {Len(audience) + 1} ELSE {})]
  BY DEF Receives, on_message
<1>2. stack \in Seq(Callback) /\ ~Leaving(stack) /\ phase[c] \in Phase
  BY LeavingNot DEF Callback, Types
<1> HIDE DEF stack
<1>3. /\ Changes(c, phase[c], stack) /\ gone' \in [Client -> BOOLEAN]
      /\ congested' = congested
      /\ \A d \in Client : gone'[d] = IF d = c THEN FALSE ELSE gone[d]
  BY <1>1, <1>2, MovesChanges
<1>4. Served(phase[c], stack) <=> Served(phase[c], callbacks[c])
  BY <1>1, <1>2, LeavingNot DEF Served, Idle
<1>5. Exact'
  BY <1>1, <1>3, <1>4, Kept
<1>6. audience' \in Seq(SUBSET Client)
  BY <1>1, AppendProperties DEF Types
<1>7. received' \in [Client -> SUBSET Nat]
  <2>1. Len(audience) + 1 \in Nat
    BY LenProperties DEF Types
  <2>2. QED
    BY <1>1, <2>1 DEF Types
<1>8. Types'
  BY <1>1, <1>3, <1>6, <1>7 DEF Types, Changes
<1>9. QED
  BY <1>5, <1>8

LEMMA ExactAlways == Spec => [](Types /\ Exact)
<1>1. Init => Types /\ Exact
  <2>1. ASSUME Init
        PROVE  Types /\ Exact
    <3>1. Types
      BY <2>1, EmptySeq DEF Init, Types, Phase
    <3>2. \A c \in Client : ~Served(phase[c], callbacks[c]) /\ broadcast_list[c] = 0 /\ ~gone[c]
      BY <2>1 DEF Init, Served
    <3>3. QED
      BY <3>1, <3>2 DEF Exact
  <2>2. QED
    BY <2>1
<1>2. Types /\ Exact /\ [Next]_vars => (Types /\ Exact)'
  <2>1. ASSUME Types, Exact, UNCHANGED vars
        PROVE  Types' /\ Exact'
    BY <2>1 DEF vars, connVars, Types, Exact
  <2>2. QED
    BY <2>1, ListStep, QuietStep, MessageStep DEF Next
<1>3. QED
  BY <1>1, <1>2, PTL DEF Spec

(* For every set of connections: between callbacks the list has exactly    *)
(* the connections that are open or closing, each once.                    *)
THEOREM ListExact == Spec => []ListIsInService
<1>1. Types /\ Exact => ListIsInService
  BY ServedWhenIdle DEF Exact, ListIsInService, InService
<1>2. QED
  BY <1>1, ExactAlways, PTL

-----------------------------------------------------------------------------
(* The audience of a message. *)

LEMMA AudienceStep ==
  ASSUME Types, Exact, AudienceReached, [Next]_vars
  PROVE  AudienceReached'
<1>1. CASE UNCHANGED <<audience, received>>
  BY <1>1 DEF AudienceReached
<1>2. ASSUME NEW c \in Client, NEW full \in SUBSET Client, Receives(c, full)
      PROVE  AudienceReached'
  <2> DEFINE n == Len(audience) + 1
             open == {d \in Client : phase[d] = "Open" /\ d \notin full}
  <2>1. /\ Idle /\ audience' = Append(audience, open)
        /\ received' = [d \in Client |-> received[d] \cup
                         (IF d \in Reached(full) THEN {n} ELSE {})]
    BY <1>2 DEF Receives, on_message
  <2>2. ASSUME NEW d \in Client
        PROVE  d \in Reached(full) <=> d \in open
    <3>1. phase[d] = "Open" => broadcast_list[d] = 1 /\ ~gone[d]
      BY <2>1, ServedWhenIdle DEF Exact
    <3>2. 1 > 0
      OBVIOUS
    <3>3. QED
      BY <3>1, <3>2 DEF Reached
  <2>3. /\ DOMAIN audience = 1..Len(audience) /\ Len(audience) \in Nat
        /\ DOMAIN audience' = 1..n /\ audience'[n] = open
        /\ \A m \in 1..Len(audience) : audience'[m] = audience[m]
    <3>1. open \in SUBSET Client
      OBVIOUS
    <3> HIDE DEF open
    <3>2. QED
      BY <2>1, <3>1, AppendProperties, LenProperties DEF Types
  <2>4. ASSUME NEW d \in Client
        PROVE  received'[d] = {m \in DOMAIN audience' : d \in audience'[m]}
    <3>1. received[d] = {m \in DOMAIN audience : d \in audience[m]}
      BY DEF AudienceReached
    <3>2. received'[d] = received[d] \cup (IF d \in open THEN {n} ELSE {})
      BY <2>1, <2>2
    <3> HIDE DEF open
    <3>3. \A m : m \in DOMAIN audience' <=> m \in DOMAIN audience \/ m = n
      BY <2>3
    <3>4. n \notin DOMAIN audience
      BY <2>3
    <3> HIDE DEF n
    <3>5. QED
      BY <2>3, <3>1, <3>2, <3>3, <3>4
  <2>5. QED
    BY <2>4 DEF AudienceReached
<1>3. QED
  BY <1>1, <1>2
     DEF Next, vars, Opens, on_connect, GetsCloseFrame, ClosesAfterFrame, Closes, on_close,
         Returns, Congests, Drains, StartsClosing, Dropped, NoHandler

(* For every set of connections and every number of messages: a message    *)
(* reaches the connections that are open when it is broadcast, and no      *)
(* other; the list is never behind, because a message comes only between   *)
(* callbacks.                                                              *)
THEOREM EveryOpenConnectionHears == Spec => []AudienceReached
<1>1. Init => AudienceReached
  <2>1. DOMAIN <<>> = {}
    BY EmptySeq
  <2>2. QED
    BY <2>1 DEF Init, AudienceReached
<1>2. Types /\ Exact /\ AudienceReached /\ [Next]_vars => AudienceReached'
  BY AudienceStep
<1>3. QED
  BY <1>1, <1>2, ExactAlways, PTL DEF Spec

=============================================================================
