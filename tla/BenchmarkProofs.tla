--------------------------- MODULE BenchmarkProofs ---------------------------
(***************************************************************************)
(* Theorems about Benchmark, for every number of clients, messages, places *)
(* and failures: the barrier holds everybody back, no client is turned     *)
(* away below the limit, and the result counts everything.  The first two  *)
(* rest on a counter that is the size of a set of clients: ready_count of  *)
(* those past their handshake, and the server's active_connections of      *)
(* those it holds.  The third rests on what a client that is done has      *)
(* measured, and on the joins, which add the clients up one by one.        *)
(***************************************************************************)
EXTENDS Benchmark, SequenceTheorems, FiniteSetTheorems, TLAPS

Ready == Measuring \cup {"waiting"}
Place == Ready \cup {"new", "connected", "shaking", "shook", "failed"}

(* Threads run only once they are spawned. *)
Threads ==
  /\ num_clients \in 1..MaxClients /\ spawned \in 0..num_clients
  /\ pc \in [Clients -> Place]
  /\ \A c \in Clients : pc[c] # "new" => c <= spawned

AtBarrier == {c \in Clients : pc[c] \in Ready}

Barrier ==
  /\ ready_count = Cardinality(AtBarrier)
  /\ go => \A c \in 1..num_clients : pc[c] \in Ready
  /\ ~go => \A c \in Clients : pc[c] \notin Measuring

LEMMA ClientsFinite == IsFiniteSet(Clients)
  BY FS_Interval, BenchmarkAssumption DEF Clients

(* A set of clients that gains or loses one. *)
LEMMA OneMore ==
  ASSUME NEW S \in SUBSET Clients, NEW c \in Clients \ S
  PROVE  Cardinality(S \cup {c}) = Cardinality(S) + 1
  BY ClientsFinite, FS_Subset, FS_AddElement

LEMMA OneLess ==
  ASSUME NEW S \in SUBSET Clients, NEW c \in S
  PROVE  Cardinality(S \ {c}) = Cardinality(S) - 1
  BY ClientsFinite, FS_Subset, FS_RemoveElement

(* Where the threads are, step by step. *)
LEMMA ThreadsStep ==
  ASSUME Threads, [Next]_vars
  PROVE  Threads'
<1>1. CASE UNCHANGED <<num_clients, spawned, pc>>
  BY <1>1 DEF Threads
<1>2. CASE Spawn
  BY <1>2, BenchmarkAssumption DEF Spawn, args, client, Threads, Clients
<1>3. ASSUME NEW c \in Clients, NEW p \in Place, pc' = [pc EXCEPT ![c] = p],
             UNCHANGED <<num_clients, spawned>>, pc[c] # "new" \/ c <= spawned
      PROVE  Threads'
  BY <1>3 DEF Threads
<1>4. ASSUME NEW c \in Clients, ClientStep(c) \/ ConnectFails(c)
      PROVE  Threads'
  <2>1. \E p \in Place : pc' = [pc EXCEPT ![c] = p]
    BY <1>4 DEF ClientStep, Connect, ConnectFails, SendRequest, FinishHandshake,
       HandshakeFails, Arrive, PassBarrier, SendMessage, ReceiveEcho, CloseFd, Goto,
       Place, Ready, Measuring
  <2>2. UNCHANGED <<num_clients, spawned>> /\ (pc[c] # "new" \/ c <= spawned)
    BY <1>4 DEF ClientStep, Connect, ConnectFails, SendRequest, FinishHandshake,
       HandshakeFails, Arrive, PassBarrier, SendMessage, ReceiveEcho, CloseFd, Goto,
       args, mainVars
  <2>3. QED
    BY <1>3, <2>1, <2>2
<1>5. QED
  BY <1>1, <1>2, <1>4
     DEF Next, vars, args, client, mainVars, MainStep, Start, Join, StopServer,
         JoinServer, RunServer, Accept, EndServer, Serve, Remove, Break

(* Steps of a thread on one side of the barrier. *)
LEMMA SameSide ==
  ASSUME Threads, Barrier, NEW c \in Clients, NEW p \in Place,
         pc' = [pc EXCEPT ![c] = p], UNCHANGED <<ready_count, go, num_clients>>,
         pc[c] \in Ready <=> p \in Ready,
         p \in Measuring => go
  PROVE  Barrier'
<1>1. \A d \in Clients : pc'[d] = IF d = c THEN p ELSE pc[d]
  BY DEF Threads
<1>2. AtBarrier' = AtBarrier
  BY <1>1 DEF AtBarrier
<1>3. 1..num_clients \subseteq Clients
  BY BenchmarkAssumption DEF Threads, Clients
<1>4. go' => \A d \in 1..num_clients' : pc'[d] \in Ready
  BY <1>1, <1>3 DEF Barrier
<1>5. ~go' => \A d \in Clients : pc'[d] \notin Measuring
  BY <1>1 DEF Barrier
<1>6. QED
  BY <1>2, <1>4, <1>5 DEF Barrier

LEMMA BarrierStep ==
  ASSUME Threads, Barrier, [Next]_vars
  PROVE  Barrier'
<1>0. 1..num_clients \subseteq Clients /\ num_clients \in Nat \ {0} /\ spawned \in Nat
  BY BenchmarkAssumption DEF Threads, Clients
<1>1. CASE UNCHANGED <<num_clients, ready_count, go, pc>>
  BY <1>1 DEF Barrier, AtBarrier
<1>2. ASSUME NEW c \in Clients, Arrive(c)
      PROVE  Barrier'
  <2>1. /\ pc[c] = "shook" /\ pc' = [pc EXCEPT ![c] = "waiting"]
        /\ ready_count' = ready_count + 1 /\ UNCHANGED <<go, num_clients>>
    BY <1>2 DEF Arrive, Goto, args
  <2>2. \A d \in Clients : pc'[d] = IF d = c THEN "waiting" ELSE pc[d]
    BY <2>1 DEF Threads
  <2>3. AtBarrier' = AtBarrier \cup {c} /\ c \notin AtBarrier
    BY <2>1, <2>2 DEF AtBarrier, Ready, Measuring
  <2>4. Cardinality(AtBarrier') = Cardinality(AtBarrier) + 1
    BY <2>3, OneMore DEF AtBarrier
  <2>5. QED
    BY <1>0, <2>1, <2>2, <2>4 DEF Barrier, Ready, Measuring
<1>3. CASE Start
  <2>1. /\ spawned = num_clients /\ ready_count >= num_clients /\ go' = TRUE
        /\ UNCHANGED <<ready_count, pc, num_clients>>
    BY <1>3 DEF Start, client, args
  <2>2. AtBarrier \subseteq 1..num_clients
    BY <1>0, <2>1 DEF AtBarrier, Threads, Ready, Measuring, Clients
  <2>3. IsFiniteSet(1..num_clients) /\ Cardinality(1..num_clients) = num_clients
    <3>1. ~(1 > num_clients) /\ num_clients - 1 + 1 = num_clients
      BY <1>0
    <3>2. QED
      BY <1>0, <3>1, FS_Interval
  <2>4. /\ Cardinality(AtBarrier) <= num_clients /\ Cardinality(AtBarrier) \in Nat
        /\ Cardinality(AtBarrier) = num_clients => AtBarrier = 1..num_clients
    BY <2>2, <2>3, FS_Subset, FS_CardinalityType
  <2>5. AtBarrier = 1..num_clients
    BY <1>0, <2>1, <2>4 DEF Barrier
  <2>6. QED
    BY <2>1, <2>5 DEF Barrier, AtBarrier
<1>4. ASSUME NEW c \in Clients,
             Connect(c) \/ ConnectFails(c) \/ SendRequest(c) \/ FinishHandshake(c)
               \/ HandshakeFails(c) \/ PassBarrier(c) \/ SendMessage(c)
               \/ ReceiveEcho(c) \/ CloseFd(c)
      PROVE  Barrier'
  <2>1. UNCHANGED <<ready_count, go, num_clients>>
    BY <1>4 DEF Connect, ConnectFails, SendRequest, FinishHandshake, HandshakeFails,
       PassBarrier, SendMessage, ReceiveEcho, CloseFd, args
  <2>2. pc[c] \in Measuring => go
    BY DEF Barrier
  <2>3. \E p \in Place : /\ pc' = [pc EXCEPT ![c] = p]
                         /\ pc[c] \in Ready <=> p \in Ready
                         /\ p \in Measuring => go
    BY <1>4, <2>2
       DEF Connect, ConnectFails, SendRequest, FinishHandshake, HandshakeFails,
           PassBarrier, SendMessage, ReceiveEcho, CloseFd, Goto, Place, Ready, Measuring
  <2>4. QED
    BY <2>1, <2>3, SameSide
<1>5. QED
  BY <1>1, <1>2, <1>3, <1>4
     DEF Next, ClientStep, vars, args, client, mainVars, MainStep, Spawn, Join,
         StopServer, JoinServer, RunServer, Accept, EndServer, Serve, Remove, Break

LEMMA BarrierAlways == Spec => [](Threads /\ Barrier)
<1>1. Init => Threads /\ Barrier
  <2>1. ASSUME Init
        PROVE  Threads /\ Barrier
    <3>1. Threads
      BY <2>1, BenchmarkAssumption DEF Init, Threads, Place
    <3>2. AtBarrier = {}
      BY <2>1 DEF Init, AtBarrier, Ready, Measuring
    <3>3. Cardinality(AtBarrier) = 0
      BY <3>2, FS_EmptySet
    <3>4. ~go /\ ready_count = 0 /\ \A c \in Clients : pc[c] \notin Measuring
      BY <2>1 DEF Init, Measuring
    <3>5. QED
      BY <3>1, <3>3, <3>4 DEF Barrier
  <2>2. QED
    BY <2>1
<1>2. Threads /\ Barrier /\ [Next]_vars => (Threads /\ Barrier)'
  BY ThreadsStep, BarrierStep
<1>3. QED
  BY <1>1, <1>2, PTL DEF Spec

(* For every number of clients: go is stored, and a message sent, only     *)
(* when the handshake of every client is done.                             *)
THEOREM BarrierHolds == Spec => []AllReadyBeforeTraffic
<1>1. Threads /\ Barrier => AllReadyBeforeTraffic
  BY DEF Barrier, AllReadyBeforeTraffic, Ready
<1>2. QED
  BY <1>1, BarrierAlways, PTL

-----------------------------------------------------------------------------
(* The server's count of connections. *)

Limit == (MaxConnections * 9) \div 10

Sockets == {"none", "queued", "open", "hungup", "closed"}

Held == {c \in Clients : socket[c] \in {"open", "hungup"}}

(* A socket is queued once, and hung up by a thread that is done. *)
Accounts ==
  /\ socket \in [Clients -> Sockets] /\ backlog \in Seq(Clients)
  /\ active = Cardinality(Held)
  /\ \A c \in Clients : pc[c] = "new" => socket[c] = "none"
  /\ \A c \in Clients : socket[c] # "none" => c <= spawned
  /\ \A c \in Clients : socket[c] = "hungup" => pc[c] = "done"
  /\ \A k \in DOMAIN backlog : socket[backlog[k]] = "queued"
  /\ \A j, k \in DOMAIN backlog : backlog[j] = backlog[k] => j = k

Excused == broken # {} \/ num_clients > Limit + 1

(* A socket that is closed before the handshake has a reason. *)
Reasons ==
  \A c \in Clients :
    pc[c] = "failed" \/ (pc[c] \in {"connected", "shaking"} /\ socket[c] = "closed")
      => Excused

(* Steps that change one socket, not in the backlog, and not to queued. *)
LEMMA OneSocket ==
  ASSUME Accounts, NEW c \in Clients, NEW q \in Sockets \ {"queued"},
         socket' = [socket EXCEPT ![c] = q], backlog' = backlog, spawned' = spawned,
         \A k \in DOMAIN backlog : backlog[k] # c,
         socket[c] # "none", q = "hungup" => pc'[c] = "done",
         active' = Cardinality(Held'),
         \A d \in Clients : /\ pc'[d] = "new" => pc[d] = "new"
                            /\ pc[d] = "done" => pc'[d] = "done"
  PROVE  Accounts'
<1>1. \A d \in Clients : socket'[d] = IF d = c THEN q ELSE socket[d]
  BY DEF Accounts
<1>2. \A k \in DOMAIN backlog : backlog[k] \in Clients
  BY ElementOfSeq, LenProperties DEF Accounts
<1>3. socket' \in [Clients -> Sockets] /\ backlog' \in Seq(Clients)
  BY DEF Accounts
<1>4. \A k \in DOMAIN backlog : socket'[backlog[k]] = "queued"
  BY <1>1, <1>2 DEF Accounts
<1>5. QED
  BY <1>1, <1>3, <1>4 DEF Accounts

LEMMA AccountsStep ==
  ASSUME Threads, Accounts, [Next]_vars
  PROVE  Accounts'
<1>0. /\ \A k \in DOMAIN backlog : backlog[k] \in Clients
      /\ DOMAIN backlog = 1..Len(backlog) /\ Len(backlog) \in Nat
      /\ Held \in SUBSET Clients
  BY ElementOfSeq, LenProperties DEF Accounts, Held
<1>1. ASSUME UNCHANGED <<socket, backlog, active>>, spawned' \in {spawned, spawned + 1},
             \A d \in Clients : /\ pc'[d] = "new" => pc[d] = "new"
                                /\ pc[d] = "done" => pc'[d] = "done"
      PROVE  Accounts'
  <2>1. \A c \in Clients : c <= spawned => c <= spawned'
    BY <1>1, BenchmarkAssumption DEF Threads, Clients
  <2>2. Held' = Held
    BY <1>1 DEF Held
  <2>3. QED
    BY <1>1, <2>1, <2>2 DEF Accounts
<1>2. ASSUME NEW c \in Clients, Connect(c)
      PROVE  Accounts'
  <2>1. /\ c <= spawned /\ pc[c] = "new" /\ pc' = [pc EXCEPT ![c] = "connected"]
        /\ socket' = [socket EXCEPT ![c] = "queued"] /\ backlog' = Append(backlog, c)
        /\ UNCHANGED <<spawned, active>>
    BY <1>2 DEF Connect, Goto, mainVars
  <2>2. /\ \A d \in Clients : socket'[d] = IF d = c THEN "queued" ELSE socket[d]
        /\ \A d \in Clients : pc'[d] = IF d = c THEN "connected" ELSE pc[d]
        /\ socket[c] = "none" /\ socket' \in [Clients -> Sockets]
    BY <2>1 DEF Accounts, Threads, Sockets
  <2>3. Held' = Held
    BY <2>2 DEF Held
  <2>4. /\ backlog' \in Seq(Clients) /\ Len(backlog') = Len(backlog) + 1
        /\ \A k \in 1..Len(backlog) : backlog'[k] = backlog[k]
        /\ backlog'[Len(backlog) + 1] = c /\ DOMAIN backlog' = 1..(Len(backlog) + 1)
    BY <1>0, <2>1, AppendProperties, LenProperties DEF Accounts
  <2>5. \A k \in DOMAIN backlog : backlog[k] # c
    BY <2>2 DEF Accounts
  <2>6. /\ \A k \in DOMAIN backlog' : socket'[backlog'[k]] = "queued"
        /\ \A j, k \in DOMAIN backlog' : backlog'[j] = backlog'[k] => j = k
    BY <1>0, <2>2, <2>4, <2>5 DEF Accounts
  <2>7. QED
    BY <2>1, <2>2, <2>3, <2>4, <2>6 DEF Accounts
<1>3. ASSUME NEW c \in Clients, CloseFd(c)
      PROVE  Accounts'
  <2>1. /\ pc[c] # "new" /\ pc' = [pc EXCEPT ![c] = "done"]
        /\ socket' = [socket EXCEPT ![c] = IF socket[c] = "open" THEN "hungup" ELSE socket[c]]
        /\ UNCHANGED <<backlog, spawned, active>>
    BY <1>3 DEF CloseFd, mainVars
  <2>2. \A d \in Clients : pc'[d] = IF d = c THEN "done" ELSE pc[d]
    BY <2>1 DEF Threads
  <2>3. CASE socket[c] = "open"
    <3>1. socket' = [socket EXCEPT ![c] = "hungup"]
      BY <2>1, <2>3
    <3>2. Held' = Held
      BY <2>3, <3>1 DEF Held, Accounts
    <3>3. active' = Cardinality(Held')
      BY <2>1, <3>2 DEF Accounts
    <3>4. "hungup" \in Sockets \ {"queued"} /\ \A k \in DOMAIN backlog : backlog[k] # c
      BY <2>3 DEF Sockets, Accounts
    <3>5. socket[c] # "none" /\ pc'[c] = "done"
      BY <2>2, <2>3
    <3>6. \A d \in Clients : /\ pc'[d] = "new" => pc[d] = "new"
                             /\ pc[d] = "done" => pc'[d] = "done"
      BY <2>2
    <3>7. backlog' = backlog /\ spawned' = spawned
      BY <2>1
    <3>8. QED
      BY <3>1, <3>3, <3>4, <3>5, <3>6, <3>7, OneSocket
  <2>4. CASE socket[c] # "open"
    <3>1. socket' = socket
      BY <2>1, <2>4 DEF Accounts
    <3>2. QED
      BY <1>1, <2>1, <2>2, <3>1
  <2>5. QED
    BY <2>3, <2>4
<1>4. ASSUME NEW c \in Clients, Remove(c) \/ Break(c)
      PROVE  Accounts'
  <2>1. /\ socket[c] \in {"open", "hungup"} /\ socket' = [socket EXCEPT ![c] = "closed"]
        /\ active' = active - 1 /\ UNCHANGED <<pc, backlog, spawned>>
    BY <1>4 DEF Remove, Break, client, mainVars
  <2>2. Held' = Held \ {c} /\ c \in Held
    BY <2>1 DEF Held, Accounts
  <2>3. active' = Cardinality(Held')
    BY <1>0, <2>1, <2>2, OneLess DEF Accounts
  <2>4. "closed" \in Sockets \ {"queued"} /\ \A k \in DOMAIN backlog : backlog[k] # c
    BY <2>1 DEF Sockets, Accounts
  <2>5. QED
    BY <2>1, <2>3, <2>4, OneSocket
<1>5. CASE Accept
  <2> DEFINE c == Head(backlog)
             q == IF is_overloaded THEN "closed" ELSE "open"
  <2>1. /\ backlog # <<>> /\ backlog' = Tail(backlog)
        /\ socket' = [socket EXCEPT ![c] = q]
        /\ active' = IF is_overloaded THEN active ELSE active + 1
        /\ UNCHANGED <<pc, spawned>>
    BY <1>5 DEF Accept, client, mainVars
  <2>2. c = backlog[1] /\ 1 \in DOMAIN backlog /\ c \in Clients
    BY <1>0, <2>1, HeadTailProperties, EmptySeq DEF Accounts
  <2>3. socket[c] = "queued" /\ q \in {"closed", "open"}
    BY <2>2 DEF Accounts
  <2> HIDE DEF c
  <2>4. \A d \in Clients : socket'[d] = IF d = c THEN q ELSE socket[d]
    BY <2>1, <2>2 DEF Accounts
  <2>5. active' = Cardinality(Held')
    <3>1. CASE is_overloaded
      <4>1. Held' = Held
        BY <2>3, <2>4, <3>1 DEF Held
      <4>2. QED
        BY <2>1, <3>1, <4>1 DEF Accounts
    <3>2. CASE ~is_overloaded
      <4>1. Held' = Held \cup {c} /\ c \in Clients \ Held
        BY <2>2, <2>3, <2>4, <3>2 DEF Held
      <4>2. QED
        BY <1>0, <2>1, <3>2, <4>1, OneMore DEF Accounts
    <3>3. QED
      BY <3>1, <3>2
  <2>6. /\ backlog' \in Seq(Clients) /\ Len(backlog') = Len(backlog) - 1
        /\ \A k \in 1..Len(backlog') : backlog'[k] = backlog[k + 1]
    BY <2>1, HeadTailProperties DEF Accounts
  <2>7. DOMAIN backlog' = 1..(Len(backlog) - 1)
    BY <1>0, <2>6, LenProperties
  <2>8. \A k \in DOMAIN backlog' : /\ k + 1 \in DOMAIN backlog
                                   /\ backlog'[k] = backlog[k + 1] /\ backlog[k + 1] # c
    BY <1>0, <2>2, <2>6, <2>7 DEF Accounts
  <2>9. /\ \A k \in DOMAIN backlog' : socket'[backlog'[k]] = "queued"
        /\ \A j, k \in DOMAIN backlog' : backlog'[j] = backlog'[k] => j = k
    <3>1. \A k \in DOMAIN backlog' : socket'[backlog'[k]] = "queued"
      BY <1>0, <2>4, <2>8 DEF Accounts
    <3>2. ASSUME NEW j \in DOMAIN backlog', NEW k \in DOMAIN backlog', backlog'[j] = backlog'[k]
          PROVE  j = k
      <4>1. j + 1 = k + 1
        BY <2>8, <3>2 DEF Accounts
      <4>2. QED
        BY <1>0, <2>7, <4>1
    <3>3. QED
      BY <3>1, <3>2
  <2>10. socket' \in [Clients -> Sockets]
    BY <2>1, <2>3 DEF Accounts, Sockets
  <2>11. QED
    BY <2>1, <2>2, <2>3, <2>4, <2>5, <2>6, <2>9, <2>10 DEF Accounts
<1>6. ASSUME NEW c \in Clients,
             ConnectFails(c) \/ SendRequest(c) \/ FinishHandshake(c) \/ HandshakeFails(c)
               \/ Arrive(c) \/ PassBarrier(c) \/ SendMessage(c) \/ ReceiveEcho(c)
      PROVE  Accounts'
  <2>1. /\ UNCHANGED <<socket, backlog, active, spawned>> /\ pc[c] # "done"
        /\ \E p \in Place \ {"new"} : pc' = [pc EXCEPT ![c] = p]
    BY <1>6 DEF ConnectFails, SendRequest, FinishHandshake, HandshakeFails, Arrive,
       PassBarrier, SendMessage, ReceiveEcho, Goto, mainVars, Place, Ready, Measuring
  <2>2. \A d \in Clients : /\ pc'[d] = "new" => pc[d] = "new"
                           /\ pc[d] = "done" => pc'[d] = "done"
    BY <2>1 DEF Threads
  <2>3. QED
    BY <1>1, <2>1, <2>2
<1>7. CASE UNCHANGED <<pc, socket, backlog, active>> /\ spawned' \in {spawned, spawned + 1}
  BY <1>1, <1>7
<1>8. QED
  BY <1>2, <1>3, <1>4, <1>5, <1>6, <1>7
     DEF Next, ClientStep, vars, args, client, mainVars, MainStep, Spawn, Start, Join,
         StopServer, JoinServer, RunServer, EndServer, Serve

LEMMA ReasonsStep ==
  ASSUME Threads, Accounts, Reasons, [Next]_vars
  PROVE  Reasons'
<1>0. num_clients \in Nat \ {0} /\ num_clients' = num_clients /\ Limit \in Nat
  BY BenchmarkAssumption
     DEF Threads, Limit, Next, vars, args, ClientStep, Connect, ConnectFails, SendRequest,
         FinishHandshake, HandshakeFails, Arrive, PassBarrier, SendMessage, ReceiveEcho,
         CloseFd, MainStep, Spawn, Start, Join, StopServer, JoinServer, RunServer, Accept,
         EndServer, Serve, Remove, Break
<1>1. Excused => Excused'
  <2>1. broken # {} => broken' # {}
    BY DEF Next, vars, ClientStep, Connect, ConnectFails, SendRequest,
         FinishHandshake, HandshakeFails, Arrive, PassBarrier, SendMessage, ReceiveEcho,
         CloseFd, MainStep, Spawn, Start, Join, StopServer, JoinServer, RunServer, Accept,
         EndServer, Serve, Remove, Break
  <2>2. QED
    BY <1>0, <2>1 DEF Excused, Limit
<1>2. CASE Excused'
  BY <1>2 DEF Reasons
<1>3. CASE ~Excused'
  <2>1. /\ ~Excused /\ \A c \in Clients : pc[c] # "failed"
        /\ \A c \in Clients : pc[c] \in {"connected", "shaking"} => socket[c] # "closed"
    BY <1>1, <1>3 DEF Reasons
  <2>2. ASSUME NEW c \in Clients, ConnectFails(c) \/ Break(c)
        PROVE  FALSE
    BY <1>3, <2>2 DEF ConnectFails, Break, Excused
  <2>3. ASSUME NEW c \in Clients, HandshakeFails(c)
        PROVE  FALSE
    BY <2>1, <2>3 DEF HandshakeFails, Goto
  <2>4. CASE Accept
    <3> DEFINE c == Head(backlog)
    <3>1. /\ backlog # <<>> /\ UNCHANGED pc
          /\ socket' = [socket EXCEPT ![c] = IF is_overloaded THEN "closed" ELSE "open"]
      BY <2>4 DEF Accept, client
    <3>2. c = backlog[1] /\ 1 \in DOMAIN backlog /\ c \in Clients
      BY <3>1, HeadTailProperties, LenProperties, EmptySeq DEF Accounts
    <3>3. socket[c] = "queued"
      BY <3>2 DEF Accounts
    <3> HIDE DEF c
    <3>4. ~is_overloaded
      <4>1. Held \subseteq (1..num_clients) \ {c} /\ c \in 1..num_clients
        BY <1>0, <3>2, <3>3, BenchmarkAssumption DEF Held, Accounts, Threads, Clients
      <4>2. ~(1 > num_clients) /\ num_clients - 1 + 1 = num_clients
        BY <1>0
      <4>3. IsFiniteSet(1..num_clients) /\ Cardinality(1..num_clients) = num_clients
        BY <1>0, <4>2, FS_Interval
      <4>4. /\ IsFiniteSet((1..num_clients) \ {c})
            /\ Cardinality((1..num_clients) \ {c}) = num_clients - 1
        BY <4>1, <4>3, FS_RemoveElement
      <4>5. Cardinality(Held) <= num_clients - 1 /\ Cardinality(Held) \in Nat
        <5> DEFINE S == (1..num_clients) \ {c}
        <5>1. Held \in SUBSET S /\ IsFiniteSet(S) /\ Cardinality(S) = num_clients - 1
          BY <4>1, <4>4
        <5> HIDE DEF S
        <5>2. IsFiniteSet(Held) /\ Cardinality(Held) <= Cardinality(S)
          BY <5>1, FS_Subset
        <5>3. QED
          BY <5>1, <5>2, FS_CardinalityType
      <4>6. ~(num_clients > Limit + 1)
        BY <2>1 DEF Excused
      <4>7. ~(active > Limit)
        BY <1>0, <4>5, <4>6 DEF Accounts
      <4>8. QED
        BY <4>7 DEF is_overloaded, Limit
    <3>5. \A d \in Clients : socket'[d] = "closed" => socket[d] = "closed"
      BY <3>1, <3>2, <3>4 DEF Accounts
    <3>6. QED
      BY <2>1, <3>1, <3>5 DEF Reasons
  <2>5. ASSUME NEW c \in Clients, Remove(c)
        PROVE  Reasons'
    <3>1. socket[c] = "hungup" /\ socket' = [socket EXCEPT ![c] = "closed"] /\ UNCHANGED pc
      BY <2>5 DEF Remove, client
    <3>2. pc[c] = "done"
      BY <3>1 DEF Accounts
    <3>3. \A d \in Clients \ {c} : socket'[d] = socket[d]
      BY <3>1 DEF Accounts
    <3>4. QED
      BY <2>1, <3>1, <3>2, <3>3 DEF Reasons
  <2>6. ASSUME NEW c \in Clients, Connect(c)
        PROVE  Reasons'
    <3>1. /\ pc' = [pc EXCEPT ![c] = "connected"] /\ socket' = [socket EXCEPT ![c] = "queued"]
      BY <2>6 DEF Connect, Goto
    <3>2. QED
      BY <2>1, <3>1 DEF Reasons, Threads, Accounts
  <2>7. ASSUME NEW c \in Clients, CloseFd(c)
        PROVE  Reasons'
    <3>1. /\ pc' = [pc EXCEPT ![c] = "done"]
          /\ \A d \in Clients \ {c} : socket'[d] = socket[d]
      BY <2>7 DEF CloseFd, Accounts
    <3>2. QED
      BY <2>1, <3>1 DEF Reasons, Threads
  <2>8. ASSUME NEW c \in Clients,
               SendRequest(c) \/ FinishHandshake(c) \/ Arrive(c) \/ PassBarrier(c)
                 \/ SendMessage(c) \/ ReceiveEcho(c)
        PROVE  Reasons'
    <3>1. /\ socket' = socket
          /\ \E p \in Place \ {"failed"} : /\ pc' = [pc EXCEPT ![c] = p]
                                           /\ p = "shaking" => pc[c] = "connected"
                                           /\ p # "connected"
      BY <2>8 DEF SendRequest, FinishHandshake, Arrive, PassBarrier, SendMessage,
         ReceiveEcho, Goto, Place, Ready, Measuring
    <3>2. PICK p \in Place \ {"failed"} : /\ pc' = [pc EXCEPT ![c] = p]
                                          /\ p = "shaking" => pc[c] = "connected"
                                          /\ p # "connected"
      BY <3>1
    <3>3. \A d \in Clients : pc'[d] = IF d = c THEN p ELSE pc[d]
      BY <3>2 DEF Threads
    <3>4. ASSUME NEW d \in Clients
          PROVE  /\ pc'[d] # "failed"
                 /\ pc'[d] \in {"connected", "shaking"} => socket'[d] # "closed"
      BY <2>1, <3>1, <3>2, <3>3
    <3>5. QED
      BY <3>4 DEF Reasons
  <2>9. CASE UNCHANGED <<pc, socket>>
    BY <2>1, <2>9 DEF Reasons
  <2>10. QED
    BY <2>2, <2>3, <2>4, <2>5, <2>6, <2>7, <2>8, <2>9
       DEF Next, ClientStep, vars, args, client, mainVars, MainStep, Spawn, Start, Join,
           StopServer, JoinServer, RunServer, EndServer, Serve
<1>4. QED
  BY <1>2, <1>3

LEMMA AccountsAlways == Spec => [](Accounts /\ Reasons)
<1>1. Init => Accounts /\ Reasons
  <2>1. ASSUME Init
        PROVE  Accounts /\ Reasons
    <3>1. /\ pc = [c \in Clients |-> "new"] /\ socket = [c \in Clients |-> "none"]
          /\ backlog = <<>> /\ active = 0
      BY <2>1 DEF Init
    <3>2. Held = {}
      BY <3>1 DEF Held
    <3>3. Cardinality(Held) = 0
      BY <3>2, FS_EmptySet
    <3>4. <<>> \in Seq(Clients) /\ DOMAIN <<>> = {}
      BY EmptySeq
    <3>5. Accounts
      BY <3>1, <3>3, <3>4 DEF Accounts, Sockets
    <3>6. Reasons
      BY <3>1 DEF Reasons
    <3>7. QED
      BY <3>5, <3>6
  <2>2. QED
    BY <2>1
<1>2. Threads /\ Accounts /\ Reasons /\ [Next]_vars => (Accounts /\ Reasons)'
  BY AccountsStep, ReasonsStep
<1>3. QED
  BY <1>1, <1>2, BarrierAlways, PTL DEF Spec

(* For every number of clients and places: unless a connection fails, a    *)
(* benchmark with at most one client more than 90 percent of the places    *)
(* has no client rejected, so none is missing at the barrier.              *)
THEOREM NobodyRejectedBelowLimit == Spec => []RejectedOnlyBeyondLimit
<1>1. Reasons => RejectedOnlyBeyondLimit
  BY DEF Reasons, Excused, RejectedOnlyBeyondLimit, Limit
<1>2. QED
  BY <1>1, AccountsAlways, PTL

-----------------------------------------------------------------------------
(* What the main thread counts. *)

(* A client never measures more than it is asked to, and unless a          *)
(* connection failed it stops only when it has measured everything, since  *)
(* the server closes only the sockets of clients that hung up, and those   *)
(* it rejects, to which it never answers.                                  *)
Steady(c) ==
  /\ latencies[c] <= msgs_per_client
  /\ pc[c] = "receiving" => latencies[c] < msgs_per_client
  /\ pc[c] = "new" => wire[c] # "answer"
  /\ socket[c] = "queued" => pc[c] \in {"connected", "shaking"} /\ wire[c] # "answer"
  /\ broken = {} /\ pc[c] = "done" => latencies[c] = msgs_per_client
  /\ broken = {} /\ socket[c] = "closed" =>
       \/ pc[c] = "done"
       \/ pc[c] \in {"connected", "shaking", "failed"} /\ wire[c] # "answer"

Progress ==
  /\ msgs_per_client \in Nat
  /\ latencies \in [Clients -> Nat]
  /\ wire \in [Clients -> {"none", "request", "answer"}]
  /\ \A c \in Clients : Steady(c)

Tally ==
  /\ joined \in 0..num_clients /\ total_messages \in Nat
  /\ main \in {"spawn", "join", "stop", "ended"}
  /\ main # "spawn" => go
  /\ main \in {"stop", "ended"} => joined = num_clients
  /\ \A c \in 1..joined : pc[c] = "done"
  /\ total_messages <= joined * msgs_per_client
  /\ broken = {} => total_messages = joined * msgs_per_client

(* No step changes the arguments, and a failure is never taken back. *)
LEMMA Fixed ==
  ASSUME [Next]_vars
  PROVE  UNCHANGED <<num_clients, msgs_per_client>> /\ (broken' = {} => broken = {})
BY DEF Next, vars, args, ClientStep, Connect, ConnectFails, SendRequest,
     FinishHandshake, HandshakeFails, Arrive, PassBarrier, SendMessage, ReceiveEcho,
     CloseFd, MainStep, Spawn, Start, Join, StopServer, JoinServer, RunServer, Accept,
     EndServer, Serve, Remove, Break

(* Steps that are about one client leave the others as they are. *)
LEMMA OneClient ==
  ASSUME Threads, Accounts, Progress, NEW c \in Clients, [Next]_vars,
         NEW p \in Place, NEW l \in Nat, NEW w \in {"none", "request", "answer"},
         NEW s \in Sockets,
         pc' = [pc EXCEPT ![c] = p], latencies' = [latencies EXCEPT ![c] = l],
         wire' = [wire EXCEPT ![c] = w], socket' = [socket EXCEPT ![c] = s],
         l <= msgs_per_client, p = "receiving" => l < msgs_per_client,
         p = "new" => w # "answer",
         s = "queued" => p \in {"connected", "shaking"} /\ w # "answer",
         broken' = {} /\ p = "done" => l = msgs_per_client,
         broken' = {} /\ s = "closed" =>
           \/ p = "done"
           \/ p \in {"connected", "shaking", "failed"} /\ w # "answer"
  PROVE  Progress'
<1>1. UNCHANGED <<num_clients, msgs_per_client>> /\ (broken' = {} => broken = {})
  BY Fixed
<1>2. \A d \in Clients : /\ pc'[d] = IF d = c THEN p ELSE pc[d]
                         /\ latencies'[d] = IF d = c THEN l ELSE latencies[d]
                         /\ wire'[d] = IF d = c THEN w ELSE wire[d]
                         /\ socket'[d] = IF d = c THEN s ELSE socket[d]
  BY DEF Threads, Accounts, Progress
<1>3. ASSUME NEW d \in Clients
      PROVE  Steady(d)'
  <2>1. CASE d = c
    BY <1>1, <1>2, <2>1 DEF Steady
  <2>2. CASE d # c
    BY <1>1, <1>2, <2>2 DEF Steady, Progress
  <2>3. QED
    BY <2>1, <2>2
<1>4. QED
  BY <1>1, <1>3 DEF Progress

LEMMA ProgressStep ==
  ASSUME Threads, Accounts, Progress, [Next]_vars
  PROVE  Progress'
<1>0. /\ UNCHANGED <<num_clients, msgs_per_client>> /\ (broken' = {} => broken = {})
      /\ msgs_per_client \in Nat
  BY Fixed DEF Progress
<1>1. CASE UNCHANGED <<pc, latencies, wire, socket>>
  BY <1>0, <1>1 DEF Progress, Steady
<1>2. ASSUME NEW c \in Clients, ClientStep(c) \/ ConnectFails(c) \/ Serve(c) \/ Remove(c) \/ Break(c)
      PROVE  Progress'
  <2>0. /\ Steady(c) /\ pc[c] \in Place /\ latencies[c] \in Nat /\ socket[c] \in Sockets
        /\ wire[c] \in {"none", "request", "answer"}
        /\ pc[c] = "new" => socket[c] = "none"
        /\ socket[c] = "hungup" => pc[c] = "done"
    BY DEF Progress, Threads, Accounts
  <2>1. /\ pc = [pc EXCEPT ![c] = pc[c]] /\ latencies = [latencies EXCEPT ![c] = latencies[c]]
        /\ wire = [wire EXCEPT ![c] = wire[c]] /\ socket = [socket EXCEPT ![c] = socket[c]]
    BY DEF Progress, Threads, Accounts
  <2>2. ASSUME Connect(c)
        PROVE  Progress'
    <3>1. /\ pc[c] = "new" /\ pc' = [pc EXCEPT ![c] = "connected"]
          /\ socket' = [socket EXCEPT ![c] = "queued"] /\ UNCHANGED <<latencies, wire>>
      BY <2>2 DEF Connect, Goto
    <3>2. "connected" \in Place /\ "queued" \in Sockets
      BY DEF Place, Sockets
    <3>3. latencies' = [latencies EXCEPT ![c] = latencies[c]] /\ wire' = [wire EXCEPT ![c] = wire[c]]
      BY <2>1, <3>1
    <3>4. latencies[c] <= msgs_per_client /\ wire[c] # "answer"
      BY <2>0, <3>1 DEF Steady
    <3>5. QED
      BY <2>0, <3>1, <3>2, <3>3, <3>4, OneClient
  <2>3. ASSUME ConnectFails(c)
        PROVE  Progress'
    <3>1. /\ pc[c] = "new" /\ pc' = [pc EXCEPT ![c] = "failed"] /\ broken' # {}
          /\ UNCHANGED <<latencies, wire, socket>>
      BY <2>3 DEF ConnectFails, Goto
    <3>2. "failed" \in Place
      BY DEF Place
    <3>3. /\ latencies' = [latencies EXCEPT ![c] = latencies[c]]
          /\ wire' = [wire EXCEPT ![c] = wire[c]] /\ socket' = [socket EXCEPT ![c] = socket[c]]
      BY <2>1, <3>1
    <3>4. /\ latencies[c] <= msgs_per_client /\ wire[c] # "answer"
          /\ socket[c] # "queued" /\ socket[c] # "closed"
      BY <2>0, <3>1 DEF Steady
    <3>5. pc' = [pc EXCEPT ![c] = "failed"]
      BY <3>1
    <3>6. QED
      BY <2>0, <3>2, <3>3, <3>4, <3>5, OneClient
  <2>4. ASSUME SendRequest(c) \/ FinishHandshake(c) \/ HandshakeFails(c) \/ Arrive(c)
                 \/ PassBarrier(c) \/ SendMessage(c)
        PROVE  Progress'
    <3>1. /\ latencies' = [latencies EXCEPT ![c] = latencies[c]]
          /\ socket' = [socket EXCEPT ![c] = socket[c]] /\ broken' = broken
      BY <2>1, <2>4 DEF SendRequest, FinishHandshake, HandshakeFails, Arrive, PassBarrier,
         SendMessage
    <3>2. \E p \in Place, w \in {"none", "request", "answer"} :
             /\ pc' = [pc EXCEPT ![c] = p] /\ wire' = [wire EXCEPT ![c] = w]
             /\ \/ pc[c] = "connected" /\ p = "shaking" /\ w = "request"
                \/ pc[c] = "shaking" /\ wire[c] = "answer" /\ p = "shook" /\ w = "none"
                \/ pc[c] = "shaking" /\ wire[c] # "answer" /\ p = "failed" /\ w = wire[c]
                     /\ socket[c] = "closed"
                \/ pc[c] = "shook" /\ p = "waiting" /\ w = wire[c]
                \/ pc[c] = "waiting" /\ p = "sending" /\ w = wire[c]
                \/ pc[c] = "sending" /\ p = "receiving" /\ w = "request"
                     /\ latencies[c] < msgs_per_client
      <4>1. {"shaking", "shook", "failed", "waiting", "sending", "receiving"} \subseteq Place
        BY DEF Place, Ready, Measuring
      <4>2. CASE SendRequest(c)
        BY <4>1, <4>2 DEF SendRequest, Goto
      <4>3. CASE FinishHandshake(c)
        BY <4>1, <4>3 DEF FinishHandshake, Goto
      <4>4. CASE HandshakeFails(c)
        BY <2>0, <2>1, <4>1, <4>4 DEF HandshakeFails, Goto
      <4>5. CASE Arrive(c)
        BY <2>0, <2>1, <4>1, <4>5 DEF Arrive, Goto
      <4>6. CASE PassBarrier(c)
        BY <2>0, <2>1, <4>1, <4>6 DEF PassBarrier, Goto
      <4>7. CASE SendMessage(c)
        BY <4>1, <4>7 DEF SendMessage, Goto
      <4>8. QED
        BY <2>4, <4>2, <4>3, <4>4, <4>5, <4>6, <4>7
    <3>3. PICK p \in Place, w \in {"none", "request", "answer"} :
             /\ pc' = [pc EXCEPT ![c] = p] /\ wire' = [wire EXCEPT ![c] = w]
             /\ \/ pc[c] = "connected" /\ p = "shaking" /\ w = "request"
                \/ pc[c] = "shaking" /\ wire[c] = "answer" /\ p = "shook" /\ w = "none"
                \/ pc[c] = "shaking" /\ wire[c] # "answer" /\ p = "failed" /\ w = wire[c]
                     /\ socket[c] = "closed"
                \/ pc[c] = "shook" /\ p = "waiting" /\ w = wire[c]
                \/ pc[c] = "waiting" /\ p = "sending" /\ w = wire[c]
                \/ pc[c] = "sending" /\ p = "receiving" /\ w = "request"
                     /\ latencies[c] < msgs_per_client
      BY <3>2
    <3>4. /\ latencies[c] <= msgs_per_client
          /\ p = "receiving" => latencies[c] < msgs_per_client
          /\ p # "new" /\ p # "done"
          /\ socket[c] = "queued" => p \in {"connected", "shaking"} /\ w # "answer"
          /\ broken' = {} /\ socket[c] = "closed" =>
               p \in {"connected", "shaking", "failed"} /\ w # "answer"
      BY <2>0, <3>1, <3>3 DEF Steady
    <3>5. QED
      BY <2>0, <3>1, <3>3, <3>4, OneClient
  <2>5. ASSUME ReceiveEcho(c)
        PROVE  Progress'
    <3>1. /\ wire[c] = "answer" /\ pc[c] = "receiving" /\ pc' = [pc EXCEPT ![c] = "sending"]
          /\ wire' = [wire EXCEPT ![c] = "none"] /\ broken' = broken
          /\ latencies' = [latencies EXCEPT ![c] = latencies[c] + 1]
          /\ socket' = [socket EXCEPT ![c] = socket[c]]
      BY <2>1, <2>5 DEF ReceiveEcho, Goto
    <3>2. "sending" \in Place /\ latencies[c] + 1 \in Nat
      BY <2>0 DEF Place, Ready, Measuring
    <3>3. /\ latencies[c] + 1 <= msgs_per_client /\ socket[c] # "queued"
          /\ ~(broken' = {} /\ socket[c] = "closed")
      BY <1>0, <2>0, <3>1 DEF Steady
    <3>4. QED
      BY <2>0, <3>1, <3>2, <3>3, OneClient
  <2>6. ASSUME CloseFd(c)
        PROVE  Progress'
    <3> DEFINE s == IF socket[c] = "open" THEN "hungup" ELSE socket[c]
    <3>1. /\ pc[c] \in {"sending", "receiving"} /\ broken' = broken
          /\ latencies[c] = msgs_per_client \/ socket[c] = "closed"
          /\ pc' = [pc EXCEPT ![c] = "done"] /\ socket' = [socket EXCEPT ![c] = s]
          /\ wire' = [wire EXCEPT ![c] = wire[c]]
          /\ latencies' = [latencies EXCEPT ![c] = latencies[c]]
      BY <2>1, <2>6 DEF CloseFd
    <3>2. "done" \in Place /\ s \in Sockets
      BY <2>0 DEF Place, Ready, Measuring, Sockets
    <3>3. /\ latencies[c] <= msgs_per_client /\ s # "queued"
          /\ broken' = {} => latencies[c] = msgs_per_client
      BY <2>0, <3>1 DEF Steady
    <3> HIDE DEF s
    <3>4. QED
      BY <2>0, <3>1, <3>2, <3>3, OneClient
  <2>7. ASSUME Serve(c)
        PROVE  Progress'
    <3>1. /\ socket[c] = "open" /\ wire[c] = "request"
          /\ wire' = [wire EXCEPT ![c] = "answer"] /\ broken' = broken
          /\ pc' = [pc EXCEPT ![c] = pc[c]] /\ socket' = [socket EXCEPT ![c] = socket[c]]
          /\ latencies' = [latencies EXCEPT ![c] = latencies[c]]
      BY <2>1, <2>7 DEF Serve
    <3>2. QED
      BY <2>0, <3>1, OneClient DEF Steady
  <2>8. ASSUME Remove(c) \/ Break(c)
        PROVE  Progress'
    <3>1. /\ pc[c] = "done" \/ broken' # {}
          /\ socket[c] \in {"open", "hungup"} /\ "closed" \in Sockets
          /\ wire' = [wire EXCEPT ![c] = wire[c]]
          /\ pc' = [pc EXCEPT ![c] = pc[c]] /\ socket' = [socket EXCEPT ![c] = "closed"]
          /\ latencies' = [latencies EXCEPT ![c] = latencies[c]]
      BY <2>0, <2>1, <2>8 DEF Remove, Break, client, Sockets
    <3>2. pc[c] # "new"
      BY <2>0, <3>1
    <3>3. QED
      BY <1>0, <2>0, <3>1, <3>2, OneClient DEF Steady
  <2>9. QED
    BY <1>2, <2>2, <2>3, <2>4, <2>5, <2>6, <2>7, <2>8 DEF ClientStep
<1>3. CASE Accept
  <2> DEFINE c == Head(backlog)
             s == IF is_overloaded THEN "closed" ELSE "open"
  <2>1. /\ backlog # <<>> /\ socket' = [socket EXCEPT ![c] = s]
        /\ UNCHANGED <<pc, latencies, wire, broken>>
    BY <1>3 DEF Accept, client
  <2>2. c = backlog[1] /\ 1 \in DOMAIN backlog /\ c \in Clients
    BY <2>1, HeadTailProperties, LenProperties, EmptySeq DEF Accounts
  <2>3. socket[c] = "queued" /\ s \in {"closed", "open"} /\ s \in Sockets
    BY <2>2 DEF Accounts, Sockets
  <2> HIDE DEF c, s
  <2>4. /\ Steady(c) /\ pc[c] \in Place /\ latencies[c] \in Nat
        /\ wire[c] \in {"none", "request", "answer"}
    BY <2>2 DEF Progress, Threads
  <2>5. /\ pc' = [pc EXCEPT ![c] = pc[c]] /\ latencies' = [latencies EXCEPT ![c] = latencies[c]]
        /\ wire' = [wire EXCEPT ![c] = wire[c]]
    BY <2>1, <2>2 DEF Progress, Threads
  <2>6. /\ pc[c] \in {"connected", "shaking"} /\ wire[c] # "answer"
        /\ latencies[c] <= msgs_per_client
    BY <2>3, <2>4 DEF Steady
  <2>7. QED
    BY <2>1, <2>2, <2>3, <2>4, <2>5, <2>6, OneClient
<1>4. QED
  BY <1>1, <1>2, <1>3
     DEF Next, vars, client, MainStep, Spawn, Start, Join, StopServer, JoinServer,
         RunServer, EndServer

LEMMA TallyStep ==
  ASSUME Threads, Barrier, Progress, Tally, [Next]_vars
  PROVE  Tally'
<1>0. /\ UNCHANGED <<num_clients, msgs_per_client>> /\ (broken' = {} => broken = {})
      /\ msgs_per_client \in Nat /\ num_clients \in Nat /\ joined \in Nat
      /\ total_messages \in Nat /\ joined <= num_clients
      /\ 1..joined \subseteq Clients
  BY Fixed, BenchmarkAssumption DEF Progress, Threads, Tally, Clients
<1>1. ASSUME UNCHANGED <<main, joined, total_messages>>, go => go',
             \A c \in Clients : pc[c] = "done" => pc'[c] = "done"
      PROVE  Tally'
  BY <1>0, <1>1 DEF Tally
<1>2. ASSUME NEW c \in Clients, ClientStep(c) \/ ConnectFails(c)
      PROVE  Tally'
  <2>1. /\ UNCHANGED <<main, joined, total_messages, go>> /\ pc[c] # "done"
        /\ \E p \in Place : pc' = [pc EXCEPT ![c] = p]
    BY <1>2 DEF ClientStep, Connect, ConnectFails, SendRequest, FinishHandshake,
       HandshakeFails, Arrive, PassBarrier, SendMessage, ReceiveEcho, CloseFd, Goto,
       mainVars, Place, Ready, Measuring
  <2>2. \A d \in Clients : pc[d] = "done" => pc'[d] = "done"
    BY <2>1 DEF Threads
  <2>3. QED
    BY <1>1, <2>1, <2>2
<1>3. CASE Start
  <2>1. main' = "join" /\ go' = TRUE /\ UNCHANGED <<pc, joined, total_messages>>
    BY <1>3 DEF Start, client
  <2>2. QED
    BY <1>0, <2>1 DEF Tally
<1>4. CASE Join
  <2> DEFINE c == joined + 1
  <2>1. /\ main = "join" /\ joined < num_clients /\ pc[c] \in {"done", "failed"}
        /\ joined' = joined + 1 /\ total_messages' = total_messages + latencies[c]
        /\ UNCHANGED <<main, pc, go, broken>>
    BY <1>4 DEF Join, client
  <2>2. c \in 1..num_clients /\ c \in Clients
    BY <1>0, <2>1, BenchmarkAssumption DEF Threads, Clients
  <2>3. pc[c] = "done"
    BY <2>1, <2>2 DEF Tally, Barrier, Ready, Measuring
  <2>4. /\ latencies[c] \in Nat /\ latencies[c] <= msgs_per_client
        /\ broken = {} => latencies[c] = msgs_per_client
    BY <2>2, <2>3 DEF Progress, Steady
  <2>5. (joined + 1) * msgs_per_client = joined * msgs_per_client + msgs_per_client
    BY <1>0
  <2>6. joined * msgs_per_client \in Nat
    BY <1>0
  <2>7. \A t, l, a, m \in Nat : /\ t <= a /\ l <= m => t + l <= a + m
                                /\ t + l \in Nat
    OBVIOUS
  <2>8. total_messages' \in Nat /\ total_messages' <= joined' * msgs_per_client'
    <3> DEFINE a == joined * msgs_per_client
    <3>1. total_messages <= a /\ a \in Nat
      BY <2>6 DEF Tally
    <3> HIDE DEF a
    <3>2. total_messages + latencies[c] <= a + msgs_per_client /\ total_messages + latencies[c] \in Nat
      BY <1>0, <2>4, <2>7, <3>1
    <3>3. joined' * msgs_per_client' = a + msgs_per_client
      BY <1>0, <2>1, <2>5 DEF a
    <3>4. QED
      BY <2>1, <3>2, <3>3
  <2>9. broken' = {} => total_messages' = joined' * msgs_per_client'
    <3>1. ASSUME broken = {}
          PROVE  total_messages' = joined' * msgs_per_client'
      <4>1. total_messages' = joined * msgs_per_client + msgs_per_client
        BY <2>1, <2>4, <3>1 DEF Tally
      <4>2. joined' * msgs_per_client' = (joined + 1) * msgs_per_client
        BY <1>0, <2>1
      <4>3. QED
        BY <2>5, <4>1, <4>2
    <3>2. QED
      BY <2>1, <3>1
  <2>10. \A d \in 1..joined' : pc'[d] = "done"
    BY <1>0, <2>1, <2>3 DEF Tally
  <2>11. joined' \in 0..num_clients'
    BY <1>0, <2>1
  <2>12. main' = "join" /\ go'
    BY <2>1 DEF Tally
  <2>13. QED
    BY <2>8, <2>9, <2>10, <2>11, <2>12 DEF Tally
<1>5. CASE StopServer \/ JoinServer
  <2>1. /\ main' \in {"stop", "ended"} /\ main # "spawn" /\ joined = num_clients
        /\ UNCHANGED <<pc, joined, total_messages, go, broken>>
    BY <1>5 DEF StopServer, JoinServer, client, Tally
  <2>2. QED
    BY <1>0, <2>1 DEF Tally
<1>6. CASE UNCHANGED <<pc, main, joined, total_messages, go>>
  BY <1>1, <1>6
<1>7. QED
  BY <1>2, <1>3, <1>4, <1>5, <1>6
     DEF Next, vars, client, mainVars, MainStep, Spawn, RunServer, EndServer, Accept,
         Serve, Remove, Break

(* For every number of clients and messages, whatever breaks: the result   *)
(* that is printed counts no message twice, nothing is measured after it,  *)
(* and when no connection failed it counts all the messages asked for.     *)
THEOREM ResultIsComplete == Spec => []AllMeasured
<1>1. Init => Progress /\ Tally
  <2>1. ASSUME Init
        PROVE  Progress /\ Tally
    <3>1. msgs_per_client \in Nat /\ num_clients \in Nat
      BY <2>1, BenchmarkAssumption DEF Init
    <3>2. 0 * msgs_per_client = 0 /\ 0 <= msgs_per_client
      BY <3>1
    <3>3. Progress
      BY <2>1, <3>1, <3>2 DEF Init, Progress, Steady
    <3>4. Tally
      BY <2>1, <3>1, <3>2 DEF Init, Tally
    <3>5. QED
      BY <3>3, <3>4
  <2>2. QED
    BY <2>1
<1>2. Threads /\ Barrier /\ Accounts /\ Progress /\ Tally /\ [Next]_vars => (Progress /\ Tally)'
  BY ProgressStep, TallyStep
<1>3. Threads /\ Tally => AllMeasured
  <2>1. ASSUME Threads, Tally, main \in {"stop", "ended"}
        PROVE  /\ broken = {} => total_messages = num_clients * msgs_per_client
               /\ \A c \in Clients : pc[c] \notin {"sending", "receiving"}
               /\ total_messages <= num_clients * msgs_per_client
    <3>1. joined = num_clients
      BY <2>1 DEF Tally
    <3>2. ASSUME NEW c \in Clients
          PROVE  pc[c] \notin {"sending", "receiving"}
      <4>1. pc[c] # "new" => c \in 1..num_clients
        BY <2>1, BenchmarkAssumption DEF Threads, Clients
      <4>2. QED
        BY <2>1, <3>1, <4>1 DEF Tally
    <3>3. QED
      BY <2>1, <3>1, <3>2 DEF Tally
  <2>2. QED
    BY <2>1 DEF AllMeasured
<1>4. QED
  BY <1>1, <1>2, <1>3, BarrierAlways, AccountsAlways, PTL DEF Spec

=============================================================================
