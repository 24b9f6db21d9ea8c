----------------------------- MODULE Benchmark -----------------------------
(***************************************************************************)
(* examples/benchmark_echo.cpp: the main thread, a thread that runs the    *)
(* server and a thread per client, with the barrier of ready_count and go, *)
(* the joins and the shutdown.  A client and its connection take turns     *)
(* (FrameCodec and Wire have the frames), so what is on the wire is one    *)
(* request or one answer.  The payload fits the buffers of a connection.   *)
(***************************************************************************)
EXTENDS Integers, Sequences, FiniteSets

CONSTANTS
  MaxClients,      \* bound: num_clients
  MaxMsgs,         \* bound: msgs_per_client
  MaxConnections,  \* set_max_connections(64)
  MaxBreaks        \* bound: connections that fail

ASSUME BenchmarkAssumption ==
  /\ MaxClients \in Nat \ {0} /\ MaxConnections \in Nat \ {0}
  /\ MaxMsgs \in Nat /\ MaxBreaks \in Nat

VARIABLES
  num_clients, msgs_per_client,  \* argv
  pc,           \* of a client thread: where it is
  latencies,    \* of a client thread: the size of all_latencies[c]
  wire,         \* of a client: "none", "request" to or "answer" from the server
  socket,       \* of a client: "none", "queued", "open", "closed" or "hungup"
  broken,       \* the clients whose connection failed
  ready_count, go,
  main, spawned, joined, total_messages,  \* the main thread
  backlog,      \* connections not yet accepted
  server,       \* the server's thread: "new", "loop", "ended"
  is_running_,
  active        \* stats_.active_connections

args == <<num_clients, msgs_per_client>>
client == <<pc, latencies, wire>>
mainVars == <<main, spawned, joined, total_messages>>
serverVars == <<server, is_running_>>
vars == <<args, client, socket, broken, ready_count, go, mainVars, backlog,
          serverVars, active>>

Clients == 1..MaxClients

Init ==
  /\ num_clients \in 1..MaxClients /\ msgs_per_client \in 0..MaxMsgs
  /\ pc = [c \in Clients |-> "new"]
  /\ latencies = [c \in Clients |-> 0]
  /\ wire = [c \in Clients |-> "none"]
  /\ socket = [c \in Clients |-> "none"]
  /\ broken = {}
  /\ ready_count = 0 /\ go = FALSE
  /\ main = "spawn" /\ spawned = 0 /\ joined = 0 /\ total_messages = 0
  /\ backlog = <<>>
  /\ server = "new" /\ is_running_ = FALSE
  /\ active = 0

-----------------------------------------------------------------------------
(* A client thread. *)

Goto(c, from, to) == pc[c] = from /\ pc' = [pc EXCEPT ![c] = to]

(* The socket listens since the constructor of Server. *)
Connect(c) ==
  /\ c <= spawned /\ Goto(c, "new", "connected")
  /\ socket' = [socket EXCEPT ![c] = "queued"]
  /\ backlog' = Append(backlog, c)
  /\ UNCHANGED <<args, latencies, wire, broken, ready_count, go, mainVars,
                 serverVars, active>>

ConnectFails(c) ==
  /\ c <= spawned /\ Cardinality(broken) < MaxBreaks
  /\ Goto(c, "new", "failed")
  /\ broken' = broken \cup {c}
  /\ UNCHANGED <<args, latencies, wire, socket, ready_count, go, mainVars, backlog,
                 serverVars, active>>

(* The server may already have closed the socket, and is never sent to then. *)
SendRequest(c) ==
  /\ Goto(c, "connected", "shaking")
  /\ wire' = [wire EXCEPT ![c] = "request"]
  /\ UNCHANGED <<args, latencies, socket, broken, ready_count, go, mainVars, backlog,
                 serverVars, active>>

FinishHandshake(c) ==
  /\ wire[c] = "answer" /\ Goto(c, "shaking", "shook")
  /\ wire' = [wire EXCEPT ![c] = "none"]
  /\ UNCHANGED <<args, latencies, socket, broken, ready_count, go, mainVars, backlog,
                 serverVars, active>>

(* recv returns 0: the thread returns without ++ready_count. *)
HandshakeFails(c) ==
  /\ socket[c] = "closed" /\ wire[c] # "answer" /\ Goto(c, "shaking", "failed")
  /\ UNCHANGED <<args, latencies, wire, socket, broken, ready_count, go, mainVars,
                 backlog, serverVars, active>>

Arrive(c) ==
  /\ Goto(c, "shook", "waiting")
  /\ ready_count' = ready_count + 1
  /\ UNCHANGED <<args, latencies, wire, socket, broken, go, mainVars, backlog,
                 serverVars, active>>

PassBarrier(c) ==
  /\ go /\ Goto(c, "waiting", "sending")
  /\ UNCHANGED <<args, latencies, wire, socket, broken, ready_count, go, mainVars,
                 backlog, serverVars, active>>

SendMessage(c) ==
  /\ latencies[c] < msgs_per_client /\ Goto(c, "sending", "receiving")
  /\ wire' = [wire EXCEPT ![c] = "request"]
  /\ UNCHANGED <<args, latencies, socket, broken, ready_count, go, mainVars, backlog,
                 serverVars, active>>

ReceiveEcho(c) ==
  /\ wire[c] = "answer" /\ Goto(c, "receiving", "sending")
  /\ wire' = [wire EXCEPT ![c] = "none"]
  /\ latencies' = [latencies EXCEPT ![c] = @ + 1]
  /\ UNCHANGED <<args, socket, broken, ready_count, go, mainVars, backlog, serverVars,
                 active>>

(* The loop ends after its last message, or breaks when a send or a recv   *)
(* fails; then close_fd().                                                 *)
CloseFd(c) ==
  /\ \/ pc[c] = "sending" /\ (latencies[c] = msgs_per_client \/ socket[c] = "closed")
     \/ pc[c] = "receiving" /\ socket[c] = "closed" /\ wire[c] # "answer"
  /\ pc' = [pc EXCEPT ![c] = "done"]
  /\ socket' = [socket EXCEPT ![c] = IF @ = "open" THEN "hungup" ELSE @]
  /\ UNCHANGED <<args, latencies, wire, broken, ready_count, go, mainVars, backlog,
                 serverVars, active>>

ClientStep(c) ==
  \/ Connect(c) \/ SendRequest(c) \/ FinishHandshake(c) \/ HandshakeFails(c)
  \/ Arrive(c) \/ PassBarrier(c) \/ SendMessage(c) \/ ReceiveEcho(c) \/ CloseFd(c)

-----------------------------------------------------------------------------
(* The main thread. *)

Spawn ==
  /\ main = "spawn" /\ spawned < num_clients
  /\ spawned' = spawned + 1
  /\ UNCHANGED <<args, client, socket, broken, ready_count, go, main, joined,
                 total_messages, backlog, serverVars, active>>

(* Mutant: one client too early. *)
StartEarly ==
  /\ main = "spawn" /\ spawned = num_clients /\ ready_count >= num_clients - 1
  /\ go' = TRUE /\ main' = "join"
  /\ UNCHANGED <<args, client, socket, broken, ready_count, spawned, joined,
                 total_messages, backlog, serverVars, active>>

(* Mutant: while (ready_count <= num_clients). *)
StartNever ==
  /\ main = "spawn" /\ spawned = num_clients /\ ready_count > num_clients
  /\ go' = TRUE /\ main' = "join"
  /\ UNCHANGED <<args, client, socket, broken, ready_count, spawned, joined,
                 total_messages, backlog, serverVars, active>>

(* The wait for ready_count ends, and go is stored. *)
Start ==
  /\ main = "spawn" /\ spawned = num_clients /\ ready_count >= num_clients
  /\ go' = TRUE /\ main' = "join"
  /\ UNCHANGED <<args, client, socket, broken, ready_count, spawned, joined,
                 total_messages, backlog, serverVars, active>>

(* Mutant: detached instead of joined. *)
Detach ==
  /\ main = "join" /\ joined < num_clients
  /\ joined' = joined + 1
  /\ total_messages' = total_messages + latencies[joined + 1]
  /\ UNCHANGED <<args, client, socket, broken, ready_count, go, main, spawned, backlog,
                 serverVars, active>>

(* The latencies of a thread that has been joined no longer change, so     *)
(* they are counted here and not in the loop after the joins.              *)
Join ==
  /\ main = "join" /\ joined < num_clients /\ pc[joined + 1] \in {"done", "failed"}
  /\ joined' = joined + 1
  /\ total_messages' = total_messages + latencies[joined + 1]
  /\ UNCHANGED <<args, client, socket, broken, ready_count, go, main, spawned, backlog,
                 serverVars, active>>

(* The result is printed and stop() called. *)
StopServer ==
  /\ main = "join" /\ joined = num_clients
  /\ main' = "stop" /\ is_running_' = FALSE
  /\ UNCHANGED <<args, client, socket, broken, ready_count, go, spawned, joined,
                 total_messages, backlog, server, active>>

JoinServer ==
  /\ main = "stop" /\ server = "ended" /\ main' = "ended"
  /\ UNCHANGED <<args, client, socket, broken, ready_count, go, spawned, joined,
                 total_messages, backlog, serverVars, active>>

MainStep == Spawn \/ Start \/ Join \/ StopServer \/ JoinServer

-----------------------------------------------------------------------------
(* The server's thread: Server.tla has its loop. *)

RunServer ==
  /\ server = "new" /\ server' = "loop"
  /\ is_running_' = TRUE
  /\ UNCHANGED <<args, client, socket, broken, ready_count, go, mainVars, backlog,
                 active>>

(* Mutant: at 90 percent instead of over it. *)
OverloadedAt90 == active >= (MaxConnections * 9) \div 10

is_overloaded == active > (MaxConnections * 9) \div 10

(* A connection that is rejected is accepted and closed at once. *)
Accept ==
  /\ server = "loop" /\ backlog # <<>>
  /\ backlog' = Tail(backlog)
  /\ socket' = [socket EXCEPT ![Head(backlog)] =
                  IF is_overloaded THEN "closed" ELSE "open"]
  /\ active' = IF is_overloaded THEN active ELSE active + 1
  /\ UNCHANGED <<args, client, broken, ready_count, go, mainVars, serverVars>>

(* The answer to a handshake, or the echo of on_message. *)
Serve(c) ==
  /\ server = "loop" /\ socket[c] = "open" /\ wire[c] = "request"
  /\ wire' = [wire EXCEPT ![c] = "answer"]
  /\ UNCHANGED <<args, pc, latencies, socket, broken, ready_count, go, mainVars,
                 backlog, serverVars, active>>

(* The server reads the end of the stream and removes the connection. *)
Remove(c) ==
  /\ server = "loop" /\ socket[c] = "hungup"
  /\ socket' = [socket EXCEPT ![c] = "closed"]
  /\ active' = active - 1
  /\ UNCHANGED <<args, client, broken, ready_count, go, mainVars, backlog, serverVars>>

(* A connection fails. *)
Break(c) ==
  /\ server = "loop" /\ socket[c] = "open" /\ Cardinality(broken) < MaxBreaks
  /\ socket' = [socket EXCEPT ![c] = "closed"]
  /\ broken' = broken \cup {c}
  /\ active' = active - 1
  /\ UNCHANGED <<args, client, ready_count, go, mainVars, backlog, serverVars>>

(* run() returns once it sees that is_running_ is false. *)
EndServer ==
  /\ server = "loop" /\ ~is_running_ /\ server' = "ended"
  /\ UNCHANGED <<args, client, socket, broken, ready_count, go, mainVars, backlog,
                 is_running_, active>>

-----------------------------------------------------------------------------
Next ==
  \/ \E c \in Clients : ClientStep(c) \/ ConnectFails(c)
  \/ MainStep
  \/ RunServer \/ Accept \/ EndServer
  \/ \E c \in Clients : Serve(c) \/ Remove(c) \/ Break(c)

(* The system schedules every thread, and the server's loop looks at the   *)
(* listening socket, at every connection and at is_running_ on every turn. *)
Fairness ==
  /\ WF_vars(MainStep)
  /\ WF_vars(RunServer) /\ WF_vars(Accept) /\ WF_vars(EndServer)
  /\ \A c \in Clients : WF_vars(ClientStep(c)) /\ WF_vars(Serve(c)) /\ WF_vars(Remove(c))

Spec == Init /\ [][Next]_vars

LiveSpec == Spec /\ Fairness

-----------------------------------------------------------------------------
(* No client sends a message, and the clock of the throughput is not       *)
(* started, before every client has finished its handshake.                *)
Measuring == {"sending", "receiving", "done"}

AllReadyBeforeTraffic ==
  go \/ (\E c \in Clients : pc[c] \in Measuring) =>
    \A c \in 1..num_clients : pc[c] \in Measuring \cup {"waiting"}

(* The result that is printed counts every message that was echoed, and    *)
(* unless a connection failed these are all the messages asked for.        *)
AllMeasured ==
  main \in {"stop", "ended"} =>
    /\ broken = {} => total_messages = num_clients * msgs_per_client
    /\ \A c \in Clients : pc[c] \notin {"sending", "receiving"}
    /\ total_messages <= num_clients * msgs_per_client

(* A client fails only because its connection broke, or because more than  *)
(* 90 percent of the connections were taken: up to that number of clients  *)
(* no client is rejected.                                                  *)
RejectedOnlyBeyondLimit ==
  (\E c \in Clients : pc[c] = "failed") =>
    broken # {} \/ num_clients > (MaxConnections * 9) \div 10 + 1

(* The benchmark ends, unless a client fails before the barrier: main then *)
(* waits for ready_count for ever.  The stop() of main is never lost to a  *)
(* run() that starts after it.                                             *)
Ends == <>(main = "ended" \/ \E c \in Clients : pc[c] = "failed")

=============================================================================
