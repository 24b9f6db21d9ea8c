------------------------------- MODULE Server -------------------------------
(***************************************************************************)
(* Server of ewss.hpp: the poll reactor of run(), with the accept path and *)
(* its overload protection, the dispatch of poll_fds_[i] to                *)
(* connections_[i - 1], the timeout sweep, the swap-and-pop removal and    *)
(* the counters it all depends on.  A connection is its state machine only *)
(* (Connection.tla has the rest): what one handler does to it, and what    *)
(* the application's callbacks do to the others, is a choice among the     *)
(* transitions Connection.tla allows.                                      *)
(*                                                                         *)
(* One action is one step of the loop between two calls that other parties *)
(* can observe; `pc` says where run() is and `i` is its loop index.        *)
(***************************************************************************)
EXTENDS Integers, Sequences, FiniteSets

CONSTANTS
  Client,           \* the clients that may connect
  MaxConnections,   \* max_connections_ (50)
  Capacity,         \* kMaxConnections, the size of connections_ (64)
  Wrap,             \* counters are unsigned: arithmetic modulo Wrap (2^64)
  MaxResets         \* bound: calls of ServerStats::reset

ASSUME ServerAssumption ==
  /\ IsFiniteSet(Client)
  /\ MaxConnections \in Nat /\ Capacity \in Nat \ {0} /\ MaxResets \in Nat
  /\ Wrap \in Nat /\ Wrap > Capacity /\ Wrap > MaxConnections

VARIABLES
  phase,        \* of a client: new, pending, the state of its connection, gone
  ready,        \* clients whose socket has something to report
  late,         \* clients past the timeout of their state
  backlog,      \* connections the kernel has queued on server_sock_
  running,      \* is_running_
  pc,           \* "stopped", "test", "wait", "accept", "io", "sweep", "reap"
  connections,  \* connections_
  pollfds,      \* the clients of poll_fds_[1], poll_fds_[2], ...
  revents,      \* the clients poll reported
  listener,     \* poll_fds_[0].revents & POLLIN
  i,            \* index of the io, sweep and reap loops
  dropped,      \* `removed` of remove_closed_connections
  active,       \* stats_.active_connections
  resets        \* calls of stats_.reset()

peers == <<phase, ready, late, backlog>>
polled == <<pollfds, revents, listener>>
vars == <<peers, polled, running, pc, connections, i, dropped, active, resets>>

Live == {"Handshaking", "Open", "Closing"}

Init ==
  /\ phase = [c \in Client |-> "new"]
  /\ ready = {} /\ late = {} /\ backlog = <<>>
  /\ running = FALSE /\ pc = "stopped"
  /\ connections = <<>>
  /\ pollfds = <<>> /\ revents = {} /\ listener = FALSE
  /\ i = 1 /\ dropped = 0 /\ active = 0 /\ resets = 0

-----------------------------------------------------------------------------
(* The clients and the clock. *)

Connect(c) ==
  /\ phase[c] = "new"
  /\ phase' = [phase EXCEPT ![c] = "pending"]
  /\ backlog' = Append(backlog, c)
  /\ UNCHANGED <<ready, late, polled, running, pc, connections, i, dropped,
                 active, resets>>

(* A client gives up before it is accepted. *)
Abandon(k) ==
  /\ phase' = [phase EXCEPT ![backlog[k]] = "new"]
  /\ backlog' = SubSeq(backlog, 1, k - 1) \o SubSeq(backlog, k + 1, Len(backlog))
  /\ UNCHANGED <<ready, late, polled, running, pc, connections, i, dropped,
                 active, resets>>

(* Data, end of file or an error arrives, or the socket becomes writable. *)
Event(c) ==
  /\ phase[c] \in Live /\ c \notin ready
  /\ ready' = ready \cup {c}
  /\ UNCHANGED <<phase, late, backlog, polled, running, pc, connections, i,
                 dropped, active, resets>>

(* Five seconds pass for a connection that is in a state with a timeout. *)
Expire(c) ==
  /\ phase[c] \in {"Handshaking", "Closing"} /\ c \notin late
  /\ late' = late \cup {c}
  /\ UNCHANGED <<phase, ready, backlog, polled, running, pc, connections, i,
                 dropped, active, resets>>

(* stop(), from a signal handler, another thread or a callback. *)
Stop ==
  /\ running /\ running' = FALSE
  /\ UNCHANGED <<peers, polled, pc, connections, i, dropped, active, resets>>

(* reset_stats(). *)
ResetStats ==
  /\ resets < MaxResets /\ resets' = resets + 1
  /\ active' = 0
  /\ UNCHANGED <<peers, polled, running, pc, connections, i, dropped>>

-----------------------------------------------------------------------------
(* run() *)

Run ==
  /\ pc = "stopped" /\ resets < MaxResets
  /\ running' = TRUE
  /\ resets' = resets + 1 /\ active' = 0
  /\ pc' = "test"
  /\ UNCHANGED <<peers, polled, connections, i, dropped>>

(* Mutant: is_running_ is read once, before the loop. *)
BuildPollSetForever ==
  /\ pc = "test" /\ pc' = "wait"
  /\ pollfds' = connections
  /\ UNCHANGED <<peers, revents, listener, running, connections, i, dropped,
                 active, resets>>

(* while (is_running_): fill poll_fds_ from connections_. *)
BuildPollSet ==
  /\ pc = "test"
  /\ pc' = IF running THEN "wait" ELSE "stopped"
  /\ pollfds' = IF running THEN connections ELSE pollfds
  /\ UNCHANGED <<peers, revents, listener, running, connections, i, dropped,
                 active, resets>>

Pollable == {c \in ready : \E k \in DOMAIN pollfds : pollfds[k] = c}

PollReturns ==
  /\ pc = "wait" /\ (backlog # <<>> \/ Pollable # {})
  /\ revents' = Pollable
  /\ listener' = (backlog # <<>>)
  /\ pc' = "accept"
  /\ UNCHANGED <<peers, pollfds, running, connections, i, dropped, active, resets>>

(* poll returns 0: the loop starts over, past the sweep and the removal. *)
PollTimesOut ==
  /\ pc = "wait" /\ backlog = <<>> /\ Pollable = {}
  /\ pc' = "test"
  /\ UNCHANGED <<peers, polled, running, connections, i, dropped, active, resets>>

(* poll fails, for instance interrupted by a signal: the loop ends. *)
PollFails ==
  /\ pc = "wait"
  /\ pc' = "stopped"
  /\ UNCHANGED <<peers, polled, running, connections, i, dropped, active, resets>>

(* Mutant: at 90 percent instead of over it. *)
OverloadedAt90 == active >= (MaxConnections * 9) \div 10

is_overloaded == active > (MaxConnections * 9) \div 10

(* Mutants: an overloaded server leaves the client in the backlog; no      *)
(* limit is looked at.                                                     *)
AcceptLeavesPending ==
  /\ pc = "accept" /\ listener /\ backlog # <<>>
  /\ pc' = "io" /\ i' = 1
  /\ IF is_overloaded
     THEN UNCHANGED <<backlog, phase, connections, active>>
     ELSE /\ backlog' = Tail(backlog)
          /\ phase' = [phase EXCEPT ![Head(backlog)] = "Handshaking"]
          /\ connections' = Append(connections, Head(backlog))
          /\ active' = (active + 1) % Wrap
  /\ UNCHANGED <<ready, late, polled, running, dropped, resets>>

AcceptUnlimited ==
  /\ pc = "accept" /\ listener /\ backlog # <<>>
  /\ pc' = "io" /\ i' = 1
  /\ backlog' = Tail(backlog)
  /\ phase' = [phase EXCEPT ![Head(backlog)] = "Handshaking"]
  /\ connections' = Append(connections, Head(backlog))
  /\ active' = (active + 1) % Wrap
  /\ UNCHANGED <<ready, late, polled, running, dropped, resets>>

(* Over 90 percent, the client is accepted and closed at once.             *)
(* Otherwise accept_connection takes it, unless connections_ has no room:  *)
(* then the client stays in the backlog.                                   *)
Accept ==
  /\ pc = "accept" /\ listener /\ backlog # <<>>
  /\ pc' = "io" /\ i' = 1
  /\ LET c == Head(backlog)
         room == Len(connections) < MaxConnections /\ Len(connections) < Capacity
     IN  \/ /\ is_overloaded
            /\ backlog' = Tail(backlog)
            /\ phase' = [phase EXCEPT ![c] = "gone"]
            /\ UNCHANGED <<connections, active>>
         \/ /\ ~is_overloaded
            /\ IF room
               THEN /\ backlog' = Tail(backlog)
                    /\ phase' = [phase EXCEPT ![c] = "Handshaking"]
                    /\ connections' = Append(connections, c)
                    /\ active' = (active + 1) % Wrap
               ELSE UNCHANGED <<backlog, phase, connections, active>>
  /\ UNCHANGED <<ready, late, polled, running, dropped, resets>>

(* No event on server_sock_, or accept finds that the client has left. *)
AcceptNothing ==
  /\ pc = "accept" /\ (~listener \/ backlog = <<>>)
  /\ pc' = "io" /\ i' = 1
  /\ UNCHANGED <<peers, polled, running, connections, dropped, active, resets>>

(* What close() makes of a connection: see Connection!Close. *)
Closed(p) == IF p = "Open" THEN "Closing" ELSE "Closed"

Rank == [Handshaking |-> 0, Open |-> 1, Closing |-> 2, Closed |-> 3]

(* What handle_connection_io can make of a connection, its callbacks       *)
(* included: the state machine only advances.                              *)
Handled(p) == {q \in DOMAIN Rank : Rank[q] >= Rank[p]}

(* A connection that enters Closing starts a new timeout. *)
Restarted(new) == {c \in Client : phase[c] # "Closing" /\ new[c] = "Closing"}

(* The callbacks of one connection may close others, once or twice. *)
AfterCallbacks(c, p, once, twice) ==
  [d \in Client |-> IF d = c THEN p
                    ELSE IF d \in twice THEN Closed(Closed(phase[d]))
                    ELSE IF d \in once THEN Closed(phase[d]) ELSE phase[d]]

(* Connection c becomes p, and the application closes others meanwhile. *)
Callbacks(c, p) ==
  LET others == {d \in Client \ {c} : phase[d] \in Live}
  IN  \E once \in SUBSET others : \E twice \in SUBSET once :
        /\ phase' = AfterCallbacks(c, p, once, twice)
        /\ late' = late \ Restarted(phase')

(* Mutant: a connection that its handler closes is erased at once. *)
HandleIoErases ==
  /\ pc = "io" /\ i <= Len(pollfds) /\ i <= Len(connections)
  /\ \/ /\ pollfds[i] \in revents
        /\ connections' = SubSeq(connections, 1, i - 1)
                             \o SubSeq(connections, i + 1, Len(connections))
        /\ Callbacks(connections[i], "Closed")
     \/ /\ pollfds[i] \notin revents
        /\ UNCHANGED <<connections, phase, late>>
  /\ i' = i + 1
  /\ UNCHANGED <<ready, backlog, polled, running, pc, dropped, active, resets>>

(* One iteration of the I/O loop.  connections_[i - 1] is given the events *)
(* of poll_fds_[i], whoever it is.                                         *)
HandleIo ==
  /\ pc = "io" /\ i <= Len(pollfds) /\ i <= Len(connections)
  /\ LET c == connections[i]
     IN  IF pollfds[i] \in revents
         THEN /\ \E p \in Handled(phase[c]) : Callbacks(c, p)
              /\ \E drained \in BOOLEAN :
                   ready' = IF drained THEN ready \ {c} ELSE ready
         ELSE UNCHANGED <<phase, ready, late>>
  /\ i' = i + 1
  /\ UNCHANGED <<backlog, polled, running, pc, connections, dropped, active, resets>>

IoDone ==
  /\ pc = "io" /\ (i > Len(pollfds) \/ i > Len(connections))
  /\ pc' = "sweep" /\ i' = 1
  /\ UNCHANGED <<peers, polled, running, connections, dropped, active, resets>>

(* Mutant: only the handshake is timed. *)
TimedOutHandshake(c) == c \in late /\ phase[c] = "Handshaking"

(* is_handshake_timed_out() || is_close_timed_out() *)
TimedOut(c) == c \in late /\ phase[c] \in {"Handshaking", "Closing"}

(* One iteration of the timeout loop; on_close may close others. *)
SweepOne ==
  /\ pc = "sweep" /\ i <= Len(connections)
  /\ LET c == connections[i]
     IN  \/ TimedOut(c) /\ Callbacks(c, "Closed")
         \/ ~TimedOut(c) /\ UNCHANGED <<phase, late>>
  /\ i' = i + 1
  /\ UNCHANGED <<ready, backlog, polled, running, pc, connections, dropped,
                 active, resets>>

SweepDone ==
  /\ pc = "sweep" /\ i > Len(connections)
  /\ pc' = "reap" /\ i' = 1 /\ dropped' = 0
  /\ UNCHANGED <<peers, polled, running, connections, active, resets>>

(* The last reference to a connection goes, and its socket with it. *)
Forget(c) ==
  /\ phase' = [phase EXCEPT ![c] = "gone"]
  /\ ready' = ready \ {c}
  /\ late' = late \ {c}

(* Mutants: the last connection is dropped instead of the closed one; the  *)
(* connection that took its place is not looked at.                        *)
ReapOnePops ==
  /\ pc = "reap" /\ i <= Len(connections)
  /\ IF phase[connections[i]] = "Closed"
     THEN /\ connections' = SubSeq(connections, 1, Len(connections) - 1)
          /\ Forget(connections[i])
          /\ dropped' = dropped + 1
          /\ i' = i
     ELSE i' = i + 1 /\ UNCHANGED <<connections, phase, ready, late, dropped>>
  /\ UNCHANGED <<backlog, polled, running, pc, active, resets>>

ReapOneSkips ==
  /\ pc = "reap" /\ i <= Len(connections)
  /\ LET n == Len(connections)
     IN  IF phase[connections[i]] = "Closed"
         THEN /\ connections' = SubSeq([connections EXCEPT ![i] = connections[n]],
                                       1, n - 1)
              /\ Forget(connections[i])
              /\ dropped' = dropped + 1
         ELSE UNCHANGED <<connections, phase, ready, late, dropped>>
  /\ i' = i + 1
  /\ UNCHANGED <<backlog, polled, running, pc, active, resets>>

(* One iteration of remove_closed_connections: the last connection takes   *)
(* the place of a closed one, and is looked at next.                       *)
ReapOne ==
  /\ pc = "reap" /\ i <= Len(connections)
  /\ LET c == connections[i]
         n == Len(connections)
     IN  \/ /\ phase[c] = "Closed"
            /\ connections' = SubSeq([connections EXCEPT ![i] = connections[n]],
                                     1, n - 1)
            /\ Forget(c)
            /\ dropped' = dropped + 1
            /\ i' = i
         \/ /\ phase[c] # "Closed"
            /\ i' = i + 1
            /\ UNCHANGED <<connections, phase, ready, late, dropped>>
  /\ UNCHANGED <<backlog, polled, running, pc, active, resets>>

(* Mutant: one connection is subtracted per pass. *)
ReapDoneOnce ==
  /\ pc = "reap" /\ i > Len(connections)
  /\ active' = (active - (IF dropped > 0 THEN 1 ELSE 0)) % Wrap
  /\ pc' = "test" /\ i' = 1
  /\ UNCHANGED <<peers, polled, running, connections, dropped, resets>>

(* The loop is over: the counter follows. *)
ReapDone ==
  /\ pc = "reap" /\ i > Len(connections)
  /\ active' = (active - dropped) % Wrap
  /\ pc' = "test" /\ i' = 1
  /\ UNCHANGED <<peers, polled, running, connections, dropped, resets>>

Loop ==
  \/ BuildPollSet
  \/ PollReturns \/ PollTimesOut
  \/ Accept \/ AcceptNothing
  \/ HandleIo \/ IoDone
  \/ SweepOne \/ SweepDone
  \/ ReapOne \/ ReapDone

Clients ==
  \/ \E c \in Client : Connect(c) \/ Event(c) \/ Expire(c)
  \/ \E k \in DOMAIN backlog : Abandon(k)

Next == Clients \/ Stop \/ ResetStats \/ Run \/ Loop \/ PollFails

Spec == Init /\ [][Next]_vars

(* run() is a loop on one thread, callbacks return and poll returns within *)
(* its timeout: the loop always takes another step.                        *)
FairSpec == Spec /\ WF_vars(Loop)

-----------------------------------------------------------------------------
(* Types of the variables; connections_ and poll_fds_ fit their arrays. *)
TypeOK ==
  /\ phase \in [Client -> Live \cup {"new", "pending", "Closed", "gone"}]
  /\ ready \subseteq Client /\ late \subseteq Client
  /\ backlog \in Seq(Client)
  /\ running \in BOOLEAN /\ listener \in BOOLEAN
  /\ pc \in {"stopped", "test", "wait", "accept", "io", "sweep", "reap"}
  /\ connections \in Seq(Client) /\ Len(connections) <= Capacity
  /\ pollfds \in Seq(Client) /\ Len(pollfds) <= Capacity
  /\ revents \subseteq Client
  /\ i \in 1..(Capacity + 1) /\ dropped \in 0..Capacity
  /\ active \in 0..(Wrap - 1) /\ resets \in 0..MaxResets

(* Events reach the connection they belong to: while the I/O loop runs,    *)
(* connections_[k - 1] is the connection poll_fds_[k] was filled from,     *)
(* although a client was accepted and others were closed since.            *)
EventsReachOwner ==
  pc = "io" => \A k \in DOMAIN pollfds : /\ k \in DOMAIN connections
                                         /\ connections[k] = pollfds[k]

(* Swap-and-pop loses no connection and keeps none twice: connections_     *)
(* holds exactly the accepted clients that have not been dropped.          *)
ConnectionsExact ==
  /\ \A j, k \in DOMAIN connections : connections[j] = connections[k] => j = k
  /\ {connections[k] : k \in DOMAIN connections}
       = {c \in Client : phase[c] \in Live \cup {"Closed"}}

(* No closed connection, whose descriptor is -1 by then, is polled. *)
NothingClosedPolled ==
  pc = "wait" => \A k \in DOMAIN pollfds : phase[pollfds[k]] \in Live

(* The active_connections counter is the number of connections, as long as *)
(* it is not reset while there are any.                                    *)
CounterExact ==
  active = Len(connections) + (IF pc = "reap" THEN dropped ELSE 0)

(* A client is turned away only by a server that is more than 90 percent   *)
(* full (docs/design_zh.md:354, tests/test_pool.cpp:146-153).              *)
RejectsOnlyWhenFull ==
  [][\A c \in Client : phase[c] = "pending" /\ phase'[c] = "gone"
       => Len(connections) > (MaxConnections * 9) \div 10]_vars

(* Every client that connects to a running server is answered: accepted,   *)
(* or accepted and closed.  This is for limits whose nine tenths are below *)
(* the number of places in connections_, as 50 and 64 of the code are: the *)
(* server is then overloaded before it is full, and the early return of    *)
(* accept_connection, which leaves the client in the backlog, is not       *)
(* reached.                                                                *)
PendingServed ==
  \A c \in Client : phase[c] = "pending" ~> (phase[c] # "pending" \/ pc = "stopped")

(* stop() ends run(), even when no client does anything. *)
StopEndsRun == ~running ~> pc = "stopped"

(* Timeouts are enforced on a server where poll keeps reporting events. *)
TimeoutsEnforcedWhenBusy ==
  \A c \in Client :
    []<>(pc = "accept") =>
      ((c \in late /\ phase[c] = "Closing") ~> phase[c] \in {"Closed", "gone"})

(* A client that does not finish its handshake in time is dropped          *)
(* (docs/design_zh.md:259).                                                *)
HandshakeTimeoutEnforced ==
  \A c \in Client :
    (c \in late /\ phase[c] = "Handshaking") ~> (phase[c] # "Handshaking" \/ ~running \/ pc = "stopped")

=============================================================================
