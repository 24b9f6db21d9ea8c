---------------------------- MODULE ServerProofs ----------------------------
(***************************************************************************)
(* Theorems about Server, for every set of clients, every number of places *)
(* and any number of resets.                                               *)
(*                                                                         *)
(* Membership says who is in the backlog and in connections_; Progress     *)
(* relates pc, the index of the loops, poll_fds_ and connections_.  They   *)
(* are inductive together with the types, and the properties of the runs   *)
(* follow.                                                                 *)
(***************************************************************************)
EXTENDS Server, SequenceTheorems, TLAPS

Phase == Live \cup {"new", "pending", "Closed", "gone"}
InService == Live \cup {"Closed"}

(* Clients in the backlog are pending, and there once. *)
Queued ==
  /\ \A k \in DOMAIN backlog : phase[backlog[k]] = "pending"
  /\ \A j, k \in DOMAIN backlog : backlog[j] = backlog[k] => j = k

(* Clients in connections_ are in service, and there once; and conversely. *)
Registered ==
  /\ \A k \in DOMAIN connections : phase[connections[k]] \in InService
  /\ \A j, k \in DOMAIN connections : connections[j] = connections[k] => j = k
  /\ \A c \in Client : phase[c] \in InService
                         => \E k \in DOMAIN connections : connections[k] = c

Membership ==
  /\ phase \in [Client -> Phase]
  /\ backlog \in Seq(Client) /\ connections \in Seq(Client)
  /\ Queued /\ Registered

-----------------------------------------------------------------------------
(* Sequences without the element at position k. *)
Without(s, k) == SubSeq(s, 1, k - 1) \o SubSeq(s, k + 1, Len(s))

LEMMA Removed ==
  ASSUME NEW S, NEW s \in Seq(S), NEW k \in 1..Len(s)
  PROVE  /\ Without(s, k) \in Seq(S) /\ Len(Without(s, k)) = Len(s) - 1
         /\ \A j \in 1..Len(Without(s, k)) :
              Without(s, k)[j] = IF j < k THEN s[j] ELSE s[j + 1]
<1> DEFINE t == Without(s, k)
           a == SubSeq(s, 1, k - 1)
           b == SubSeq(s, k + 1, Len(s))
<1>1. Len(s) \in Nat
  BY LenProperties
<1>2. a \in Seq(S) /\ Len(a) = k - 1 /\ \A j \in 1..(k - 1) : a[j] = s[j]
  BY <1>1, SubSeqProperties
<1>3. b \in Seq(S) /\ Len(b) = Len(s) - k /\ \A j \in 1..(Len(s) - k) : b[j] = s[k + j]
  <2>1. k + 1 \in Int /\ Len(s) \in Int /\ \A j \in (k + 1)..Len(s) : s[j] \in S
    BY <1>1, ElementOfSeq
  <2>2. /\ b \in Seq(S) /\ Len(b) = IF k + 1 <= Len(s) THEN Len(s) - (k + 1) + 1 ELSE 0
        /\ \A j \in 1..(Len(s) - (k + 1) + 1) : b[j] = s[(k + 1) + j - 1]
    BY <2>1, SubSeqProperties
  <2>3. QED
    BY <1>1, <2>2
<1>4. t = a \o b
  BY DEF Without
<1> HIDE DEF t, a, b
<1>5. /\ t \in Seq(S) /\ Len(t) = Len(a) + Len(b)
      /\ \A j \in 1..(Len(a) + Len(b)) : t[j] = IF j <= Len(a) THEN a[j] ELSE b[j - Len(a)]
  <2>1. a \in Seq(S) /\ b \in Seq(S)
    BY <1>2, <1>3
  <2>2. /\ a \o b \in Seq(S) /\ Len(a \o b) = Len(a) + Len(b)
        /\ \A j \in 1..(Len(a) + Len(b)) :
             (a \o b)[j] = IF j <= Len(a) THEN a[j] ELSE b[j - Len(a)]
    BY <2>1, ConcatProperties
  <2>3. QED
    BY <1>4, <2>2, Zenon
<1>7. /\ Len(a) = k - 1 /\ Len(b) = Len(s) - k
      /\ Len(t) = Len(s) - 1 /\ Len(t) = Len(a) + Len(b)
  <2>1. Len(a) = k - 1
    BY <1>2, Zenon
  <2>2. Len(b) = Len(s) - k
    BY <1>3, Zenon
  <2>3. Len(t) = Len(a) + Len(b)
    BY <1>5, Zenon
  <2>4. QED
    BY <1>1, <2>1, <2>2, <2>3
<1>6. ASSUME NEW j \in 1..Len(t)
      PROVE  t[j] = IF j < k THEN s[j] ELSE s[j + 1]
  <2>1. /\ Len(a) = k - 1 /\ Len(b) = Len(s) - k /\ k \in 1..Len(s)
        /\ j \in 1..(Len(s) - 1)
    BY <1>1, <1>7
  <2>2. CASE j < k
    <3>1. j \in 1..(k - 1) /\ j \in 1..(Len(a) + Len(b)) /\ j <= Len(a)
      BY <1>1, <2>1, <2>2
    <3>2. t[j] = a[j] /\ a[j] = s[j]
      BY <1>2, <1>5, <3>1
    <3>3. QED
      BY <2>2, <3>2
  <2>3. CASE ~(j < k)
    <3>1. /\ j - Len(a) \in 1..(Len(s) - k) /\ k + (j - Len(a)) = j + 1
          /\ j \in 1..(Len(a) + Len(b)) /\ ~(j <= Len(a))
      BY <1>1, <2>1, <2>3
    <3>2. t[j] = b[j - Len(a)] /\ b[j - Len(a)] = s[k + (j - Len(a))]
      BY <1>3, <1>5, <3>1
    <3>3. QED
      BY <2>3, <3>1, <3>2
  <2>4. QED
    BY <2>2, <2>3
<1>8. t \in Seq(S)
  BY <1>5
<1>9. QED
  BY <1>6, <1>7, <1>8, Zenon DEF t

(* Swap-and-pop: the last element takes the place of the one at k. *)
LEMMA Swapped ==
  ASSUME NEW S, NEW s \in Seq(S), NEW k \in 1..Len(s),
         NEW t, t = SubSeq([s EXCEPT ![k] = s[Len(s)]], 1, Len(s) - 1)
  PROVE  /\ t \in Seq(S) /\ Len(t) = Len(s) - 1
         /\ \A j \in 1..Len(t) : t[j] = IF j = k THEN s[Len(s)] ELSE s[j]
<1> DEFINE e == [s EXCEPT ![k] = s[Len(s)]]
<1>1. Len(s) \in Nat /\ s \in [1..Len(s) -> S]
  BY LenProperties
<1>2. e \in Seq(S) /\ Len(e) = Len(s) /\ \A j \in 1..Len(s) : e[j] = IF j = k THEN s[Len(s)] ELSE s[j]
  BY <1>1, ExceptSeq
<1> HIDE DEF e
<1>3. t = SubSeq(e, 1, Len(s) - 1)
  BY DEF e
<1>4. QED
  BY <1>1, <1>2, <1>3, SubSeqProperties

-----------------------------------------------------------------------------
(* Steps that change phases only, and neither who is pending nor who is in *)
(* service.                                                                *)
LEMMA SamePlaces ==
  ASSUME Membership, phase' \in [Client -> Phase], UNCHANGED <<backlog, connections>>,
         \A c \in Client : /\ phase[c] = "pending" => phase'[c] = "pending"
                           /\ phase'[c] \in InService <=> phase[c] \in InService
  PROVE  Membership'
<1>1. Queued'
  <2>1. \A k \in DOMAIN backlog : backlog[k] \in Client
    BY ElementOfSeq, LenProperties DEF Membership
  <2>2. QED
    BY <2>1 DEF Membership, Queued
<1>2. Registered'
  <2>1. \A k \in DOMAIN connections : connections[k] \in Client
    BY ElementOfSeq, LenProperties DEF Membership
  <2>2. QED
    BY <2>1 DEF Membership, Registered
<1>3. QED
  BY <1>1, <1>2 DEF Membership

(* Callbacks move connections that are in service, and keep them there. *)
LEMMA CallbacksStay ==
  ASSUME phase \in [Client -> Phase], NEW c \in Client, NEW p \in InService,
         phase[c] \in InService, Callbacks(c, p)
  PROVE  /\ phase' \in [Client -> Phase]
         /\ \A d \in Client : /\ phase[d] = "pending" => phase'[d] = "pending"
                              /\ phase'[d] \in InService <=> phase[d] \in InService
<1> DEFINE others == {d \in Client \ {c} : phase[d] \in Live}
<1>1. PICK once \in SUBSET others : \E twice \in SUBSET once :
             phase' = AfterCallbacks(c, p, once, twice)
  BY DEF Callbacks
<1>2. PICK twice \in SUBSET once : phase' = AfterCallbacks(c, p, once, twice)
  BY <1>1
<1>3. \A d \in Client : phase'[d] = phase[d] \/ (phase[d] \in InService /\ phase'[d] \in InService)
  BY <1>2 DEF AfterCallbacks, Closed, InService, Live
<1>4. phase' = [d \in Client |-> phase'[d]]
  BY <1>2 DEF AfterCallbacks
<1>5. phase' \in [Client -> Phase]
  <2>1. \A d \in Client : phase'[d] \in Phase
    BY <1>3 DEF Phase, InService
  <2>2. QED
    BY <1>4, <2>1
<1>6. QED
  BY <1>3, <1>5 DEF InService, Live

LEMMA MembershipStep ==
  ASSUME Membership, i \in Nat \ {0}, [Next]_vars
  PROVE  Membership'
<1>0. /\ \A k \in DOMAIN connections : connections[k] \in Client
      /\ \A k \in DOMAIN backlog : backlog[k] \in Client
      /\ DOMAIN connections = 1..Len(connections) /\ Len(connections) \in Nat
      /\ DOMAIN backlog = 1..Len(backlog) /\ Len(backlog) \in Nat
  BY ElementOfSeq, LenProperties DEF Membership
<1>1. CASE UNCHANGED <<phase, backlog, connections>>
  BY <1>1, SamePlaces DEF Membership
<1>2. ASSUME NEW c \in Client, Connect(c)
      PROVE  Membership'
  <2>1. /\ phase' \in [Client -> Phase] /\ phase'[c] = "pending" /\ phase[c] = "new"
        /\ \A d \in Client \ {c} : phase'[d] = phase[d]
        /\ connections' = connections /\ backlog' = Append(backlog, c)
    BY <1>2 DEF Connect, Membership, Phase
  <2>2. /\ backlog' \in Seq(Client) /\ Len(backlog') = Len(backlog) + 1
        /\ \A k \in 1..Len(backlog) : backlog'[k] = backlog[k]
        /\ backlog'[Len(backlog) + 1] = c /\ DOMAIN backlog' = 1..(Len(backlog) + 1)
    BY <1>0, <2>1, AppendProperties, LenProperties DEF Membership
  <2>3. \A k \in 1..Len(backlog) : backlog[k] # c
    BY <1>0, <2>1 DEF Membership, Queued
  <2>4. Queued'
    BY <1>0, <2>1, <2>2, <2>3 DEF Membership, Queued
  <2>5. Registered'
    BY <1>0, <2>1 DEF Membership, Registered, InService, Live
  <2>6. QED
    BY <2>1, <2>2, <2>4, <2>5 DEF Membership
<1>3. ASSUME NEW k \in DOMAIN backlog, Abandon(k)
      PROVE  Membership'
  <2>1. /\ phase' \in [Client -> Phase] /\ phase'[backlog[k]] = "new"
        /\ phase[backlog[k]] = "pending"
        /\ \A d \in Client \ {backlog[k]} : phase'[d] = phase[d]
        /\ connections' = connections
    BY <1>0, <1>3 DEF Abandon, Membership, Phase, Queued
  <2>2. /\ backlog' \in Seq(Client) /\ Len(backlog') = Len(backlog) - 1
        /\ \A j \in 1..Len(backlog') : backlog'[j] = IF j < k THEN backlog[j] ELSE backlog[j + 1]
    <3>1. backlog \in Seq(Client) /\ k \in 1..Len(backlog)
      BY <1>0, <1>3 DEF Membership
    <3>2. backlog' = Without(backlog, k)
      BY <1>3 DEF Abandon, Without
    <3>3. QED
      BY <3>1, <3>2, Removed, Zenon
  <2>3. DOMAIN backlog' = 1..(Len(backlog) - 1)
    BY <1>0, <2>2, LenProperties
  <2>4. \A j \in DOMAIN backlog' : backlog'[j] \in Client /\ backlog'[j] # backlog[k]
    <3>1. ASSUME NEW j \in DOMAIN backlog'
          PROVE  backlog'[j] \in Client /\ backlog'[j] # backlog[k]
      <4>1. CASE j < k
        BY <1>0, <1>3, <2>2, <2>3, <4>1 DEF Membership, Queued
      <4>2. CASE ~(j < k)
        <5>1. j + 1 \in DOMAIN backlog /\ j + 1 # k /\ backlog'[j] = backlog[j + 1]
          BY <1>0, <1>3, <2>2, <2>3, <4>2
        <5>2. QED
          BY <1>0, <1>3, <5>1 DEF Membership, Queued
      <4>3. QED
        BY <4>1, <4>2
    <3>2. QED
      BY <3>1
  <2>5. Queued'
    <3>1. ASSUME NEW j \in DOMAIN backlog'
          PROVE  phase[backlog'[j]] = "pending"
      <4>1. \E l \in DOMAIN backlog : backlog'[j] = backlog[l]
        BY <1>0, <1>3, <2>2, <2>3
      <4>2. QED
        BY <4>1 DEF Membership, Queued
    <3>2. \A j \in DOMAIN backlog' : phase'[backlog'[j]] = "pending"
      BY <2>1, <2>4, <3>1
    <3>3. ASSUME NEW j \in DOMAIN backlog', NEW l \in DOMAIN backlog',
                 backlog'[j] = backlog'[l]
          PROVE  j = l
      <4> DEFINE at(n) == IF n < k THEN n ELSE n + 1
      <4>1. /\ at(j) \in DOMAIN backlog /\ at(l) \in DOMAIN backlog
            /\ backlog'[j] = backlog[at(j)] /\ backlog'[l] = backlog[at(l)]
        BY <1>0, <1>3, <2>2, <2>3
      <4>2. at(j) = at(l)
        BY <3>3, <4>1 DEF Membership, Queued
      <4>3. QED
        BY <1>0, <1>3, <2>3, <4>2
    <3>4. QED
      BY <3>2, <3>3 DEF Queued
  <2>6. Registered'
    BY <1>0, <2>1 DEF Membership, Registered, InService, Live
  <2>7. QED
    BY <2>1, <2>2, <2>5, <2>6 DEF Membership
<1>4. CASE Accept
  <2> DEFINE c == Head(backlog)
  <2>1. backlog # <<>> /\ c \in Client /\ c = backlog[1] /\ 1 \in DOMAIN backlog
    BY <1>0, <1>4, HeadTailProperties, EmptySeq DEF Accept, Membership
  <2>2. phase[c] = "pending" /\ \A k \in DOMAIN connections : connections[k] # c
    <3>1. phase[c] = "pending"
      BY <2>1 DEF Membership, Queued
    <3> HIDE DEF c
    <3>2. QED
      BY <3>1 DEF Membership, Registered, InService, Live
  <2>3. CASE backlog' = Tail(backlog) /\ (\E p \in {"gone", "Handshaking"} :
                phase' = [phase EXCEPT ![c] = p])
    <3>1. PICK p \in {"gone", "Handshaking"} : phase' = [phase EXCEPT ![c] = p]
      BY <2>3
    <3>2. /\ phase' \in [Client -> Phase] /\ phase'[c] = p
          /\ \A d \in Client \ {c} : phase'[d] = phase[d]
      BY <2>1, <3>1 DEF Membership, Phase, Live
    <3>3. /\ backlog' \in Seq(Client) /\ Len(backlog') = Len(backlog) - 1
          /\ \A j \in 1..Len(backlog') : backlog'[j] = backlog[j + 1]
      BY <2>1, <2>3, HeadTailProperties DEF Membership
    <3>4. DOMAIN backlog' = 1..(Len(backlog) - 1)
      BY <1>0, <3>3, LenProperties
    <3>5. \A j \in DOMAIN backlog' : /\ j + 1 \in DOMAIN backlog
                                     /\ backlog'[j] = backlog[j + 1]
                                     /\ backlog[j + 1] # c
      BY <1>0, <2>1, <3>3, <3>4 DEF Membership, Queued
    <3>6. Queued'
      BY <1>0, <3>2, <3>4, <3>5 DEF Membership, Queued
    <3>7. Registered' /\ connections' \in Seq(Client)
      <4>1. CASE p = "gone" /\ connections' = connections
        BY <1>0, <2>2, <3>2, <4>1 DEF Membership, Registered, InService, Live
      <4>2. CASE p = "Handshaking" /\ connections' = Append(connections, c)
        <5>1. /\ connections' \in Seq(Client) /\ Len(connections') = Len(connections) + 1
              /\ \A k \in 1..Len(connections) : connections'[k] = connections[k]
              /\ connections'[Len(connections) + 1] = c
              /\ DOMAIN connections' = 1..(Len(connections) + 1)
          BY <1>0, <2>1, <4>2, AppendProperties, LenProperties DEF Membership
        <5>2. \A k \in DOMAIN connections' : phase'[connections'[k]] \in InService
          BY <1>0, <2>2, <3>2, <4>2, <5>1 DEF Membership, Registered, InService, Live
        <5>3. \A j, k \in DOMAIN connections' : connections'[j] = connections'[k] => j = k
          BY <1>0, <2>2, <5>1 DEF Membership, Registered
        <5>4. ASSUME NEW d \in Client, phase'[d] \in InService
              PROVE  \E k \in DOMAIN connections' : connections'[k] = d
          <6>1. CASE d = c
            BY <1>0, <5>1, <6>1
          <6>2. CASE d # c
            BY <1>0, <3>2, <5>1, <5>4, <6>2 DEF Membership, Registered
          <6>3. QED
            BY <6>1, <6>2
        <5>5. QED
          BY <5>1, <5>2, <5>3, <5>4 DEF Registered
      <4>3. QED
        BY <1>4, <2>1, <2>2, <2>3, <3>1, <3>2, <4>1, <4>2 DEF Accept
    <3>8. QED
      BY <3>2, <3>3, <3>6, <3>7 DEF Membership
  <2>4. QED
    BY <1>1, <1>4, <2>3 DEF Accept
<1>5. CASE HandleIo
  <2>1. i \in DOMAIN connections /\ backlog' = backlog /\ connections' = connections
    BY <1>0, <1>5 DEF HandleIo
  <2>2. CASE UNCHANGED phase
    BY <1>1, <2>1, <2>2
  <2>3. ASSUME NEW p \in Handled(phase[connections[i]]), Callbacks(connections[i], p)
        PROVE  Membership'
    <3>1. p \in InService
      BY <2>3 DEF Handled, Rank, InService, Live
    <3>2. connections[i] \in Client /\ phase[connections[i]] \in InService
      BY <1>0, <2>1 DEF Membership, Registered
    <3>3. QED
      BY <2>1, <2>3, <3>1, <3>2, CallbacksStay, SamePlaces DEF Membership
  <2>4. QED
    BY <1>5, <2>2, <2>3 DEF HandleIo
<1>6. CASE SweepOne
  <2>1. i \in DOMAIN connections /\ backlog' = backlog /\ connections' = connections
    BY <1>0, <1>6 DEF SweepOne
  <2>2. CASE UNCHANGED phase
    BY <1>1, <2>1, <2>2
  <2>3. CASE Callbacks(connections[i], "Closed")
    <3>1. "Closed" \in InService
      BY DEF InService
    <3>2. connections[i] \in Client /\ phase[connections[i]] \in InService
      BY <1>0, <2>1 DEF Membership, Registered
    <3>3. QED
      BY <2>1, <2>3, <3>1, <3>2, CallbacksStay, SamePlaces DEF Membership
  <2>4. QED
    BY <1>6, <2>2, <2>3 DEF SweepOne
<1>7. CASE ReapOne
  <2> DEFINE c == connections[i]
  <2>1. i \in DOMAIN connections /\ backlog' = backlog /\ c \in Client
    BY <1>0, <1>7 DEF ReapOne
  <2>2. CASE phase[c] = "Closed"
    <3>1. /\ connections' = SubSeq([connections EXCEPT ![i] = connections[Len(connections)]],
                                   1, Len(connections) - 1)
          /\ phase' = [phase EXCEPT ![c] = "gone"]
      BY <1>7, <2>2 DEF ReapOne, Forget
    <3>2. /\ connections' \in Seq(Client) /\ Len(connections') = Len(connections) - 1
          /\ \A j \in 1..Len(connections') : connections'[j] =
                IF j = i THEN connections[Len(connections)] ELSE connections[j]
      BY <1>0, <2>1, <3>1, Swapped DEF Membership
    <3>3. DOMAIN connections' = 1..(Len(connections) - 1)
      BY <1>0, <3>2, LenProperties
    <3>4. /\ phase' \in [Client -> Phase] /\ phase'[c] = "gone"
          /\ \A d \in Client \ {c} : phase'[d] = phase[d]
      BY <2>1, <3>1 DEF Membership, Phase
    <3>5. \A j \in DOMAIN connections' : connections'[j] \in Client /\ connections'[j] # c
      BY <1>0, <2>1, <3>2, <3>3, SMTT(20) DEF Membership, Registered
    <3>6. \A j \in DOMAIN connections' : phase[connections'[j]] \in InService
      BY <1>0, <2>1, <3>2, <3>3, SMTT(20) DEF Membership, Registered
    <3>7. ASSUME NEW j \in DOMAIN connections', NEW k \in DOMAIN connections',
                 connections'[j] = connections'[k]
          PROVE  j = k
      <4> DEFINE at(n) == IF n = i THEN Len(connections) ELSE n
      <4>1. /\ at(j) \in DOMAIN connections /\ at(k) \in DOMAIN connections
            /\ connections'[j] = connections[at(j)] /\ connections'[k] = connections[at(k)]
        BY <1>0, <2>1, <3>2, <3>3
      <4>2. at(j) = at(k)
        BY <3>7, <4>1 DEF Membership, Registered
      <4>3. QED
        BY <1>0, <2>1, <3>3, <4>2
    <3>8. ASSUME NEW d \in Client, phase'[d] \in InService
          PROVE  \E k \in DOMAIN connections' : connections'[k] = d
      <4>1. d # c /\ phase[d] \in InService
        BY <3>4, <3>8 DEF InService, Live
      <4>2. PICK k \in DOMAIN connections : connections[k] = d
        BY <4>1 DEF Membership, Registered
      <4>3. CASE k = Len(connections)
        BY <1>0, <2>1, <3>2, <3>3, <4>1, <4>2, <4>3
      <4>4. CASE k # Len(connections)
        BY <1>0, <2>1, <3>2, <3>3, <4>1, <4>2, <4>4
      <4>5. QED
        BY <4>3, <4>4
    <3>9. Registered'
      BY <3>4, <3>5, <3>6, <3>7, <3>8 DEF Registered
    <3>10. Queued'
      BY <1>0, <2>1, <2>2, <3>4 DEF Membership, Queued
    <3>11. QED
      BY <2>1, <3>2, <3>4, <3>9, <3>10 DEF Membership
  <2>3. CASE phase[c] # "Closed"
    BY <1>1, <1>7, <2>1, <2>3 DEF ReapOne
  <2>4. QED
    BY <2>2, <2>3
<1>8. QED
  BY <1>1, <1>2, <1>3, <1>4, <1>5, <1>6, <1>7
     DEF Next, Clients, Loop, vars, peers, Event, Expire, Stop, ResetStats, Run,
         PollFails, BuildPollSet, PollReturns, PollTimesOut, AcceptNothing, IoDone,
         SweepDone, ReapDone

-----------------------------------------------------------------------------
(* The types of what Membership does not speak of, and the sizes. *)
Shape ==
  /\ ready \subseteq Client /\ late \subseteq Client /\ revents \subseteq Client
  /\ running \in BOOLEAN /\ listener \in BOOLEAN
  /\ pc \in {"stopped", "test", "wait", "accept", "io", "sweep", "reap"}
  /\ resets \in 0..MaxResets /\ active \in 0..(Wrap - 1)

(* A place that the removal empties is counted in dropped. *)
Bounds ==
  /\ pollfds \in Seq(Client) /\ Len(pollfds) <= Capacity
  /\ Len(connections) <= Capacity
  /\ i \in 1..(Capacity + 1) /\ dropped \in 0..Capacity
  /\ pc = "reap" => Len(connections) + dropped <= Capacity

(* poll_fds_ is filled from connections_, which only grows until the I/O   *)
(* loop is over.                                                           *)
Snapshot ==
  /\ pc \in {"wait", "accept"} => pollfds = connections
  /\ EventsReachOwner

(* Nothing closed survives the removal, and callbacks close connections    *)
(* only between the I/O loop's start and the sweep's end.                  *)
Clean ==
  /\ pc \in {"stopped", "test", "wait", "accept"} =>
       \A k \in DOMAIN connections : phase[connections[k]] \in Live
  /\ pc = "reap" => \A k \in DOMAIN connections :
                      k < i => phase[connections[k]] \in Live

Progress == Membership /\ Shape /\ Bounds /\ Snapshot /\ Clean

LEMMA Modulo ==
  ASSUME NEW n \in Int, NEW m \in Nat \ {0}
  PROVE  n % m \in 0..(m - 1) /\ (n \in 0..(m - 1) => n % m = n)
  OBVIOUS

LEMMA ShapeStep ==
  ASSUME Shape, Bounds, [Next]_vars
  PROVE  Shape'
<1>1. CASE UNCHANGED <<ready, late, revents, running, listener, pc, resets, active>>
  BY <1>1 DEF Shape
<1>2. CASE Clients
  BY <1>2 DEF Clients, Connect, Abandon, Event, Expire, polled, Shape
<1>3. CASE Stop \/ ResetStats \/ Run
  <2>1. running' \in BOOLEAN
    BY <1>3, Zenon DEF Stop, ResetStats, Run, Shape
  <2>2. resets' \in 0..MaxResets /\ active' \in 0..(Wrap - 1)
    <3>1. CASE resets' = resets /\ active' = active
      BY <3>1 DEF Shape
    <3>2. CASE resets < MaxResets /\ resets' = resets + 1 /\ active' = 0
      BY <3>2, ServerAssumption DEF Shape
    <3>3. QED
      BY <1>3, <3>1, <3>2 DEF Stop, ResetStats, Run
  <2>3. UNCHANGED <<ready, late, revents, listener>>
    BY <1>3 DEF Stop, ResetStats, Run, peers, polled
  <2>4. pc' \in {pc, "test"}
    BY <1>3 DEF Stop, ResetStats, Run
  <2>5. QED
    BY <2>1, <2>2, <2>3, <2>4 DEF Shape
<1>4. CASE BuildPollSet \/ PollReturns \/ PollTimesOut \/ PollFails
  BY <1>4 DEF BuildPollSet, PollReturns, PollTimesOut, PollFails, Pollable,
              peers, polled, Shape
<1>5. CASE Accept \/ AcceptNothing
  <2>1. active' \in 0..(Wrap - 1)
    <3>1. active' \in {active, (active + 1) % Wrap}
      BY <1>5 DEF Accept, AcceptNothing
    <3>2. (active + 1) % Wrap \in 0..(Wrap - 1)
      BY ServerAssumption, Modulo DEF Shape
    <3>3. QED
      BY <3>1, <3>2, Zenon DEF Shape
  <2>2. QED
    BY <1>5, <2>1 DEF Accept, AcceptNothing, peers, polled, Shape
<1>6. CASE HandleIo \/ IoDone \/ SweepOne \/ SweepDone
  BY <1>6 DEF HandleIo, IoDone, SweepOne, SweepDone, Callbacks, peers, polled, Shape
<1>7. CASE ReapOne
  BY <1>7 DEF ReapOne, Forget, peers, polled, Shape
<1>8. CASE ReapDone
  <2>1. active' \in 0..(Wrap - 1)
    <3>1. active' = (active - dropped) % Wrap
      BY <1>8 DEF ReapDone
    <3>2. (active - dropped) % Wrap \in 0..(Wrap - 1)
      <4>1. active - dropped \in Int /\ Wrap \in Nat \ {0}
        BY ServerAssumption DEF Shape, Bounds
      <4>2. QED
        BY <4>1, Modulo
    <3>3. QED
      BY <3>1, <3>2, Zenon
  <2>2. QED
    BY <1>8, <2>1 DEF ReapDone, peers, polled, Shape
<1>9. QED
  BY <1>1, <1>2, <1>3, <1>4, <1>5, <1>6, <1>7, <1>8 DEF Next, Loop, vars, peers, polled

LEMMA BoundsStep ==
  ASSUME Membership, Bounds, [Next]_vars
  PROVE  Bounds'
<1>0. Len(connections) \in Nat /\ connections \in Seq(Client)
  BY LenProperties DEF Membership
<1>1. CASE UNCHANGED <<pollfds, connections, i, dropped, pc>>
  BY <1>1 DEF Bounds
<1>2. CASE Clients \/ Stop \/ ResetStats
  BY <1>1, <1>2 DEF Clients, Connect, Abandon, Event, Expire, Stop, ResetStats, peers, polled
<1>3. CASE Run \/ BuildPollSet \/ PollReturns \/ PollTimesOut \/ PollFails \/ AcceptNothing
  BY <1>0, <1>3, ServerAssumption
     DEF Run, BuildPollSet, PollReturns, PollTimesOut, PollFails, AcceptNothing,
         peers, polled, Bounds
<1>4. CASE Accept
  <2>1. CASE connections' = connections
    BY <1>0, <1>4, <2>1, ServerAssumption DEF Accept, polled, Bounds
  <2>2. CASE connections' = Append(connections, Head(backlog)) /\ Len(connections) < Capacity
    <3>1. Len(connections') = Len(connections) + 1
      BY <1>0, <2>2, AppendProperties, HeadTailProperties, <1>4 DEF Accept, Membership
    <3>2. QED
      BY <1>0, <1>4, <2>2, <3>1, ServerAssumption DEF Accept, polled, Bounds
  <2>3. QED
    BY <1>4, <2>1, <2>2 DEF Accept
<1>5. CASE HandleIo \/ IoDone \/ SweepOne \/ SweepDone
  BY <1>0, <1>5, ServerAssumption
     DEF HandleIo, IoDone, SweepOne, SweepDone, peers, polled, Bounds
<1>6. CASE ReapOne
  <2>1. CASE phase[connections[i]] = "Closed"
    <3>1. connections' = SubSeq([connections EXCEPT ![i] = connections[Len(connections)]],
                                1, Len(connections) - 1)
      BY <1>6, <2>1 DEF ReapOne
    <3>2. i \in 1..Len(connections)
      BY <1>0, <1>6 DEF ReapOne, Bounds
    <3>3. Len(connections') = Len(connections) - 1
      BY <1>0, <3>1, <3>2, Swapped
    <3>4. QED
      BY <1>0, <1>6, <2>1, <3>2, <3>3, ServerAssumption DEF ReapOne, polled, Bounds
  <2>2. CASE phase[connections[i]] # "Closed"
    BY <1>0, <1>6, <2>2, ServerAssumption DEF ReapOne, polled, Bounds
  <2>3. QED
    BY <2>1, <2>2
<1>7. CASE ReapDone
  BY <1>0, <1>7, ServerAssumption DEF ReapDone, peers, polled, Bounds
<1>8. QED
  BY <1>1, <1>2, <1>3, <1>4, <1>5, <1>6, <1>7 DEF Next, Loop, vars, peers, polled

LEMMA SnapshotStep ==
  ASSUME Membership, Snapshot, [Next]_vars
  PROVE  Snapshot'
<1>0. /\ connections \in Seq(Client) /\ Len(connections) \in Nat
      /\ DOMAIN connections = 1..Len(connections)
  BY LenProperties DEF Membership
<1>1. CASE UNCHANGED <<pollfds, connections, pc>>
  BY <1>1 DEF Snapshot, EventsReachOwner
<1>2. CASE pc' \in {"stopped", "test", "sweep", "reap"}
  BY <1>2 DEF Snapshot, EventsReachOwner
<1>3. CASE BuildPollSet \/ PollReturns
  BY <1>3 DEF BuildPollSet, PollReturns, Snapshot, EventsReachOwner
<1>4. CASE Accept
  <2>1. pollfds = connections /\ pollfds' = pollfds
    BY <1>4 DEF Accept, Snapshot, polled
  <2>2. \A k \in DOMAIN connections : k \in DOMAIN connections' /\ connections'[k] = connections[k]
    <3>1. CASE connections' = connections
      BY <3>1
    <3>2. CASE connections' = Append(connections, Head(backlog))
      <4>1. Head(backlog) \in Client
        BY <1>4, HeadTailProperties DEF Accept, Membership
      <4>2. /\ connections' \in Seq(Client) /\ Len(connections') = Len(connections) + 1
            /\ \A k \in 1..Len(connections) : connections'[k] = connections[k]
        BY <1>0, <3>2, <4>1, AppendProperties
      <4>3. DOMAIN connections' = 1..(Len(connections) + 1)
        BY <4>2, LenProperties
      <4>4. QED
        BY <1>0, <4>2, <4>3
    <3>3. QED
      BY <1>4, <3>1, <3>2 DEF Accept
  <2>3. QED
    BY <1>4, <2>1, <2>2 DEF Accept, Snapshot, EventsReachOwner
<1>5. CASE AcceptNothing
  BY <1>5 DEF AcceptNothing, polled, Snapshot, EventsReachOwner
<1>6. QED
  BY <1>1, <1>2, <1>3, <1>4, <1>5
     DEF Next, Clients, Loop, vars, peers, polled, Connect, Abandon, Event, Expire, Stop,
         ResetStats, Run, PollFails, PollTimesOut, HandleIo, IoDone, SweepOne, SweepDone,
         ReapOne, ReapDone

(* Steps that leave the connections and their states alone keep Clean, if  *)
(* they do not leave the sweep or the removal.                             *)
LEMMA CleanKept ==
  ASSUME Membership, Clean, connections' = connections, i' = i,
         \A c \in Client : phase[c] \in Live => phase'[c] = phase[c],
         pc' = pc \/ {pc, pc'} \subseteq {"stopped", "test", "wait", "accept"}
  PROVE  Clean'
<1>1. \A k \in DOMAIN connections : connections[k] \in Client
  BY ElementOfSeq, LenProperties DEF Membership
<1>2. QED
  BY <1>1 DEF Clean

LEMMA CleanStep ==
  ASSUME Membership, Bounds, Clean, [Next]_vars
  PROVE  Clean'
<1>0. /\ connections \in Seq(Client) /\ Len(connections) \in Nat
      /\ DOMAIN connections = 1..Len(connections)
      /\ \A k \in DOMAIN connections : connections[k] \in Client
      /\ phase \in [Client -> Phase] /\ i \in Nat
  BY ElementOfSeq, LenProperties DEF Membership, Bounds
<1>1. CASE UNCHANGED vars
  BY <1>1, CleanKept DEF vars, peers
<1>2. CASE Clients
  <2>1. /\ \A c \in Client : phase[c] \in Live => phase'[c] = phase[c]
        /\ connections' = connections /\ i' = i /\ pc' = pc
    <3>1. ASSUME NEW k \in DOMAIN backlog, Abandon(k)
          PROVE  \A c \in Client : phase[c] \in Live => phase'[c] = phase[c]
      BY <1>0, <3>1 DEF Abandon, Membership, Queued, Live
    <3>2. ASSUME NEW c \in Client, Connect(c) \/ Event(c) \/ Expire(c)
          PROVE  \A d \in Client : phase[d] \in Live => phase'[d] = phase[d]
      BY <1>0, <3>2 DEF Connect, Event, Expire, Live
    <3>3. connections' = connections /\ i' = i /\ pc' = pc
      BY <1>2 DEF Clients, Connect, Event, Expire, Abandon
    <3>4. QED
      BY <1>2, <3>1, <3>2, <3>3 DEF Clients
  <2>2. QED
    BY <2>1, CleanKept
<1>3. CASE Stop \/ ResetStats \/ Run \/ BuildPollSet \/ PollReturns \/ PollTimesOut \/ PollFails
  <2>1. /\ connections' = connections /\ i' = i /\ phase' = phase
        /\ pc' = pc \/ {pc, pc'} \subseteq {"stopped", "test", "wait", "accept"}
    BY <1>3 DEF Stop, ResetStats, Run, BuildPollSet, PollReturns, PollTimesOut, PollFails, peers
  <2>2. QED
    BY <2>1, CleanKept
<1>4. CASE pc' \in {"io", "sweep"}
  BY <1>4 DEF Clean
<1>5. CASE SweepDone
  BY <1>0, <1>5 DEF SweepDone, Clean
<1>6. CASE ReapOne
  <2>1. pc = "reap" /\ pc' = "reap" /\ i \in 1..Len(connections)
    BY <1>0, <1>6 DEF ReapOne, Bounds
  <2>2. CASE phase[connections[i]] = "Closed"
    <3>1. /\ connections' = SubSeq([connections EXCEPT ![i] = connections[Len(connections)]],
                                   1, Len(connections) - 1)
          /\ phase' = [phase EXCEPT ![connections[i]] = "gone"] /\ i' = i
      BY <1>6, <2>2 DEF ReapOne, Forget
    <3>2. /\ connections' \in Seq(Client) /\ Len(connections') = Len(connections) - 1
          /\ \A j \in 1..Len(connections') : connections'[j] =
                IF j = i THEN connections[Len(connections)] ELSE connections[j]
      BY <1>0, <2>1, <3>1, Swapped
    <3>3. DOMAIN connections' = 1..(Len(connections) - 1)
      BY <1>0, <3>2, LenProperties
    <3>4. ASSUME NEW k \in DOMAIN connections', k < i
          PROVE  phase'[connections'[k]] \in Live
      <4>1. k \in DOMAIN connections /\ connections'[k] = connections[k] /\ k # i
        BY <1>0, <2>1, <3>2, <3>3, <3>4
      <4>2. connections[k] # connections[i] /\ phase[connections[k]] \in Live
        BY <1>0, <2>1, <3>4, <4>1 DEF Clean, Membership, Registered
      <4>3. QED
        BY <1>0, <3>1, <4>1, <4>2
    <3>5. QED
      BY <2>1, <3>1, <3>4 DEF Clean
  <2>3. CASE phase[connections[i]] # "Closed"
    <3>1. connections' = connections /\ phase' = phase /\ i' = i + 1
      BY <1>6, <2>3 DEF ReapOne
    <3>2. phase[connections[i]] \in Live
      BY <1>0, <2>1, <2>3 DEF Membership, Registered, InService
    <3>3. \A k \in DOMAIN connections : k < i + 1 => k < i \/ k = i
      BY <1>0
    <3>4. QED
      BY <2>1, <3>1, <3>2, <3>3 DEF Clean
  <2>4. QED
    BY <2>2, <2>3
<1>7. CASE ReapDone
  <2>1. /\ pc = "reap" /\ pc' = "test" /\ connections' = connections /\ phase' = phase
        /\ i > Len(connections)
    BY <1>7 DEF ReapDone, peers
  <2>2. \A k \in DOMAIN connections : k < i
    BY <1>0, <2>1
  <2>3. QED
    BY <2>1, <2>2 DEF Clean
<1>8. QED
  BY <1>1, <1>2, <1>3, <1>4, <1>5, <1>6, <1>7
     DEF Next, Loop, Accept, AcceptNothing, HandleIo, IoDone, SweepOne

LEMMA ProgressInvariant == Spec => []Progress
<1>1. Init => Progress
  <2>1. ASSUME Init
        PROVE  Progress
    <3>1. /\ <<>> \in Seq(Client) /\ Len(<<>>) = 0 /\ DOMAIN <<>> = {}
      BY EmptySeq
    <3>2. Membership
      BY <2>1, <3>1 DEF Init, Membership, Queued, Registered, Phase, InService, Live
    <3>3. Shape
      <4>1. running \in BOOLEAN /\ listener \in BOOLEAN
        BY <2>1, Zenon DEF Init
      <4>2. QED
        BY <2>1, <4>1, ServerAssumption DEF Init, Shape
    <3>4. Bounds /\ Snapshot /\ Clean
      BY <2>1, <3>1, ServerAssumption DEF Init, Bounds, Snapshot, Clean, EventsReachOwner
    <3>5. QED
      BY <3>2, <3>3, <3>4 DEF Progress
  <2>2. QED
    BY <2>1
<1>2. Progress /\ [Next]_vars => Progress'
  <2>1. ASSUME Progress, [Next]_vars
        PROVE  Progress'
    <3>1. i \in Nat \ {0}
      BY <2>1, ServerAssumption DEF Progress, Bounds
    <3>2. QED
      BY <2>1, <3>1, MembershipStep, ShapeStep, BoundsStep, SnapshotStep, CleanStep
         DEF Progress
  <2>2. QED
    BY <2>1
<1>3. QED
  BY <1>1, <1>2, PTL DEF Spec

(* The variables of the reactor keep their types: above all, connections_  *)
(* and poll_fds_ never outgrow their arrays, and the loops of run() never  *)
(* run past them.                                                          *)
THEOREM ServerTypes == Spec => []TypeOK
<1>1. Progress => TypeOK
  BY DEF Progress, Membership, Phase, Shape, Bounds, TypeOK
<1>2. QED
  BY <1>1, ProgressInvariant, PTL

(* Whatever is accepted and closed between the poll and the dispatch, the  *)
(* I/O loop of run() hands poll_fds_[i] to the connection it was filled    *)
(* from, for any number of clients and places.                             *)
THEOREM DispatchIsRight == Spec => []EventsReachOwner
<1>1. Progress => EventsReachOwner
  BY DEF Progress, Snapshot
<1>2. QED
  BY <1>1, ProgressInvariant, PTL

(* accept_connection and the swap-and-pop of remove_closed_connections     *)
(* keep every accepted client exactly once until it is dropped.            *)
THEOREM NothingLostOrTwice == Spec => []ConnectionsExact
<1>1. Progress => ConnectionsExact
  BY ElementOfSeq, LenProperties DEF Progress, Membership, Registered, InService, ConnectionsExact
<1>2. QED
  BY <1>1, ProgressInvariant, PTL

(* poll is never given the descriptor of a connection that has closed it,  *)
(* after any sequence of callbacks, timeouts and removals.                 *)
THEOREM PollsOnlyLive == Spec => []NothingClosedPolled
<1>1. Progress => NothingClosedPolled
  BY DEF Progress, Snapshot, Clean, NothingClosedPolled
<1>2. QED
  BY <1>1, ProgressInvariant, PTL

-----------------------------------------------------------------------------
(* stats_.active_connections, when run() is entered once and nobody calls  *)
(* reset_stats(): until the one reset there are no connections.            *)
Counted ==
  /\ resets = 0 => pc = "stopped" /\ connections = <<>>
  /\ CounterExact

LEMMA CountedStep ==
  ASSUME MaxResets <= 1, Progress, Counted, [Next]_vars
  PROVE  Counted'
<1>0. /\ connections \in Seq(Client) /\ Len(connections) \in Nat
      /\ Len(connections) <= Capacity /\ resets \in 0..MaxResets /\ active \in 0..(Wrap - 1)
      /\ i \in 1..(Capacity + 1) /\ dropped \in 0..Capacity
      /\ pc = "reap" => Len(connections) + dropped <= Capacity
  BY LenProperties DEF Progress, Membership, Shape, Bounds
<1>1. CASE UNCHANGED <<connections, active, resets, dropped, pc>>
  BY <1>1 DEF Counted, CounterExact
<1>2. CASE Run \/ ResetStats
  <2>1. resets = 0 /\ resets' = 1 /\ active' = 0 /\ connections' = connections
    BY <1>0, <1>2, ServerAssumption DEF Run, ResetStats
  <2>2. connections = <<>> /\ pc' # "reap"
    BY <1>2, <2>1 DEF Counted, Run, ResetStats
  <2>3. Len(connections') = 0
    BY <2>1, <2>2, EmptySeq
  <2>4. QED
    BY <2>1, <2>2, <2>3 DEF Counted, CounterExact
<1>3. CASE /\ UNCHANGED <<connections, active, resets>> /\ pc # "stopped"
           /\ pc # "reap" /\ pc' # "reap"
  BY <1>3 DEF Counted, CounterExact
<1>4. CASE Accept
  <2>1. pc = "accept" /\ pc' = "io" /\ resets' = resets /\ dropped' = dropped
    BY <1>4 DEF Accept
  <2>2. CASE UNCHANGED <<connections, active>>
    BY <1>3, <2>1, <2>2
  <2>3. CASE /\ connections' = Append(connections, Head(backlog))
             /\ Len(connections) < Capacity /\ active' = (active + 1) % Wrap
    <3>1. Len(connections') = Len(connections) + 1
      BY <1>0, <1>4, <2>3, AppendProperties, HeadTailProperties
         DEF Accept, Progress, Membership
    <3>2. active = Len(connections)
      BY <2>1 DEF Counted, CounterExact
    <3>3. active + 1 \in Int /\ active + 1 \in 0..(Wrap - 1) /\ Wrap \in Nat \ {0}
      BY <1>0, <2>3, <3>2, ServerAssumption
    <3>4. (active + 1) % Wrap = active + 1
      BY <3>3, Modulo
    <3>5. active' = Len(connections')
      BY <2>3, <3>1, <3>2, <3>4, Zenon
    <3>6. QED
      BY <2>1, <3>5 DEF Counted, CounterExact
  <2>4. QED
    BY <1>4, <2>2, <2>3 DEF Accept
<1>5. CASE SweepDone
  <2>1. /\ pc = "sweep" /\ pc' = "reap" /\ dropped' = 0
        /\ UNCHANGED <<connections, active, resets>>
    BY <1>5 DEF SweepDone
  <2>2. active = Len(connections)
    BY <2>1 DEF Counted, CounterExact
  <2>3. QED
    BY <1>0, <2>1, <2>2 DEF Counted, CounterExact
<1>6. CASE ReapOne
  <2>1. pc = "reap" /\ pc' = "reap" /\ i \in 1..Len(connections) /\ UNCHANGED <<active, resets>>
    BY <1>0, <1>6 DEF ReapOne
  <2>2. CASE phase[connections[i]] = "Closed"
    <3>1. /\ connections' = SubSeq([connections EXCEPT ![i] = connections[Len(connections)]],
                                   1, Len(connections) - 1)
          /\ dropped' = dropped + 1
      BY <1>6, <2>2 DEF ReapOne
    <3>2. Len(connections') = Len(connections) - 1
      BY <1>0, <2>1, <3>1, Swapped
    <3>3. active = Len(connections) + dropped /\ resets # 0
      BY <2>1 DEF Counted, CounterExact
    <3>4. active' = Len(connections') + dropped'
      <4>1. dropped' = dropped + 1 /\ active' = active
        BY <2>1, <3>1, Zenon
      <4>2. QED
        BY <1>0, <3>2, <3>3, <4>1
    <3>5. QED
      BY <2>1, <3>3, <3>4 DEF Counted, CounterExact
  <2>3. CASE phase[connections[i]] # "Closed"
    BY <1>1, <1>6, <2>1, <2>3 DEF ReapOne
  <2>4. QED
    BY <2>2, <2>3
<1>7. CASE ReapDone
  <2>1. /\ pc = "reap" /\ pc' = "test" /\ active' = (active - dropped) % Wrap
        /\ UNCHANGED <<connections, resets>>
    BY <1>7 DEF ReapDone
  <2>2. active - dropped = Len(connections)
    BY <1>0, <2>1 DEF Counted, CounterExact
  <2>3. Len(connections) \in Int /\ Len(connections) \in 0..(Wrap - 1) /\ Wrap \in Nat \ {0}
    BY <1>0, ServerAssumption
  <2>4. Len(connections) % Wrap = Len(connections)
    BY <2>3, Modulo
  <2>5. active' = Len(connections)
    BY <2>1, <2>2, <2>4, Zenon
  <2>6. QED
    BY <2>1, <2>5 DEF Counted, CounterExact
<1>8. QED
  BY <1>1, <1>2, <1>3, <1>4, <1>5, <1>6, <1>7
     DEF Next, Clients, Loop, vars, Connect, Abandon, Event, Expire, Stop, PollFails,
         BuildPollSet, PollReturns, PollTimesOut, AcceptNothing, HandleIo, IoDone, SweepOne

LEMMA CountedInvariant ==
  ASSUME MaxResets <= 1
  PROVE  Spec => []Counted
<1>1. Init => Counted
  <2>1. Len(<<>>) = 0
    BY EmptySeq
  <2>2. QED
    BY <2>1 DEF Init, Counted, CounterExact
<1>2. Progress /\ Counted /\ [Next]_vars => Counted'
  BY CountedStep
<1>3. QED
  BY <1>1, <1>2, ProgressInvariant, PTL DEF Spec

(* A server whose counters are reset by run() only, and that runs once,    *)
(* counts its connections exactly: the counter never drifts from           *)
(* connections_.size(), whatever is accepted and removed.                  *)
THEOREM CounterFollows ==
  ASSUME MaxResets <= 1
  PROVE  Spec => []CounterExact
<1>1. Counted => CounterExact
  BY DEF Counted
<1>2. QED
  BY <1>1, CountedInvariant, PTL

(* Such a server turns a client away only when more than 90 percent of its *)
(* places are taken.  The run server_reset shows that one more reset is    *)
(* enough to break it.                                                     *)
THEOREM OnlyFullServersReject ==
  ASSUME MaxResets <= 1
  PROVE  Spec => RejectsOnlyWhenFull
<1> DEFINE Justified ==
             \A c \in Client : phase[c] = "pending" /\ phase'[c] = "gone"
               => Len(connections) > (MaxConnections * 9) \div 10
<1>1. Progress /\ Counted /\ [Next]_vars => [Justified]_vars
  <2>1. ASSUME Progress, Counted, Next, NEW c \in Client,
               phase[c] = "pending", phase'[c] = "gone"
        PROVE  Len(connections) > (MaxConnections * 9) \div 10
    <3>1. CASE Accept
      <4>1. pc = "accept" /\ is_overloaded
        BY <2>1, <3>1 DEF Accept, Progress, Membership
      <4>2. active = Len(connections)
        BY <2>1, <4>1 DEF Counted, CounterExact
      <4>3. QED
        BY <4>1, <4>2 DEF is_overloaded
    <3>2. CASE UNCHANGED phase
      BY <2>1, <3>2
    <3>3. ASSUME NEW d \in Client, Connect(d)
          PROVE  FALSE
      BY <2>1, <3>3 DEF Connect, Progress, Membership
    <3>4. ASSUME NEW k \in DOMAIN backlog, Abandon(k)
          PROVE  FALSE
      BY <2>1, <3>4 DEF Abandon, Progress, Membership
    <3>5. ASSUME \E d \in Client, p \in InService : phase[d] \in InService /\ Callbacks(d, p)
          PROVE  FALSE
      BY <2>1, <3>5, CallbacksStay DEF Progress, Membership
    <3>6. CASE HandleIo \/ SweepOne
      <4>1. i \in DOMAIN connections /\ connections[i] \in Client
        BY <2>1, <3>6, ElementOfSeq, LenProperties
           DEF HandleIo, SweepOne, Progress, Membership, Bounds
      <4>2. phase[connections[i]] \in InService
        BY <2>1, <4>1 DEF Progress, Membership, Registered
      <4>3. "Closed" \in InService /\ Handled(phase[connections[i]]) \subseteq InService
        BY DEF Handled, Rank, InService, Live
      <4>4. QED
        BY <3>2, <3>5, <3>6, <4>1, <4>2, <4>3 DEF HandleIo, SweepOne
    <3>7. CASE ReapOne
      <4>1. i \in DOMAIN connections /\ connections[i] \in Client
        BY <2>1, <3>7, ElementOfSeq, LenProperties
           DEF ReapOne, Progress, Membership, Bounds
      <4>2. phase[connections[i]] \in InService
        BY <2>1, <4>1 DEF Progress, Membership, Registered
      <4>3. connections[i] # c
        BY <2>1, <4>2 DEF InService, Live
      <4>4. QED
        BY <2>1, <3>2, <3>7, <4>1, <4>3 DEF ReapOne, Forget, Progress, Membership
    <3>8. QED
      BY <2>1, <3>1, <3>2, <3>3, <3>4, <3>6, <3>7
         DEF Next, Clients, Loop, peers, Event, Expire, Stop, ResetStats, Run, PollFails,
             BuildPollSet, PollReturns, PollTimesOut, AcceptNothing, IoDone, SweepDone, ReapDone
  <2>2. QED
    BY <2>1
<1>2. QED
  BY <1>1, ProgressInvariant, CountedInvariant, PTL DEF Spec, RejectsOnlyWhenFull

=============================================================================
