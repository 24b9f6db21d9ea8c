# A TLA+ development for ewss

ewss is a single-header WebSocket server (`include/ewss.hpp`): one thread, one
`poll` loop, fixed-size buffers, callbacks into the application. This directory
models the reactor, the connection, the buffers, the frame codec and the small
parts around them, and two of the example programs; checks them with TLC; and
proves the main results with TLAPS.

All line numbers refer to `include/ewss.hpp` unless another file is named.

## 1. The system

| Component | State | Operations | Works with |
|---|---|---|---|
| `RingBuffer<N>` (796-900) | array, `read_idx_`, `write_idx_`, `count_` | `push`, `peek`, `advance`, `clear`, `view`, `fill_iovec`, `fill_iovec_write`, `commit_write`, `read_ptr` | the two buffers of a connection; `readv`/`writev` read and write the array in place |
| `Connection` (932-1034, 1220-1520) | `ops_` (state), socket, `rx_buffer_`, `tx_buffer_`, `write_paused_`, timestamps, last error | `handle_read`, `handle_write(_vectored)`, `send`, `close`, `is_closed`, the timeout tests | called by the server; calls the application, which calls back |
| `StateOps` tables (921-926, 1127-1211) | constant | `on_data`, `on_send`, `on_close` per state | `handle_read` calls `on_data`; nothing calls the other two |
| `Server` (1065-1117, 1526-1708) | `connections_`, `poll_fds_`, `is_running_`, `stats_` | `run`, `stop`, `accept_connection`, `handle_connection_io`, `remove_closed_connections`, `reset_stats` | owns the connections |
| `ServerStats` (760-790) | counters | increments, `reset`, `is_overloaded` | the accept path trusts `active_connections` |
| Frame codec `ws::` (632-705) | none | `parse_frame_header`, `encode_frame`, `encode_frame_header` | the parser and the writer |
| `ObjectPool` (713-754) | free list and its count, active flags | `acquire`, `release`, `reset` | not used by the rest of the library |
| `SHA1`, `Base64` (478-624) | block buffer, byte count | `update`, `finalize`; `encode`, `decode` | the handshake's accept key |
| Vocabulary types (124-472) | raw storage with a size or a flag | `expected`, `optional`, `FixedVector`, `FixedString`, `FixedFunction`, `function_ref`, `ScopeGuard` | everywhere; `connections_` is a `FixedVector` |
| `TcpTuning`, `TlsConfig` (1040-1059) | configuration | socket options; no TLS code exists | `accept_connection` |
| `examples/broadcast_server.cpp` | a list of weak pointers | `on_connect`, `on_message`, `on_close` | an application: what it may rely on is the callback contract |
| `examples/benchmark_echo.cpp` | a thread for `run()`, a thread per client, `ready_count`, `go` | connect, handshake, barrier, messages, joins, `stop` | the only program here with threads; has a frame codec of its own |
| `examples/echo_server.cpp`, `examples/perf_server.cpp` | none; counters | callbacks | applications |

**What is hard here.** The library has one thread, but it is not sequential in any
useful sense: it calls the application in the middle of the parser, of
`send`, of `close` and of `handle_write`, and the application may call `send`
and `close` on the same or on another connection from there. Bytes arrive split
at any position. Both buffers run full; a frame may exceed them. Reads, writes,
hang-ups, timeouts, the peer's Close and the application's `close` meet in one
pass of the loop. `poll_fds_` is a snapshot of `connections_` that is used after
clients were accepted and connections closed. `active_connections` is a second
copy of a size. Objects live in raw bytes beside a flag that must be kept true by
hand. The benchmark has a barrier that every thread must reach, and a `stop()`
from another thread. The list is in `PROJECT.json` under `hazards`.

**What makes each part correct.**

* *RingBuffer*: it is a bounded FIFO queue of bytes, wherever its indices are;
  `readv` is never offered a slot that holds an unread byte.
* *Connection*: the state machine only advances; a descriptor is given back
  exactly when the connection is Closed; an I/O error never leaves it in
  service; backpressure always ends; callbacks come in the promised order, and
  calls from inside them do not recurse without end (only `on_close` can be entered
  while it runs, once); nothing follows the Close frame but pongs; a dead peer is
  noticed; every complete frame is parsed.
* *Server*: events go to the connection they were polled for; no connection is
  lost, duplicated or polled after it was closed; clients are turned away only
  by a full server; every client is answered; timeouts are enforced; `stop` stops.
* *Frame codec*: what one side encodes the other decodes, for every form of the
  length and wherever the stream is cut, as far as the buffers go: a frame that
  `rx_buffer_` cannot hold ends the connection, an echo that `tx_buffer_` cannot
  hold is dropped or torn; the two codecs of the repository agree.
* *ObjectPool*: the free list and the flags describe the same slots, whatever is
  released; a slot has one owner.
* *Storage types*: every object is constructed and destroyed exactly once; a
  cleanup runs once or is released.
* *SHA1, Base64*: the bytes compressed are the padded message; decoding undoes
  encoding.
* *broadcast_server*: its list is the connections in service, and a message
  reaches all of them that are open and have room.
* *benchmark_echo*: nothing is measured before all are ready, everything is
  counted, and the program ends.

## 2. Modules

| Module | Models |
|---|---|
| `ByteQueue` | abstract: the bounded FIFO queue a ring buffer promises to be |
| `RingBuffer` | the array, both indices, the count; one action per member function |
| `CallbackContract` | abstract: which callback may start when, and inside which other one |
| `Connection` | one connection, its peer, the reactor's pass over it, the application |
| `Server` | the reactor loop over all connections |
| `BroadcastServer` | the callbacks of the example, over connections that do whatever `CallbackContract` allows |
| `Benchmark` | the threads of the benchmark over a server reduced to accept, answer, remove |
| `FrameCodec`, `Wire` | header encoding and parsing; a client, byte streams, the bounded buffers, the parser, the echo and the client's decoder |
| `ObjectPool` | free list, flags, several users |
| `Lifetimes` | the types that manage raw storage |
| `Sha1`, `Base64` | block buffering and padding; both codec directions |
| `RingBufferProofs`, `ConnectionProofs`, `ParserProofs`, `ServerProofs`, `BroadcastServerProofs`, `BenchmarkProofs`, `StorageProofs` (pool and lifetimes), `CodecProofs` (frames, SHA1, Base64) | the theorems |
| `MC*` | the instances for TLC; `MCParts` has the parts that share no state, one of them per behaviour |

**RingBuffer.** `buffer`, `read_idx`, `write_idx`, `count` are the members; `ret`
is the last call with its arguments and its result, so that the refinement
compares what went in as well as what came out. `Content`, the unread bytes in order, is the
refinement mapping to `ByteQueue`. `Receive` is `fill_iovec_write`, the kernel's
`readv` and `commit_write` in one step, because nothing can run between them.
The kernel's side of an iovec (`Scattered`, `Gathered`) is external code.

**Connection.** A library function runs to completion except where it calls the
application. So the state has a stack of callbacks in progress (`callbacks`),
what `handle_read`/`handle_write` still has to do below it (`io`), and what the
reactor still has to do in its pass (`todo`: the connections before this one, the
read, write and hang-up parts of `handle_connection_io`, the timeout sweep, the
removal). Any callback on the stack may call `send` or `close`; between two
stages the application may call them from another connection's callback.
Entering a callback and returning from it are two actions, and what the library
does after the call is part of the return: the parser consumes the frame *after*
`on_message` (`ReturnMessage`), the socket is closed *after* `on_close`
(`ReturnClosed`), a peer's Close leads to a second `on_close` (`ReturnCloseFrame`).
Buffers are byte counts: `inbox` is the list of requests and frames the peer has
sent, of which the first `rxLen` bytes are in `rx_buffer_` and the last `netLen`
in the kernel; reads take any number of them. `late` says that 5 s have passed
since the connection was created or began Closing. A failed, incomplete or
malformed handshake changes nothing, as in the code: `handle_read` drops
what `on_data` returns.

**Server.** One action per step of the loop between two points that others can
observe. A connection is its state only: `HandleIo` may move it forward in any
way `Connection` allows (the state only advances there: theorem `NeverGoesBack`),
and its callbacks may close any other connections, once or twice. Counters are
modulo `Wrap`.

**CallbackContract** is the promise to the application; `Connection` is shown to
implement it, by TLC on a small instance and by TLAPS for all. `BroadcastServer`
composes the other way: an instance of the contract per client produces the
callbacks, and the callback that starts is what the example does in it. So what
is checked of the example holds with any library that keeps the contract.
`broadcast_list` counts the entries of each connection: the order of the vector only
decides in which order `send` is called. `Remaining` is the erase loop of `on_close`,
which removes the entries of this connection and every expired one; `Reached` is whom
`lock()` and `send()` reach.

**Benchmark.** A client and its connection take turns, so what is on the wire is
one request or one answer. A connection may fail at any time (`ConnectFails`,
`Break`), and one that is over the 90 percent rule is accepted and closed at once.
`ready_count` and `go` are atomics, one step per access; `go` is stored with release
and loaded with acquire, and no property compares it with another atomic.

**FrameCodec and Wire.** Bytes are digits of radix `2 * Half` and `size_t` wraps at
`SizeWrap`. `Wire` has a client that masks with its own encoder
(`BenchClient::send_masked`), one that uses `encode_frame`, streams that are cut
anywhere in both directions, and the client's decoder (`recv_frame`). Both buffers are
bounded, by `RxCap` and `TxCap` (4096 and 8192 in the code). A read takes what
there is room for, and the parser then runs until nothing more can be parsed; when
`rx_buffer_` is full and holds no whole frame, `handle_read` fails and the server closes
(`RxFull`, `close`): a Close frame first, the socket the next time. So no frame with the
long form of the length is ever delivered, and `docs/design_zh.md:510` says so: larger
messages have to be split. The echo goes through `write_frame` (`Pushed`): without room for
the header it is dropped, and with room for the header only the header is written; `torn`
says that this has happened, and `written` are the echoes that were written whole before.
A frame may be held back by `tx_buffer_` for any time, so the client may find no echo for
a frame at all. Masking is the bitwise exclusive or in the runs; the specification takes
it as a parameter `Xor` of which it assumes that it maps bytes to bytes and undoes itself.

**ObjectPool.** `held` and `misused` are history: who acquired what, and whether
somebody released what another one holds, which `release` cannot tell.

**Lifetimes.** A slot of storage is raw, holds a value, holds an object that was moved from, or
is broken: constructed over or destroyed twice. `optional` and `expected` take the
same steps and are one variable, `box`.

**Sha1, Base64.** The compression function is opaque: `hashed` records what it is
given. In `Base64` a character is its position in the alphabet and the shifts are the
code's own numbers, 8 bits a byte and 6 a character.

`PROJECT.json` maps each definition to its lines. Definitions marked *Mutant* are
plausible bugs; each property is violated when its mutant takes the place of the
code.

## 3. Runs

| Run | Instance | Shows |
|---|---|---|
| `ring` | 4 bytes, byte strings of at most 5 of 2 letters | types, index agreement, iovec partition, refinement of `ByteQueue` |
| `connection` | rx 4, tx 8, peek 3, three items from the peer, three calls of the application, any peer | the safety properties and the refinement of `CallbackContract` |
| `connection_live` | one call, a peer that waits for the 101, over-long requests and frames | `DeadPeerRemoved`, `BackpressureEnds`, `FramesConsumed`, `NoFrameLeftBehind` |
| `connection_torn` | as `connection` | **violated**: every frame in `tx_buffer_` is whole |
| `connection_closes` | as `connection` | **violated**: one `on_close` per connection that opened |
| `server` | 4 clients, 3 places | dispatch, swap-and-pop, counter, rejection |
| `server_live` | 3 clients, 1 place | `PendingServed`, `StopEndsRun`, `TimeoutsEnforcedWhenBusy` |
| `server_timeout` | one place | **violated**: a handshake that takes too long is ended |
| `server_reset` | two resets | **violated**: only a full server turns clients away |
| `parts` | see below | pool, lifetimes, frames on the wire, padding, Base64 |
| `broadcast` | 3 connections, 2 messages | `ListIsInService`, `AudienceReached` |
| `benchmark` | 1 to 4 clients, 0 to 2 messages each, 3 places, one failure | the barrier, the count, rejection, termination |

**Bounds, and why they are enough.** A ring of 4 bytes has every relation of the
two indices, with content that ends before, at and after the end of the array;
strings one longer than the buffer reach the failing push. For a connection the
sizes keep the order of the real constants and make them collide within a few
steps: a request of 2 bytes fits the peek of 3, one of 4 does not; frames of 2
and 3 bytes leave `rx_buffer_` of 4 full with an incomplete frame, one of 11 never
fits; a response of 2 and messages of 2+4 bytes cross the high watermark (6 of 8)
and leave no room for the next frame, for its payload or for a Close. Three items
are a request and two frames, so that the second frame is buffered while the
first one's callback runs. Three calls let the application send into backpressure and
close twice from within each other's callbacks, which is the deepest stack there is; the
theorems below remove this bound for every property of the run. Four clients
at three places give swap-and-pop a hole in front, in the middle and at the end,
with a fourth client being accepted while the dispatch runs. `Wrap` only has to
exceed the number of places. The number of resets is 1 where the counter must be exact
(the one in `run`) and 2 where it is shown not to be.

In `parts`, a byte is below 8 and its seven bits are two: payloads of 1, 2, 63
and 64 bytes stand for 125, 126, 65535 and 65536, the last and first of every form of the
length, and a length field of 3 bytes for the one of 8. `rx_buffer_` has 12 bytes: a
masked frame of 4 bytes fills it exactly, one of 5 fits only without a mask, and 63 and 64
are announced and never fit. `tx_buffer_` has 10: an echo of 4 bytes takes 8 and leaves
room for a whole empty frame, or for a header without its payload, and an echo of 5
leaves room for neither, so that whole, dropped and torn echoes follow each other in every
order. Three frames are in flight. Pools have 3 slots and 2 users, and
numbers from -1 to 3 are released. Vectors hold 3 elements of 2 values, and there
are two variables of each type, so that each is copied and moved to the other.
`Sha1` has the real block of 64 bytes with a count of 8, and messages of 0 to 130
bytes: all paddings of two blocks. `Base64` has four bytes whose bits fall differently
on both sides of each 6-bit boundary, and texts of up to 7 bytes: all three endings
after no and one whole group, and the first after two.

Three connections in `broadcast` make entries before, at and after the one that is
removed; two messages make an earlier broadcast tell from a later one. In
`benchmark` 90 percent of 3 places is 2, so the third client is the last to be
accepted while nobody has left, and the fourth is rejected; one failure is the
least that makes the barrier unreachable.

Symmetry among clients is used in the safety run of the server and in `broadcast`,
which has no liveness property. `CHECK_DEADLOCK FALSE` is set for the server and
the benchmark, which end (or wait for ever at the barrier, see `Ends`), for
`broadcast`, where every connection is dropped in the end, and for `parts`, whose
inputs are bounded; a connection that has been removed stutters explicitly
(`Gone`).

**Fairness.** `ReactorFairness`: the loop is a single thread, so its next step, a
return from a callback and a `poll` with something readable do happen (weak
fairness); this takes callbacks that return. No fairness is assumed of a `poll`
that has nothing to report, nor of any step of the peer, the application or the
clock. `PeerReads`, strong fairness of writability and of a write that takes a
byte, is what "the peer keeps reading" means; only `BackpressureEnds` needs it.
`FairSpec` of the server is weak fairness of the loop. `Fairness` of the benchmark
is weak fairness of each thread, which the system's scheduler gives, and of what
the server's loop looks at on each of its turns: the listening socket, every
connection, `is_running_`. None is assumed of failures.

## 4. Disagreements found

With a run that shows them:

1. `write_frame` (1478) and `write_close_frame` (1486) leave a header without
   payload in `tx_buffer_` when only the header fits; the stream is then
   misaligned for the peer.
2. A peer's Close makes the library call `on_close` twice (1461, 1351);
   `examples/perf_server.cpp` counts connections down in it, below zero.
3. A `poll` that times out skips the timeout sweep (1587): on a quiet server
   neither timeout of `docs/design_zh.md` is enforced.
4. `active_connections` is reset independently of `connections_` and wraps
   (1682): from then on an empty server turns everyone away.

Met while reading, without a run of their own:

* `view()` (834) does not wrap: it spans slots past the end of the array once
  the content does. Only a test calls it.
* `parse_frames` (1432) goes on delivering messages after a callback has closed
  the connection; `CallbackContract` allows it.
* `close()` in Closing closes at once, where `docs/design_zh.md:214` has a no-op
  (the table entry `closing_on_close` is never called).
* `on_close` can be entered while it runs: a handler that calls `close()` when a peer's
  Close comes in on a connection that is Closing already (1461) gets the second call
  (1329, 1351) inside the first. `ReentryBounded` says that this is the only case.
* A peer's Close is not answered with a Close.
* A malformed handshake is never reported and waits for a timeout.
* The limit in `accept_connection` is reached only for a maximum of 72 or more.
* A `stop()` that comes before `run()` is lost. In the benchmark it cannot come
  that early with at least one client (`Ends`); with none, only a sleep of 100 ms
  orders the two.
* `writev` is called without protection against SIGPIPE.
* `encode_frame` with `mask = true` sets the bit and writes no key. Nothing calls it so.
* A client of the benchmark that fails before the barrier leaves `main` and the
  other clients waiting for ever: `Ends` names this exception.
* A message of the benchmark that `rx_buffer_` cannot hold makes the server close the
  connection (1238, 1659), and the client takes the Close frame, or the end of the
  stream, for its answer; `Benchmark` has payloads that fit, and `Wire` the others.

## 5. Proofs

Every statement below is checked by `tlapm` to the last leaf, from the
assumptions on the constants only (`RingAssumption`, `ConnectionAssumption`,
`ServerAssumption`, `BroadcastAssumption`, `BenchmarkAssumption`, `PoolAssumption`,
`LifetimesAssumption`, `CodecAssumption`, `WireAssumption`, `Sha1Assumption`,
`Base64Assumption`), and for the counter of the server from the hypothesis that is
stated in the theorem. Together they state every invariant and every action property
and refinement that the passing runs check.

**RingBuffer, for every capacity and byte set.** The inductive invariant is
`TypeOK /\ IndicesAgree`, with `IndicesAgree`: `write_idx = (read_idx + count) %
Capacity`. Types alone are not inductive for anything of interest, since where the next
byte goes depends on all three members. `WrapOnce` and `BorrowOnce` reduce every
remainder to a case distinction; `ScatteredIsStored` shows that two iovecs filled
by the kernel are the same as a byte-by-byte push; `StoredAppends`,
`AdvanceDrops` and `GatheredIsPrefix` say what this means for `Content`;
`StepSimulates` puts them together. Results: `TypeCorrect`, `IndicesAlwaysAgree`,
`ZeroCopySafe` (the slots offered to `readv` and those exposed to `writev`
partition the array), `RingRefinesQueue`.

**Connection, for all buffer sizes, sets of frames and numbers of calls.** In
layers, each using the one before:

1. `Schedule /\ Control`: removal comes last in a pass; the socket is closed only
   in Closed, and a Closed connection whose socket is open is inside its
   `on_close`; a dropped connection is Closed and at rest; frames are parsed only
   past the handshake; after an error the connection is Closing or Closed. It is
   inductive by itself. Results: `SocketFollowsState`, `ErrorsClose`.
2. Under it each step is a step of `CallbackContract` or a stutter
   (`StepKeepsContract`). Results: `ContractKept`, `NeverGoesBack`.
3. Along the contract's steps, `Stack`: four of the callbacks are only ever
   outermost, `on_backpressure` on the stack implies `write_paused_`, `on_closed`
   implies Closed. Result: `RecursionIsBounded`: a stack has one outermost callback and
   each of the other two at most once. `on_closed` and the outermost `on_close_frame`
   are the same handler of the application, the one that can be entered twice.
4. `Received` and `Transmitted`: while `on_message` runs its frame is still in
   `rx_buffer_` (this needs layer 3), nothing is in `tx_buffer_` before the
   handshake is done, a Close frame was written only on the way to Closing.
   Results: `ConnectionTypes` (no buffer over- or underflows), `PauseCanEnd`,
   `CloseFrameEndsMessages`.

**The parser (`ParserProofs`), on top of these layers.** `NoFrameLeftBehind`
speaks of a sum: the bytes in `rx_buffer_` and in the kernel are those of the
items in `inbox`. What a recursive sum computes cannot be proved here, so `Stream`
says that there is *some* function of item ends that grows by the size of each item and
reaches as far as the bytes do; adding and dropping an item give the next such
function. With `Waits` (a waiting peer has sent one item at most before the 101),
`Looping` (`on_message` runs inside the parser's loop) and `Parsed` (outside of the
loop no complete frame is buffered) this is inductive. Result: `EveryFrameParsed`.

**Server, for any number of clients and places.** `Progress` is the conjunction of
`Membership` (backlog and `connections_` have no repetitions and are the clients of
the right phases), `Shape` and `Bounds` (types and sizes), `Snapshot` (`poll_fds_` is
a prefix of `connections_` until the I/O loop is over, since accepting only appends
and nothing is removed) and `Clean` (what the removal has passed is live). Each
leans on `Membership`: swap-and-pop moves the last connection, and only because
no connection is there twice is none lost. Results: `ServerTypes`,
`DispatchIsRight`, `NothingLostOrTwice`, `PollsOnlyLive`. `Counted` adds that before
the first reset there is no connection; with at most one reset (`MaxResets <= 1`)
it gives `CounterFollows` and `OnlyFullServersReject`. The run `server_reset` shows
that the hypothesis is needed.

**BroadcastServer, for every set of connections, over any library that keeps the
contract.** `ListIsInService` speaks of the moments between callbacks only and is not
inductive: within the `on_close` for a peer's Close the entry is already gone while the
phase is still Open. `Exact` says what the list is in every state, with `Leaving` for
that callback on the stack; a second `on_close` and a connection that closes without
having opened then remove nothing that is there. `AudienceReached` follows step by
step, since the list has every open connection whenever a message arrives: `on_message`
starts only when no other callback runs. Results:
`ListExact`, `EveryOpenConnectionHears`.

**Benchmark, for any number of clients, messages, places and failures.** Two
counters are the sizes of sets: `ready_count` of the clients past the handshake
(`Barrier`), the server's count of those it holds (`Accounts`). When `ready_count`
reaches `num_clients` the set is all of them; when a connection is rejected, more than
90 percent of the places are held by others. For the result, `Steady` says that a
client is done only when it has measured everything, or a connection broke; this needs
that the server closes only sockets whose client has hung up, and those it never
answers. `Tally` then has the total as `joined * msgs_per_client`, so no sum over
threads is needed. Results: `BarrierHolds`, `NobodyRejectedBelowLimit`,
`ResultIsComplete`.

**ObjectPool, for every size and all users.** `PoolTypeOK /\ PoolExact` is inductive:
that `release` never writes past `free_list_` is a pigeonhole argument
(`RoomForActive`: while a slot is active the free ones are fewer than all), and needs
the list to be free of repetitions. Results: `FreeListExact`, `SlotsHaveOneOwner`.

**Lifetimes, for every capacity, all values and variables.** `VectorsAre` says of each
vector which sequence it holds, and one lemma per member function what it does to that
sequence; swap-and-pop is their composition. `BoxesAre` is the agreement of flag and
storage together with the fact that nothing is broken. A guard is harder: that a cleanup
never runs twice is not inductive, because it depends on who else has the callable.
`LifeInv` says that a callable is with one function, or with one guard, or has run
(`HeldOnce`), and that what is owed is with an active guard (`OwedHeld`); a moved-from
function has lost its callable, which is why moving a guard keeps this. Results:
`VectorsHold`, `FlagsAgree`, `CleanupsOnce`.

**SHA1's padding, for every message and block size.** `Streamed`: the blocks compressed
so far are a whole number of blocks of the message, and the buffer begins with the rest.
`finalize` needs one block or two; `FinishFits` and `FinishExtra` show for each that what
was compressed is the message, the byte 128, zeros to the next boundary and the count.
Result: `CompressesPaddedMessage`.

**Base64, for every sequence of bytes.** `GroupBack` is the arithmetic of one group,
with one, two or three bytes; `decode` is a recursive function over groups, and
`DecodeEncode` shows by induction on their number that it collects the bytes again.
Results: `DecodeEncode`, `TextComesBack`.

**Frames, for every radix, length field, key, buffer size and number of frames, and every
length for which the size of the frame fits a `size_t`.** The length
comes back (`LengthBack`): after `k` bytes the parser has what the encoder had shifted
out, and nothing wraps because the length is below `SizeWrap`. `ParseIs`: given any
prefix of a stream that starts with an encoded header, `parse_frame_header` reports
"incomplete" or exactly what was encoded. `Framed(s, ps, from, Masks)` says that the
bytes `s` are the frames of the payloads after the first `from` and nothing else, by the
*edges* of the frames (the device of `ParserProofs`): `FramedMore` adds one at the end,
`FramedFirst` takes one off the front. The inductive invariant `WireInv` is then that
`rx_buffer_` followed by the wire is the frames sent and not delivered (`Inbound`), so
that the arrival of bytes changes nothing, and that what goes back is the echoes written
whole and not yet read, followed by bytes of which nothing is claimed, and which there are
only after a torn echo or the Close frame (`Outbound`, `Tailed`). `CanParse` is shown to
be "all of the first frame has arrived" (`AtFront`). That gives both halves of the
property, nothing too early and nothing kept back; and when `rx_buffer_` is full and
nothing can be parsed, the frame at the front is longer than it (`GivenUp`). A
decoder that has lost the boundaries still reads *some* number (`NumberIsNat`,
`HeaderRead`), so that the invariant survives what follows a torn echo.
Results: `FramesArrive`, `EchoesAccepted`.

**Induction over data.** The library's induction theorems take an operator as a
parameter, which the provers cannot instantiate. `SetInduction` in `CodecProofs` is the
same principle for a *set* of numbers, from the least element of the complement
(`LeastNat`). For a recursive function one has to show that some function satisfies
the recursion (`IterationExists`, `Collects`) before the definition, a `CHOOSE`, can be
used; it is unique by the same induction.

**The prover.** tlapm 1.4.5 gives Z3 the axiom `DOMAIN s = 1..n <=> Len(s) = n` for
every value `s`, which is contradictory as soon as a function that is no sequence,
such as one on `0..n`, meets `Len` in one obligation. The proofs therefore state what
they need of such functions in lemmas that do not mention sequences (`Scalars`),
and all eight modules were also checked with that axiom weakened to the implication
from left to right: every obligation is still proved.

**Only model-checked.** The liveness properties, since fairness and `ENABLED` are
outside the prover: `DeadPeerRemoved`, `BackpressureEnds`, `FramesConsumed`,
`PendingServed`, `StopEndsRun`, `TimeoutsEnforcedWhenBusy` and `Ends`.

## 6. Not modelled

* HTTP: a request is an upgrade or it is malformed.
* Payload contents in `Connection`, where a frame is a size and an opcode; the
  contents are those of `RingBuffer` (proved to be a queue) and of `Wire`.
* The compression function of SHA1 and `hex_digest`; test vectors reach them, and
  no interleaving does.
* `FixedString` and `function_ref`, which own nothing.
* A frame whose announced length wraps `size_t` when the header is added (1442):
  `WireAssumption` leaves it out, and nothing is claimed of it.
* The statistics of the benchmark (percentiles, throughput) and its output;
  `echo_server.cpp`, which has no state; `perf_server.cpp`, whose counters are what
  disagreement 2 is about; the rest of it times and prints.
* TCP options, logging, the counters that nothing reads, TLS (not implemented),
  memory allocation, reference counts.
* A data race between `stop()` in another thread and the loop is read as an
  ordinary write.

## 7. What could be added

1. The rate of `late` in `Connection` as a clock, to speak of how long a timeout
   may be overrun on a busy server.
2. What `Server` takes from `Connection` (a connection's state only advances during
   its I/O, and its descriptor is closed with it) as an abstract specification that
   `Connection` is proved to implement, as `CallbackContract` is for the application.
