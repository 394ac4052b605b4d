# A TLA+ verification project for cpong

cpong is a two-player Pong over TCP: a server that pairs the clients that
connect into rooms and runs one authoritative game per room, and a client that
draws the game, predicts it locally and sends its player's input.  This
directory holds TLA+ modules of all of it but the drawing, TLC configurations
that check them on small instances, and TLAPS proofs for every instance.  All
paths below are relative to the root of the repository.

- [Inventory](#inventory): the parts, their state, how they interact, what can
  go wrong
- [The modules and the code](#the-modules-and-the-code)
- [What is checked](#what-is-checked), with bounds and fairness
- [What is proved](#what-is-proved)
- [What the checks found](#what-the-checks-found)
- [What is not modelled](#what-is-not-modelled)
- [Plan](#plan)

## Inventory

### Components

| Part | Code | State it keeps | Operations |
|---|---|---|---|
| Accept loop | `src/lib/server.c` `server_worker`, `handle_connection`, `server_handle_disconnection` | `server_t`: the listening socket, `clients` (a `ts_queue` of `client_t`); one `conn_data` per connection thread | accept, queue the client, print the queue, start a thread per connection; look up and forget a client |
| Matchmaker | `src/lib/matchmaking.c` | `mm_server`: the condition variable, `rooms`; the waiting clients are `server->clients` | wait, take the front of the queue into a room, start its game; signal on a connection; `handle_disband` |
| Thread-safe queue | `src/lib/ts_queue.c` | `head`, `tail`, `size`, the nodes' `prev`, `next`, `data`, a mutex | new, enqueue, dequeue, remove, destroy |
| Game server | `src/server/main.c`, `src/server/utility.c` | static `state`, `sync`, `input1`, `input2`, two mutexes, shared by all rooms; `is_disbanded` of each room | start of a game, `send_state` (a tick), `input_receive` / `on_input_ready`, `room_broadcast` |
| Game client | `src/client/main.c` | `local_state`, `server_state`, `sync`, `input`, each with its mutex | start, `update` (a frame), `network_update` (a tick), `server_state_receive` |
| Transport | `src/common/cpong_packets.c` (`client_send`, `recvall`, `recv_packet`), `src/lib/server.c` (`sendall`, `server_send`, `server_broadcast`) | the socket buffers | send and receive whole packets |
| Packet encoding | `include/krft/bin_array.h`, `src/common/cpong_packets.c` | none | serialize and deserialize fields and packets |
| Ball physics | `src/common/cpong_logic.c`, `src/lib/engine.c`, `src/lib/vector.c` | none (pure) | `linear_move`, `ball_advance`, collisions of boxes |
| Periodic threads | `src/lib/run_every.c` | the time of the last call | call a function every interval until it says stop |
| Rendering | `src/client/render.c` | SDL | draw |
| Logging | `include/krft/log.h` | none | print |

### Interactions

The main thread of the server accepts; it puts each `client_t` into the queue,
then starts a detached thread that only signals the matcher's condition
variable.  The matcher takes `ROOM_SIZE` clients from the front, makes a room
and starts the room's game thread.  The game thread sends an init packet to
each client and starts two threads: a sender, which every tick turns the
accumulated input into movement, advances the ball, counts goals and broadcasts
a packet, and a receiver, which polls the two sockets and adds input to the
accumulators.  A failed send makes `server_send` look for the client in the
queue (`server_handle_disconnection`) and disbands the room.

A client waits for the init packet and then runs three threads: `update` adds
the direction of the keys to its input and to its own paddle, `network_update`
sends the accumulated input with the current `sync`, and
`server_state_receiver` applies state packets and, after a goal, an init
packet, which replaces the local state, `sync` and the input in this order.
`sync` is the number of goals in eight bits; an input with an old `sync` is
meant to be dropped by the server.

Below that, every periodic thread is a call of `run_every`, which tells its
callback how many milliseconds have passed; the server's sender passes them to
`ball_advance`, whose `scored_index` decides whether the tick was a goal.
Packets are laid out in arrays of bytes (`packet_serialize` over `binarr`), are
cut into pieces by the sockets, and are put together again by `recvall` and
`packet_deserialize`.

### What is hard here

- the signal to the matcher is sent without the mutex, and by a thread whose
  allocation may have failed;
- the matcher, the accept loop and a failing game use the same queue, and the
  accept loop still reads a `client_t` after publishing it;
- one set of statics serves all rooms;
- on both sides a round ends in several critical sections, with the other
  threads running in between;
- the receiver polls without a timeout, and the sender ends only when a send
  fails, which the network reports one packet late;
- blocking sends in both directions;
- a node of the queue is unlinked by naming its neighbours, with four cases in
  one sequence of assignments;
- a packet arrives in pieces that respect no packet, its length is patched in
  behind its fields, and 37 fields are named once for writing and once for
  reading;
- a connection ends at any byte;
- milliseconds of the clock are an `int` that overflows, and readings of it drop
  a fraction;
- `ball_advance` measures one thing in two units (see
  [What the checks found](#what-the-checks-found)), takes the first of two
  collisions at the same moment, and leaves its results unwritten on some paths.

`PROJECT.json` lists each of these, and the rest, at its line, with the
properties that cover it ("hazards").

### What makes each part correct

- *Accept loop and matchmaker*: every queued client is in the queue or in one
  slot of one room; rooms are made first come, first served; no wakeup is lost;
  nothing is read after it was freed; enough waiting clients do get a room.
- *Queue*: it is a linearizable FIFO with removal; its links, ends and size
  agree; what it frees is what it unlinked; every call returns.
- *Session*: the score, `sync` and the seats that the clients believe in are
  the server's, or the packet that will make them so is on its way; input is
  neither lost nor counted twice; goals reach both players; a player who leaves
  ends all threads of the room, and nobody else does.
- *Transport and encoding*: the receiver stays in step with the packets and
  fills in exactly the one that was sent, never a part of one; a direction of a
  connection is a FIFO of whole packets.
- *Periodic threads*: a tick knows how long it was, and is never shorter than the
  interval.
- *Ball physics*: a goal is one the ball could reach; the ball stays in the
  field; `ball_advance` ends and says whether it was a goal.

## The modules and the code

```
Pairing  <-refined by-  Matchmaking        <- MCMatchmaking   MatchmakingProofs
Fifo     <-refined by-  TSQueue            <- MCTSQueue       TSQueueProofs
Network  <-refined by-  Stream <- Packets  <- MCStream        PacketsProofs <- StreamProofs
Network <- PongServer, PongClient <- PongSession <- MCPongSession
                 PongSession <- PongSessionProofs <- PongSyncProofs <- PongInputProofs
RunEvery, BallPhysics <- GameTick          <- MCGameTick      GameTickProofs
```

A critical section that contains no wait and takes no second lock inside is one
step, enabled while the mutex is free.  Every faulty variant in a module
(`SignalDropped`, `EnqueueAtHead`, ...) is a plausible bug of the definition it
precedes; it is part of no specification and serves to show that a property
can fail.

**Matchmaking** models `server_worker`, `handle_connection`,
`matchmaking_worker`, `mm_on_connection` and `server_handle_disconnection`.
`acceptor`, `conn[c]` and `matcher` are the program counters of the accept
loop, of the connection threads and of the matcher; `queue` is
`server->clients` as a sequence; `fd[c]` is both `client_t.fd` and
`client_t.id`; `openFds` is what the kernel has open, so that `accept` returns
the lowest free number as POSIX demands.  The actions `Accept`, `Enqueue`,
`PrintQueue`, `Spawn`, `Signal`, `Lock` (with `WaitOrScan`: the `while` around
`pthread_cond_wait`), `MakeRoom`, `RoomAllocFails`, `Unlock`, `SendFails` and
`HandleDisconnection` are the steps of these functions in their order;
`SpuriousWakeup` and `PeerCloses` are the environment.  The game itself is
reduced to the one thing that touches this state: a send to a client may fail
once, after which `server_handle_disconnection` runs.

**Pairing** is the abstract specification: clients arrive, wait in order, and
leave from the front `RoomSize` at a time.  `Matchmaking` implements it with
`waiting <- queue`.

**TSQueue** models the queue on a heap: `head`, `tail`, `size`, the fields of
the nodes, the allocated nodes `alive`, and the mutex.  A call is four steps:
`Call`, `Lock`, a body, `Unlock`.  `Enqueue` is `__ts_queue_add` with the tail
and nothing as neighbours; `Unlink(p, n)` is `__ts_queue_remove_nolock`, with
`Unlinked(p, n)` the node it frees and `Link(p, n)` the links it writes;
`Dequeue` and `Take` call it as `__ts_queue_dequeue_nolock` and
`server_handle_disconnection` do.  `order` is a ghost: no guard reads it and no
other variable depends on it.  `ts_queue_remove` is the operation `"remove"`:
it has a second lock where `"take"` has the unlock, so a thread in it never
gets from `"unlock"` to `"idle"`.

**Fifo** is what the queue promises: a call takes effect at one moment between
its beginning and its return, and the effect is the one on a sequence.
`TSQueue` implements it with the items of the linked nodes for the sequence and
the body as the moment.

**Network** is TCP as the code uses it: a FIFO of whole packets in each
direction (both ends loop until a packet is through), a send that waits while
the buffer is full, and the states of a connection whose peer has gone: end of
stream, the send that still succeeds, the reset that answers it, the error that
is reported once.

**PongServer** models `start_pong_game` (`StartPlayers`, `StartField`,
`SendInit`, `SendInitFails`, `Join`), `send_state` (`TakeInput`, `AdvanceBall`
or `Goal`, `BumpSync`, `Pack`, `Broadcast` / `BroadcastFails`) and
`input_receive` with `on_input_ready` (`CheckDisbanded`, `Poll`, `RecvInput`,
`RecvEnd`, `RecvError`, `AddInput`), for any number of rooms over one copy of
the statics.  A paddle is its distance from the middle, in the distance that
one unit of input moves it.  The ball is reduced to its effect: any tick may
score.  `RecvError` uses the packet that `recv_packet` did not write, as the
code does: it is dropped, or taken for any input in `Junk`.

**PongClient** models the client's three threads with the part of the local
state that the client sends or that only it changes: its paddle, score, seat,
`sync` and input.

**PongSession** composes them; each step is one step of one thread of one
process, or a reset that reaches the server.

**Packets** is the wire format, as operators: `Serialize` and `Deserialize` are
`packet_serialize` and `packet_deserialize`, over the byte order of `htonl` and
the conversions of floats in `bin_array.h`.  `Written` and `ReadOrder` list the
fields in the order of the two `switch` statements, each from its own.  A float
is an integer, counted in the finest spacing of the format, and each float
operation of the conversions (`Product`, `AsFloat`, `Quotient`) is rounded to the
nearest float, ties to even; the conversion to `int32_t` then cuts off the
fraction.  The format is a parameter: binary32 is `Digits` of 2^24 and powers of
two as `Spacings`.  Overflow to infinity has no value in the model.

**Stream** is one direction of a connection, byte by byte: `Send` lays a packet
out, `SendSome` is one `send` of `sendall`, `RecvSome` one `recv` of `recvall`
(which asks for six bytes and then for as many as the header says), `RecvEnd`
and `RecvError` the two ways in which `recv_packet` fails, `Close` the end of
the sender's process at any byte.  It implements the direction to the server of
`Network` with `toServer <- pending`: a packet has been sent when its last byte
has, and has been received when it is filled in.  A direction to a client
differs only in who sends.  This is what entitles `PongSession` to packets that
travel whole.

**RunEvery** is `run_every`: `StartFunc`, `FuncReturns` and `Wake` are the reading
of the clock before `func`, the one after it, and the sleep with `last = start`.
The clock has an `int` of milliseconds, that wraps, and a fraction, that
`get_curr_time_ms` drops.  The overflow of the difference is taken to wrap, and
the sleep not to be interrupted: no thread installs a signal handler.

**BallPhysics** has the functions of `cpong_logic.c`, `engine.c` and `vector.c` on
a grid: the ball moves diagonally, one cell in each direction per unit of speed
and millisecond, and a collision is the number of cells until it, of those that
the ball makes in the time, so that times of impact are compared exactly.
`PaddleCollide` is `AABB_collide` in full, with the paddle where it was at the
start of the tick (`coll_info->toi` is still zero when it is used).

**GameTick** is the server's sender seen from within: `StartTick` and `EndTick`
are `send_state` around `ball_advance`, under `RunEvery`; `Goal`, `BounceOff`,
`FreeMove` and `NoTimeLeft` are the four ways a pass of its loop may go.  Where
`PongServer` lets any tick score, here the ball decides.  `scored` is
`Unwritten` until the code assigns it; `cornered` and `rebounded` are history
that no guard reads.

Not kept as separate steps: `printf` and logging; a `pthread_create` and the
first step of what it starts are separate, its failure is ignored by the code
and not modelled.

## What is checked

"States" are distinct states.

| Run | Question | Instance | States |
|---|---|---|---|
| `matchmaking` | safety of accept loop and matchmaker, with both allocations failing at will and every peer closing at will | 5 clients (symmetric), 4 descriptors, rooms of 2 | 126 207 |
| `matchmaking_fair` | `PairingLive`, `EnoughPlayersGetRoom`, `EveryConnectionServed` without failed allocations | 4 clients, 4 descriptors, one may close | 38 430 |
| `no_thread`, `no_room` | the same with one kind of failed allocation: both are violated (see findings) | as above | |
| `queue` | the linked list implements `Fifo`, is sound, frees the right node, and every call returns | 2 threads, 4 items, 4 nodes; enqueue, dequeue, take | 200 240 |
| `queue_remove` | does a call of `ts_queue_remove` return? It does not | 2 threads, 3 items | |
| `session` | a game of two clients who stay: score, `sync`, seats, exact input, no deadlock, catching up | 1 goal, `sync` from 127, one key press and one idle tick of the second client | 178 857 |
| `session_quit` | either client or both exit at any moment | 1 goal, one idle tick of the second client, junk 7 on the stack | 242 920 |
| `stale_input`, `two_rooms` | two claims about input: both are violated | 1 goal; 2 rooms | |
| `stream` | bytes in pieces, with the sender gone at any of them, are a FIFO of whole packets | 2 packets of any of the 4 types, 7 bytes of buffer, floats of 23 bits, in 16ths, encoded in tenths | 27 012 |
| `tick` | `delta_time`, `scored_index`, goals, walls and the end of every tick | field of 10 by 8, ball of 2, speeds 1 and 2, ticks of 1 to 3 ms, clock from -4 to 3, halves of a millisecond | 585 984 |

**Properties.**  *Matchmaking*: `OneHome` (in the queue or one slot of one room),
`IdsDistinct` (the id that the search uses is open and unique),
`NoUseAfterFree`, `NoLostWakeup` (the matcher sleeps on a long enough queue
only while the newest client's signal is to come, or will never come because
its thread could not be started), `DescriptorsNeverClosed` (the close in
`server_handle_disconnection` is unreachable: clients of a room have left the
queue it searches), `DeadMatcherFreezesQueue` (and no
game gets past a failed send any more), `PairingSafe`.
*Queue*: `ListSound`, `NoNodeLost`, `FifoSafe`, `CallsReturn`.
*Session*: `SyncAnnounced` (unless the sender is about to announce a goal, what
a client believes of `sync` and score, once it has read what is on its way to
it, is what the server has), `SyncNeverSkips`, `ScoreCountsSync`, `SeatsKept`,
`FirstRoundExact` (until the first goal the paddle on the server and on its
player's screen differ by exactly the input that is on its way),
`EventuallyInStep`, `EventuallySamePaddle`, `OnlyLeaversDisband`, `RoomEnds`.
*Stream*: `Framing` (what the receiver holds, the kernel has and the sender has
left are the packets on their way, whole but for one torn by a close),
`DeliveredAsSent` (what is filled in is the next packet sent, field by field),
`SentArrives`, `NetworkSafe`.
*Tick*: `TickTrue` (`delta_time` is the time since the last tick began, and at
least the interval), `ScoredWritten`, `GoalIsReal` (the ball reaches that line
within the tick, with no wall that it is not already going into and no paddle
that it does not already touch in its way), `WallsHold` and `LinesHold` (the ball
leaves the field only after the corner collision, and after the double bounce,
that the code mishandles: they do not say that it never does, but that it does
in no other way), `TickEnds`.

**Bounds.**  Five clients and rooms of two give two rooms and a client that
stays behind, and one more than there are descriptors, so that `accept` fails.
Four nodes and four items let a removal hit the only node, the head, the tail
and an inner node, and make a freed node come back at once.  A socket buffer of
one packet makes the server's sends block in every session.  In `session` the
second client may send twice, so that its sends block too, also while the server
is blocked on that client; the first client sends nothing, and in `session_quit`
no client sends more than once.  A packet is in the buffer, in the hand of a
sender and in that of a receiver at the same time, which is all that order can
depend on.  `StartSync = 127` makes the `int8_t` wrap at the first goal.  There
is one goal, as a second one together with two packets is too much for TLC; what
is said of `sync` and score is proved for any number.  Keys and leavers are not
combined either: `FirstRoundExact` meets a key press in `session`, and junk from
the stack (`RecvError`) only in `session_quit`.  `MaxGoals`, `MaxFrames`, `MaxIdle`, `MayClose`
and `MayQuit` bound a run and stand in the guards; the paddles are unbounded
integers, as nothing in the protocol depends on the walls.  The keys are given
to the second client, to whom everything is sent last.  Seven bytes of buffer
are one more than a header, so that one `recv` can end a packet and leave the
beginning of the next, and no packet but the ping fits into the buffer; the
samples of `MCStream` have a different value in every field, so that any two
fields that change places show.  Two packets, as what follows a packet is a
packet.  In `tick` an `int` of three bits overflows every few ticks; the field
is small enough for the ball to meet a wall, a paddle and a goal line, or to
bounce twice, in one tick; the paddles move onto the ball and up to the walls.
`PaddleReach` and `BallReach` bound how far the paddles, and a ball that has
escaped, are followed.

**Deadlock** is checked in `session` and `queue`.  Elsewhere the system really
may stop: no more clients connect, all have left, the end of the stream has
been read, the thread has been told to end, or the ball is out of reach.

**Fairness.**  Weak fairness of each thread: POSIX threads of equal priority
that are not blocked run.  A thread that waits for a mutex gets it if it is
free again and again (strong fairness of `Lock` in `TSQueue`; in `Matchmaking`
weak fairness is enough).  What was sent arrives (`Reset`).  Nothing is assumed
of players: no connection, key, goal or exit has to happen.  In `Stream` weak
fairness of the sender's `send` and of the reader (nobody has to begin a
packet), in `GameTick` of the loop of `ball_advance` only (no tick has to
begin).  A tick of the network that finds no input may come, and need not.

**Mutants.**  For every property of a passing run `PROJECT.json` names a
definition and a faulty variant of it under which the run fails.

## What is proved

All eight proof modules are checked by TLAPS with no assumption but the ones on
constants in the modules themselves.

**MatchmakingProofs**, for any set of clients, of descriptors and size of room.
The inductive invariant is

    IInv == TypeOK /\ MutexOwner /\ FdsDistinct /\ Stages /\ OneHome /\ freed = {}

None of the properties is inductive alone.  That nothing is freed needs the
search of `server_handle_disconnection` to fail; it fails because the client
is in a room, hence not in the queue (`OneHome`), and because no other client
has its descriptor (`FdsDistinct`); descriptors stay distinct because `accept`
returns one that is not open (`LowestFdOpen`, by the least element of a
nonempty set of naturals) and none is ever closed; and `OneHome` survives the
arrival of a client only if that client was not there before (`Stages`).  So
they are proved together, one lemma per step that moves clients.  From it:
`TypesHold`, `EveryClientHasOneHome`, `IdsStayDistinct`,
`ClientsStayAllocated`, `NothingIsClosed`, `DeadMatcherFreezes`,
`WakeupsAreNotLost` and `ImplementsPairing` (the safety part of the
refinement).

**TSQueueProofs**, for any set of threads, items and nodes.  The inductive
invariant is `TypeOK /\ ListSound /\ NoNodeLost /\ CallsTidy`.  The heart is
`NeighboursName`: in a sound list `Unlinked(prev[n], next[n]) = n`, whichever of
the four cases of `__ts_queue_remove_nolock` applies.  `Removal` and `Addition`
show that the links after a body are those of the changed order; `StepFifo`
that the items change as `Fifo` says.  Theorems: `TypesHold`,
`ListStaysSound`, `NodesAreNotLost`, `ImplementsFifo`.  They include
`ts_queue_remove` with neighbours that are right when it gets the mutex: its
effect is correct, only its return is missing.

**PongSessionProofs**, for any number of rooms, clients, goals and any buffers:
`TypesHold`, `LeaversDisband`, `SeatsAreKept`.  The invariant types what is on
its way too, and adds three parts.  `Links` says that a connection is open
unless its client has exited; a failed send and the end of the stream need one
that is not, so a room is disbanded for a leaver.  `Stages` ties the threads of
a room together: the sender is off until the game thread has sent both init
packets, and what that sends is an init packet.  `Firsts` says that the first
packet ever sent to a client is its own init packet with its own seat, and is
still the first of the queue while the client has not started; later init
packets with seat 1 stand behind it.

**PongSyncProofs**, for one room and a game of any length: `SyncCounts`,
`SyncIsAnnounced`, `NoSyncSkipped`.  One room is needed: the statics are shared,
and a second room's start resets them.  `Round` and `Counted` follow the sender
through a goal (the score goes up one step before `sync`).  The rest is about
the queue of packets to one client: its init packets form a chain, each with the
successor of the `sync` before it (`Chain`), starting from what the client
believes, and ending (`AllFollow`) at the server's `sync`, or one short of it
while the sender has a goal to announce.  The lemmas say what appending a packet
and taking the first one do to `Chain`, `DueAt` and `Known`; they are about
sequences alone and know nothing of the session.

**PongInputProofs**, for one room, buffers of any size, and any number of frames,
ticks and exits: `FirstRoundIsExact`, `InputIsCredited`.  The invariant, on top
of that of PongSyncProofs, is

    IInv(r) == /\ Game(r) /\ Opening(r)
               /\ score = Zero => \A k \in Seat : FirstRound(r, k, Seats[r][k])

`Exact` is the balance of one seat: what its player's screen shows is what the
server has moved, plus the input in the five places where it can be (the
client's accumulator, the packet in the hand of its network thread, the
connection, the receiver, the server's accumulator).  It is not inductive by
itself.  A client that has not started must have sent nothing and must find its
zeros in the first packet to it (`Unstarted`); one that has must send under the
first `sync`, for the receiver to accept all of it (`Started`); and until the
first goal nothing but state packets may follow the init packet, for none to
put the paddle back (`Rest(c)`).  `Opening` is the server's half: `sync` and the
packet in the sender's hand, before the first goal.  It is claimed of the first
round because both sides drop input at a goal, each at a moment of its own, and
of one room because the statics are shared: `two_rooms` shows a room whose input
is credited to nobody.  The sum over a queue is a recursive function; `InputsAppended` and
`InputsTaken` say what a send and a receive do to it.

**PacketsProofs**, for every packet whose fields are in range: `I32RoundTrip`
(four bytes and back, negative numbers too), `FloatLoss` (in any format, a float
comes back less than `1/FLOAT_SCALE` away, plus half a spacing of floats for each
of three rounded operations; it may lose as much again if it is sent on, as the
quotient can be rounded to below the number it came from), `PacketFits` (at most `MAX_PACKET_SIZE`, and never of size zero, which
`recv_packet` would take for the end of the stream), `RoundTrip`.

**StreamProofs**, for any packets, any buffer of the kernel and any way of cutting
bytes into pieces: `TypesHold`, `StaysInStep`, `FilledInAsSent`,
`ImplementsNetwork` (each step on the bytes is a step of `Network` or a
stutter).  The inductive invariant is

    IInv == TypeOK /\ InStep /\ ReaderTidy

`InStep` says that what the receiver holds, what the kernel has and what the
sender has left are together the bytes of the packets on their way; after a
close, that there are bytes that would complete them.  `ReaderTidy` says how far
`recv_packet` has got: it never holds more than the packet that it is reading.
So when it holds as many bytes as the header says they are the first packet,
by `PacketFits` (a packet has a header, and the size in it is its own) and
`RoundTrip` of PacketsProofs.

**Induction over data.**  What the bytes of a sequence of packets and the sum of a
queue of inputs are is shown for sequences of every length.  The library's
induction theorems take an operator as a parameter, which the installed
backends cannot instantiate; `LeastNat` (a nonempty set of naturals has a least
element, from `WFMin`) takes a set, and serves instead: the lengths for which
the claim fails have no least element.

**GameTickProofs**, for every clock, interval, field and speed.  The inductive
invariant is

    IInv == TypeOK /\ Clocks /\ Stages /\ Walls /\ Lines

`Clocks` says where in the loop of `run_every` how much of the interval is still
to be slept, as wrapped differences of readings; that the clock wraps at most
once between two of them is what `Interval + 2 * Longest < Half` is for.
`Stages` says that a goal ends the loop, and that nothing has passed before the
first collision.  `Walls` strengthens `WallsHold`: a ball at a wall is already on its way back,
without which it could be let through (a collision at distance zero does not
count).  From it: `TypesHold`, `DeltaIsTime`, `IndexWritten`,
`WallsKeepTheBall`, `LinesKeepTheBall`, `GoalsAreReal`.  `LinesKeepTheBall` rests
on the first collision of a tick being tried for the whole of it.
`GoalsAreReal` compares times over different denominators: whatever is in the
way is tried for the whole tick and the line for a part of it, which only makes
the line later, so a line that is first is first in cells too (`GoalFirst`).
That a paddle in the way is found at all is `PaddleMet`: of the moments at which
the ball enters the paddle's columns and its rows the later one is a collision
that `AABB_collide` does not miss.  The wall is excepted for a ball that is
already going into it: after a corner the ball stands at the wall that did not
turn it, and in a tick long enough to cross the field it scores from there.

Only model-checked: all liveness (`PairingLive`, `EnoughPlayersGetRoom`,
`EveryConnectionServed`, `CallsReturn`, `EventuallyInStep`,
`EventuallySamePaddle`, `RoomEnds`, `SentArrives`, `TickEnds`): it needs fairness
and `ENABLED`, which the prover does not handle.  Every other property of a
passing run is a theorem, the session's with the number of rooms given above.

## What the checks found

Each is a run that must fail, with a counterexample of a few steps.

1. `no_thread` (`src/lib/server.c:147`): when the allocation of `conn_data`
   fails, the client stays in the queue but its signal is never sent; two
   clients can wait there for a game until a third arrives.
2. `no_room` (`src/lib/matchmaking.c:71`): when the allocation of a room fails
   the matcher returns with the mutex locked and the accept loop hangs.
3. `queue_remove` (`src/lib/ts_queue.c:103`): `ts_queue_remove` ends in a second
   lock and never returns.  Nothing calls it.
4. `stale_input` (`src/server/main.c:141`): the check of an input's `sync` and its
   addition are two critical sections; a goal in between credits an old input
   to the new round.
5. `two_rooms` (`src/server/main.c:26`): the game's state is static, so a second
   room takes the game over from the first.

Further facts are properties that hold, though one may not want them, or were
met on the way; no comment or document denies them, so that they are no finding.

- `DescriptorsNeverClosed`: a client that leaves a room keeps its descriptor and
  `client_t` for ever.
- `RoomEnds` has no word about the other player, whom nobody tells, nor about a
  first client whose game never began because the second init packet could not
  be sent: it holds in both cases.  It is about a server whose matcher lives: by
  `DeadMatcherFreezesQueue` one failed allocation of a room stops not only the
  accept loop (finding 2) but also the end of every running game, whose failed
  send then waits in `server_handle_disconnection` for a mutex that nobody will
  release.
- `LinesHold` needs `rebounded`: `toi` is the part of the whole tick before a
  collision, and `passed_time` adds it up as if it were milliseconds
  (`src/common/cpong_logic.c:223`).  Paddles and walls are tried for the whole
  tick, the goal line for what is left; after two bounces in a tick the ball can
  pass the line without a goal, and is gone.
- `WallsHold` needs `cornered`: of a paddle and a wall at the same moment only the
  paddle, first in the array, turns the ball, and the wall does not catch a ball
  that is in it already.  `AABB_collide` likewise prefers x to y.
- A goal makes `ball_advance` return without writing `ball_upd`.  The server
  starts a new round; a client that predicts one has a ball of size zero until
  the next init packet (`src/client/main.c:135`).
- Nothing stops a paddle at the walls.  Beyond 214 748 its conversion to
  `int32_t` is undefined (`include/krft/bin_array.h:154`).
- The bounds of a paddle are cut down to `int` on their way into
  `ball_x_collide` and `ball_y_collide`; on the grid of the model that changes
  nothing.
- `recv_packet` does not free its buffer when it returns 0 or -1 in the middle
  of a packet.

## What is not modelled

- *The set-up of sockets* (`server_set_fd`, `connect_to_server`): system calls
  in sequence before any thread exists.
- `ts_queue_destroy`, `server_broadcast`, `AABB_is_overlapping`,
  `vector_normalize`, and the functions of `binarr` for 16 bits, for unsigned
  numbers and for the order of the host: no caller but, for some, a test.
- *Rendering, logging*: output only.
- On the client, the ball and the opponent's paddle: they are displayed and
  never sent.
- *Rounding of floats* in the physics (on the wire it is modelled, see
  **Packets**).  The grid is exact, so that ties, which the code compares with
  `==`, are ties; where rounding would break a tie the model takes the one side
  that the code's order of comparisons takes.  The ball is a square, as in the
  code, and the angle of a new one is one of the diagonals.
- *Overflow of a float's conversion*: see above; packets are of fields in range.
- *Allocations whose result is not tested*: a `client_t`
  (`src/lib/server.c:136`), a node of the queue (`src/lib/ts_queue.c:6`), and what
  is allocated before the first thread.  Their failure is undefined behaviour.
- *What one room leaves to the next*: `input1` and `input2` are not reset when a
  game starts.  `FirstRoundExact` and its theorem are about the first room of a
  server.
- Data races in the C sense (`is_disbanded`, and `sync` in `start_pong_game`,
  are read without a mutex) are modelled as reads of the value at some moment.
- *Input across a goal*: nothing exact is claimed of it after the first round.
  An input has no mark of the round it was made in, and neither end means to
  keep one: a frame or a network tick between the critical sections at
  `src/client/main.c:179` may send old input under the new `sync` or lose new
  input.  `stale_input` shows the server's half of it.

## Plan

In the order of what matters to the system; all but the last are done.

1. `Pairing`, `Matchmaking`, with proofs: the code that all connections pass.
2. `Network`, `PongServer`, `PongClient`, `PongSession`.
3. `Fifo`, `TSQueue`, with proofs.
4. Theorems on 1 and 3: the inductive invariants and both refinements.
5. `Packets` and `Stream`, with the round trip as theorems, and `Network`
   implemented by bytes.
6. `RunEvery`, `BallPhysics`, `GameTick`, with proofs.
7. Theorems on 2: types, seats, leavers; for one room `sync` and score.
8. `Server`: `Matchmaking` composed with `PongServer`, the rooms of one being
   those of the other, so that the second room of `two_rooms` is one that four
   connections bring about, and a failed send is the one that `Matchmaking`
   lets happen at will.
