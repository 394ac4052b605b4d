---------------------------- MODULE Matchmaking ----------------------------
(***************************************************************************)
(* The accept loop of src/lib/server.c and the matchmaker of               *)
(* src/lib/matchmaking.c: the thread that accepts connections and queues   *)
(* them, one short-lived thread per connection that signals the matcher,   *)
(* the matcher itself, and the game thread of each room as far as it       *)
(* touches what they share (a send that fails makes it search the queue).  *)
(* All of them meet at one ts_queue and its mutex.  Critical sections that *)
(* contain no wait are one step, enabled while the mutex is free; only the *)
(* matcher keeps it from one step to the next.                             *)
(***************************************************************************)
EXTENDS Integers, Sequences, SequencesExt, FiniteSets

CONSTANTS
  Clients,   \* the connections that may ever reach the listening socket
  NoClient,  \* not one of them
  MayClose,  \* the clients whose peer may close its end (bounds a run)
  Fds,       \* the descriptors the process may hold for connections
  RoomSize,  \* ROOM_SIZE
  Faults     \* which allocations may fail: "conn_data", "room"

ASSUME MatchmakingAssumption ==
  /\ NoClient \notin Clients
  /\ MayClose \subseteq Clients
  /\ RoomSize \in Nat \ {0}
  /\ Fds \subseteq Nat
  /\ Faults \subseteq {"conn_data", "room"}

VARIABLES
  acceptor,  \* where server_worker is in its loop
  current,   \* the client_t it is working on
  conn,      \* the handle_connection thread of each client
  matcher,   \* where matchmaking_worker is
  mutex,     \* holder of server->clients->mutex
  queue,     \* server->clients
  rooms,     \* mm_server.rooms, each with its clients
  game,      \* the game thread of each room
  fd,        \* client_t.fd, which is also client_t.id
  openFds,   \* descriptors the kernel regards as open
  freed,     \* clients whose client_t has been freed
  gone       \* peers that have closed their end

vars == <<acceptor, current, conn, matcher, mutex, queue, rooms, game,
          fd, openFds, freed, gone>>

Free == "free"
NoFd == -1

Rooms == [1..RoomSize -> Clients]
GameThreads == [pc : {"running", "leaving", "over"}, slot : 1..RoomSize]

Init ==
  /\ acceptor = "accept"
  /\ current = NoClient
  /\ conn = [c \in Clients |-> "none"]
  /\ matcher = "lock"
  /\ mutex = Free
  /\ queue = <<>>
  /\ rooms = <<>>
  /\ game = <<>>
  /\ fd = [c \in Clients |-> NoFd]
  /\ openFds = {}
  /\ freed = {}
  /\ gone = {}

(* Faulty variant: a critical section that forgets to take the mutex.      *)
MutexIgnored == TRUE

MutexFree == mutex = Free
-----------------------------------------------------------------------------
(* server_worker: accept returns the lowest descriptor that is not open    *)
(* and the client_t is filled in.  With none left accept fails and the     *)
(* loop tries again, which changes nothing.                                *)
LowestFd == CHOOSE f \in Fds \ openFds : \A g \in Fds \ openFds : f <= g

Accept(c) ==
  /\ acceptor = "accept"
  /\ fd[c] = NoFd
  /\ Fds \ openFds # {}
  /\ fd' = [fd EXCEPT ![c] = LowestFd]
  /\ openFds' = openFds \cup {LowestFd}
  /\ current' = c
  /\ acceptor' = "enqueue"
  /\ UNCHANGED <<conn, matcher, mutex, queue, rooms, game, freed, gone>>

(* ts_queue_enqueue(server->clients, client).                              *)
Enqueue ==
  /\ acceptor = "enqueue"
  /\ MutexFree
  /\ queue' = Append(queue, current)
  /\ acceptor' = "print"
  /\ UNCHANGED <<current, conn, matcher, mutex, rooms, game, fd, openFds,
                 freed, gone>>

(* The lock, __print_queue, unlock that follows: it only blocks.           *)
PrintQueue ==
  /\ acceptor = "print"
  /\ MutexFree
  /\ acceptor' = "spawn"
  /\ UNCHANGED <<current, conn, matcher, mutex, queue, rooms, game, fd,
                 openFds, freed, gone>>

(* conn_data is allocated, *client is copied into it and a detached thread *)
(* is started; when the allocation fails the loop goes on without one.     *)
Spawn ==
  /\ acceptor = "spawn"
  /\ \/ conn' = [conn EXCEPT ![current] = "signal"]
     \/ /\ "conn_data" \in Faults
        /\ conn' = [conn EXCEPT ![current] = "failed"]
  /\ acceptor' = "accept"
  /\ UNCHANGED <<current, matcher, mutex, queue, rooms, game, fd, openFds,
                 freed, gone>>
-----------------------------------------------------------------------------
(* Faulty variant: the connection thread ends without a signal.            *)
SignalDropped(c) ==
  /\ conn[c] = "signal"
  /\ conn' = [conn EXCEPT ![c] = "done"]
  /\ UNCHANGED <<acceptor, current, matcher, mutex, queue, rooms, game, fd,
                 openFds, freed, gone>>

(* mm_on_connection: pthread_cond_signal without the mutex.  The server    *)
(* passes no on_connection_fn, so the thread then ends.                    *)
Signal(c) ==
  /\ conn[c] = "signal"
  /\ conn' = [conn EXCEPT ![c] = "done"]
  /\ matcher' = IF matcher = "waiting" THEN "woken" ELSE matcher
  /\ UNCHANGED <<acceptor, current, mutex, queue, rooms, game, fd, openFds,
                 freed, gone>>
-----------------------------------------------------------------------------
(* Faulty variant: wait first, look at the size only after a wakeup.       *)
WaitUnlessWoken ==
  IF matcher = "lock" \/ Len(queue) < RoomSize
    THEN matcher' = "waiting" /\ mutex' = Free
    ELSE matcher' = "scan" /\ mutex' = "matcher"

(* matchmaking_worker: lock, then wait while the queue is too short.       *)
(* pthread_cond_wait releases the mutex and sleeps in one step, and takes  *)
(* the mutex back before the size is read again.                           *)
WaitOrScan ==
  IF Len(queue) < RoomSize
    THEN matcher' = "waiting" /\ mutex' = Free
    ELSE matcher' = "scan" /\ mutex' = "matcher"

Lock ==
  /\ matcher \in {"lock", "woken"}
  /\ MutexFree
  /\ WaitOrScan
  /\ UNCHANGED <<acceptor, current, conn, queue, rooms, game, fd, openFds,
                 freed, gone>>

(* POSIX lets pthread_cond_wait return without a signal.                   *)
SpuriousWakeup ==
  /\ matcher = "waiting"
  /\ matcher' = "woken"
  /\ UNCHANGED <<acceptor, current, conn, mutex, queue, rooms, game, fd,
                 openFds, freed, gone>>

(* Faulty variants: one client too few leaves the queue; the newest clients*)
(* are matched first.                                                      *)
DequeueOneTooFew ==
  /\ matcher = "scan"
  /\ Len(queue) >= RoomSize
  /\ rooms' = Append(rooms, SubSeq(queue, 1, RoomSize))
  /\ queue' = SubSeq(queue, RoomSize, Len(queue))
  /\ game' = Append(game, [pc |-> "running", slot |-> 1])
  /\ UNCHANGED <<acceptor, current, conn, matcher, mutex, fd, openFds,
                 freed, gone>>

MakeRoomOfNewest ==
  LET rest == Len(queue) - RoomSize
  IN  /\ matcher = "scan"
      /\ Len(queue) >= RoomSize
      /\ rooms' = Append(rooms, SubSeq(queue, rest + 1, Len(queue)))
      /\ queue' = SubSeq(queue, 1, rest)
      /\ game' = Append(game, [pc |-> "running", slot |-> 1])
      /\ UNCHANGED <<acceptor, current, conn, matcher, mutex, fd, openFds,
                     freed, gone>>

(* One round of the inner loop, with the mutex held: the front of the      *)
(* queue becomes a room and its game thread is started.                    *)
MakeRoom ==
  /\ matcher = "scan"
  /\ Len(queue) >= RoomSize
  /\ rooms' = Append(rooms, SubSeq(queue, 1, RoomSize))
  /\ queue' = SubSeq(queue, RoomSize + 1, Len(queue))
  /\ game' = Append(game, [pc |-> "running", slot |-> 1])
  /\ UNCHANGED <<acceptor, current, conn, matcher, mutex, fd, openFds,
                 freed, gone>>

(* malloc(sizeof(struct room)) fails: the thread returns with the mutex    *)
(* locked.                                                                 *)
RoomAllocFails ==
  /\ matcher = "scan"
  /\ Len(queue) >= RoomSize
  /\ "room" \in Faults
  /\ matcher' = "dead"
  /\ UNCHANGED <<acceptor, current, conn, mutex, queue, rooms, game, fd,
                 openFds, freed, gone>>

(* Faulty variant: a second lock where the unlock should be, as at the end *)
(* of ts_queue_remove.                                                     *)
LockTwice ==
  /\ matcher = "scan"
  /\ Len(queue) < RoomSize
  /\ matcher' = "lock"
  /\ UNCHANGED <<acceptor, current, conn, mutex, queue, rooms, game, fd,
                 openFds, freed, gone>>

Unlock ==
  /\ matcher = "scan"
  /\ Len(queue) < RoomSize
  /\ matcher' = "lock"
  /\ mutex' = Free
  /\ UNCHANGED <<acceptor, current, conn, queue, rooms, game, fd, openFds,
                 freed, gone>>
-----------------------------------------------------------------------------
(* Faulty variant: the slot counted from zero.                             *)
SendFailsFromZero(r, k) ==
  /\ game[r].pc = "running"
  /\ rooms[r][k] \in gone
  /\ game' = [game EXCEPT ![r] = [pc |-> "leaving", slot |-> k - 1]]
  /\ UNCHANGED <<acceptor, current, conn, matcher, mutex, queue, rooms, fd,
                 openFds, freed, gone>>

(* The game of room r sends a packet to the client in slot k, whose peer   *)
(* has closed, and the send fails.  Either loop over the room's clients,   *)
(* in start_pong_game and in room_broadcast, stops at the first failure    *)
(* and is not run again, so this happens once per room.                    *)
SendFails(r, k) ==
  /\ game[r].pc = "running"
  /\ rooms[r][k] \in gone
  /\ game' = [game EXCEPT ![r] = [pc |-> "leaving", slot |-> k]]
  /\ UNCHANGED <<acceptor, current, conn, matcher, mutex, queue, rooms, fd,
                 openFds, freed, gone>>

(* Faulty variants: the descriptor is closed, or closed and the client_t   *)
(* freed, although the client was not found in the queue.                  *)
CloseAnyway(c) ==
  /\ openFds' = openFds \ {fd[c]}
  /\ UNCHANGED <<queue, freed>>

FreeAnyway(c) ==
  /\ openFds' = openFds \ {fd[c]}
  /\ freed' = freed \cup {c}
  /\ UNCHANGED queue

(* server_handle_disconnection(server, client), under the mutex: the first *)
(* node of the queue with the client's id is removed, its client_t freed   *)
(* and the client's descriptor closed; without such a node nothing is done.*)
Positions(c) == {j \in DOMAIN queue : fd[queue[j]] = fd[c]}

ForgetClient(c) ==
  LET j == CHOOSE p \in Positions(c) : \A q \in Positions(c) : p <= q
  IN  IF Positions(c) = {}
        THEN UNCHANGED <<queue, openFds, freed>>
        ELSE /\ queue' = RemoveAt(queue, j)
             /\ openFds' = openFds \ {fd[c]}
             /\ freed' = freed \cup {queue[j]}

HandleDisconnection(r) ==
  /\ game[r].pc = "leaving"
  /\ MutexFree
  /\ ForgetClient(rooms[r][game[r].slot])
  /\ game' = [game EXCEPT ![r].pc = "over"]
  /\ UNCHANGED <<acceptor, current, conn, matcher, mutex, rooms, fd, gone>>

(* A connected peer closes its end, in a queue, in a room or before either.*)
PeerCloses(c) ==
  /\ fd[c] # NoFd
  /\ c \notin gone
  /\ gone' = gone \cup {c}
  /\ UNCHANGED <<acceptor, current, conn, matcher, mutex, queue, rooms, game,
                 fd, openFds, freed>>

Next ==
  \/ Enqueue \/ PrintQueue \/ Spawn
  \/ Lock \/ SpuriousWakeup \/ MakeRoom \/ RoomAllocFails \/ Unlock
  \/ \E c \in Clients : Accept(c) \/ Signal(c)
  \/ \E c \in MayClose : PeerCloses(c)
  \/ \E r \in DOMAIN rooms :
       HandleDisconnection(r) \/ \E k \in 1..RoomSize : SendFails(r, k)

Spec == Init /\ [][Next]_vars

(***************************************************************************)
(* The operating system runs every thread that is not blocked, and a free  *)
(* mutex is eventually given to the thread that waits for it.  Nothing is  *)
(* assumed of the peers: they need not connect and need not close.         *)
(***************************************************************************)
Fairness ==
  /\ WF_vars(Enqueue) /\ WF_vars(PrintQueue) /\ WF_vars(Spawn)
  /\ WF_vars(Lock) /\ WF_vars(MakeRoom) /\ WF_vars(Unlock)
  /\ \A c \in Clients : WF_vars(Signal(c))

FairSpec == Spec /\ Fairness
-----------------------------------------------------------------------------
InQueue(c) == \E i \in DOMAIN queue : queue[i] = c
InRoom(c) == \E r \in DOMAIN rooms, k \in 1..RoomSize : rooms[r][k] = c
Enqueued(c) ==
  conn[c] # "none" \/ (current = c /\ acceptor \in {"print", "spawn"})

(* Every variable has its type: in particular the queue and the rooms hold *)
(* clients, each room has as many as ROOM_SIZE says and one game thread,   *)
(* whose loop index stays within the room.                                 *)
TypeOK ==
  /\ acceptor \in {"accept", "enqueue", "print", "spawn"}
  /\ current \in Clients \cup {NoClient}
  /\ conn \in [Clients -> {"none", "signal", "done", "failed"}]
  /\ matcher \in {"lock", "waiting", "woken", "scan", "dead"}
  /\ mutex \in {Free, "matcher"}
  /\ queue \in Seq(Clients)
  /\ rooms \in Seq(Rooms)
  /\ game \in Seq(GameThreads)
  /\ Len(game) = Len(rooms)
  /\ fd \in [Clients -> Fds \cup {NoFd}]
  /\ openFds \subseteq Fds
  /\ freed \subseteq Clients
  /\ gone \subseteq Clients

(* Every client that the accept loop has queued is in exactly one place,   *)
(* the queue or one slot of one room: matchmaking neither loses a client   *)
(* nor puts one into two games, whatever fails.                            *)
OneHome ==
  /\ \A c \in Clients : Enqueued(c) <=> InQueue(c) \/ InRoom(c)
  /\ \A c \in Clients : ~(InQueue(c) /\ InRoom(c))
  /\ \A i, j \in DOMAIN queue : queue[i] = queue[j] => i = j
  /\ \A r, s \in DOMAIN rooms, k, l \in 1..RoomSize :
       rooms[r][k] = rooms[s][l] => r = s /\ k = l

(* The descriptor that serves as the id of a queued or matched client is   *)
(* open and nobody else's: the search of server_handle_disconnection by id *)
(* can never hit another client, and a room never sends to a stranger.     *)
IdsDistinct ==
  /\ \A c \in Clients : Enqueued(c) => fd[c] \in openFds
  /\ \A c, d \in Clients :
       Enqueued(c) /\ Enqueued(d) /\ fd[c] = fd[d] => c = d

(* A client_t is not freed while it is still read: by the accept loop,     *)
(* which copies *client after it has published it in the queue, or by the  *)
(* game of its room.                                                       *)
NoUseAfterFree ==
  /\ acceptor \in {"enqueue", "print", "spawn"} => current \notin freed
  /\ \A r \in DOMAIN rooms : game[r].pc # "over" =>
       \A k \in 1..RoomSize : rooms[r][k] \notin freed

(* The matcher sleeps on a long enough queue only while the newest client  *)
(* in it has its signal still to come, or will never send one because the  *)
(* allocation for its thread failed: the signal is sent without the mutex, *)
(* and yet no wakeup is lost.                                              *)
NoLostWakeup ==
  matcher = "waiting" /\ Len(queue) >= RoomSize =>
    LET newest == queue[Len(queue)]
    IN  \/ current = newest /\ acceptor \in {"print", "spawn"}
        \/ conn[newest] \in {"signal", "failed"}

(* The matcher is the only thread that keeps the mutex between steps, and  *)
(* it has it exactly while it scans, and forever once it died scanning.    *)
MutexOwner == mutex = "matcher" <=> matcher \in {"scan", "dead"}

(* No connection is ever closed by the server, not even after a failed     *)
(* send: the clients of a room are no longer in the queue that             *)
(* server_handle_disconnection searches, so its close is never reached.    *)
DescriptorsNeverClosed == [][openFds \subseteq openFds']_vars

(* When the allocation of a room fails the matcher leaves with the mutex   *)
(* locked: from then on nobody is queued, matched or removed, and the games*)
(* that run are caught by it too.  One whose send fails hangs in           *)
(* server_handle_disconnection, before its room is disbanded.              *)
GameGetsOver(r) == game[r].pc # "over" /\ game'[r].pc = "over"

DeadMatcherFreezesQueue ==
  [][matcher = "dead" => /\ UNCHANGED <<queue, rooms, matcher>>
                         /\ \A r \in DOMAIN rooms : ~GameGetsOver(r)]_vars

(* Matchmaking implements Pairing: rooms are made of consecutive arrivals, *)
(* and a client that waits is never dropped or overtaken.                  *)
P == INSTANCE Pairing WITH waiting <- queue
PairingSafe == P!SafeSpec

(* With threads scheduled fairly and no failed allocation it implements    *)
(* the liveness of Pairing as well: enough clients do get their room.      *)
PairingLive == P!Spec

(* "if enough players in q to create a room, do so".                       *)
EnoughPlayersGetRoom ==
  \A c \in Clients :
    (\E i \in DOMAIN queue : queue[i] = c /\ Len(queue) >= RoomSize
                            /\ i <= RoomSize) ~> InRoom(c)

(* The accept loop gets back to accept after every connection, with the    *)
(* thread that calls on_connection started.                                *)
EveryConnectionServed ==
  \A c \in Clients :
    (current = c /\ acceptor # "accept") ~> conn[c] \in {"signal", "done"}
=============================================================================
