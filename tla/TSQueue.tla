------------------------------ MODULE TSQueue ------------------------------
(***************************************************************************)
(* The thread-safe queue of src/lib/ts_queue.c: a doubly linked list of    *)
(* nodes on the heap, with a mutex.  Threads call ts_queue_enqueue,        *)
(* ts_queue_dequeue and ts_queue_remove, or take an item out the way       *)
(* server_handle_disconnection does, which locks the mutex itself.         *)
(* A body runs between lock and unlock without a wait and is one step.     *)
(*                                                                         *)
(* The variable order is not in the code.  It lists the nodes in the order *)
(* in which they ought to be linked, and no guard and no other variable    *)
(* depends on it; the invariants say that the links agree with it.         *)
(***************************************************************************)
EXTENDS Integers, Sequences, FiniteSets

CONSTANTS
  Threads,  \* the threads that use the queue
  Items,    \* the data pointers put into it
  NoItem,   \* none of them
  Nodes,    \* the addresses malloc may return for a node
  NULL,     \* none of them
  Ops       \* the operations that threads call in a run

ASSUME TSQueueAssumption ==
  /\ NoItem \notin Items
  /\ NULL \notin Nodes
  /\ Ops \subseteq {"enqueue", "dequeue", "take", "remove"}

VARIABLES
  head, tail, size,  \* the fields of struct ts_queue
  prev, next, data,  \* the fields of the nodes
  alive,             \* the nodes that are allocated
  mutex,             \* who holds q->mutex
  pc, op, arg,       \* of each thread: where it is, in which call, its item
  order              \* the nodes as they ought to be linked

listVars == <<head, tail, size, prev, next, data, alive, order>>
callVars == <<op, arg>>
vars == <<listVars, mutex, pc, callVars>>

Free == "free"
Pointers == Nodes \cup {NULL}

(* ts_queue_new.                                                           *)
Init ==
  /\ head = NULL /\ tail = NULL /\ size = 0
  /\ prev = [n \in Nodes |-> NULL]
  /\ next = [n \in Nodes |-> NULL]
  /\ data = [n \in Nodes |-> NoItem]
  /\ alive = {}
  /\ mutex = Free
  /\ pc = [t \in Threads |-> "idle"]
  /\ op = [t \in Threads |-> "none"]
  /\ arg = [t \in Threads |-> NoItem]
  /\ order = <<>>
-----------------------------------------------------------------------------
(* A thread calls an operation.  An item that is enqueued is a fresh       *)
(* allocation of the caller: it is not in the queue nor on its way there.  *)
Fresh(x) == /\ \A n \in alive : data[n] # x
            /\ \A t \in Threads : op[t] = "enqueue" => arg[t] # x

Call(t, o, x) ==
  /\ pc[t] = "idle"
  /\ o = "enqueue" => x \in Items /\ Fresh(x)
  /\ o \in {"take", "remove"} => x \in Items
  /\ o = "dequeue" => x = NoItem
  /\ op' = [op EXCEPT ![t] = o]
  /\ arg' = [arg EXCEPT ![t] = x]
  /\ pc' = [pc EXCEPT ![t] = "lock"]
  /\ UNCHANGED <<listVars, mutex>>

Lock(t) ==
  /\ pc[t] = "lock"
  /\ mutex = Free
  /\ mutex' = t
  /\ pc' = [pc EXCEPT ![t] = "body"]
  /\ UNCHANGED <<listVars, callVars>>

(* Faulty variant: an early return that leaves the mutex locked.           *)
UnlockForgotten(t) ==
  /\ pc[t] = "unlock"
  /\ op[t] # "remove"
  /\ pc' = [pc EXCEPT ![t] = "idle"]
  /\ op' = [op EXCEPT ![t] = "none"]
  /\ arg' = [arg EXCEPT ![t] = NoItem]
  /\ UNCHANGED <<listVars, mutex>>

(* The unlock and the return.  ts_queue_remove has a second lock instead:  *)
(* it waits for the mutex that it holds itself, and never gets here.       *)
Unlock(t) ==
  /\ pc[t] = "unlock"
  /\ op[t] # "remove"
  /\ mutex' = Free
  /\ pc' = [pc EXCEPT ![t] = "idle"]
  /\ op' = [op EXCEPT ![t] = "none"]
  /\ arg' = [arg EXCEPT ![t] = NoItem]
  /\ UNCHANGED listVars

BodyOf(t, ops) ==
  /\ pc[t] = "body"
  /\ op[t] \in ops
  /\ pc' = [pc EXCEPT ![t] = "unlock"]
  /\ UNCHANGED <<mutex, callVars>>
-----------------------------------------------------------------------------
(* Faulty variant: the new node becomes the head.                          *)
EnqueueAtHead(t, n) ==
  /\ BodyOf(t, {"enqueue"})
  /\ n \notin alive
  /\ alive' = alive \cup {n}
  /\ data' = [data EXCEPT ![n] = arg[t]]
  /\ size' = size + 1
  /\ head' = n
  /\ tail' = IF head = NULL THEN n ELSE tail
  /\ next' = [next EXCEPT ![n] = head]
  /\ prev' = [m \in Nodes |-> IF m = head THEN n ELSE
                              IF m = n THEN NULL ELSE prev[m]]
  /\ order' = <<n>> \o order

(* __ts_queue_enqueue_nolock: a new node, and __ts_queue_add between the   *)
(* tail and nothing.                                                       *)
Enqueue(t, n) ==
  /\ BodyOf(t, {"enqueue"})
  /\ n \notin alive
  /\ alive' = alive \cup {n}
  /\ data' = [data EXCEPT ![n] = arg[t]]
  /\ size' = size + 1
  /\ head' = IF head = NULL THEN n ELSE head
  /\ tail' = n
  /\ next' = [m \in Nodes |-> IF m = n THEN NULL ELSE
                              IF head # NULL /\ m = tail THEN n ELSE next[m]]
  /\ prev' = [prev EXCEPT ![n] = IF head = NULL THEN NULL ELSE tail]
  /\ order' = Append(order, n)
-----------------------------------------------------------------------------
(* Faulty variants of __ts_queue_remove_nolock: size is decremented twice; *)
(* the node is looked for from the tail; the links are changed in one      *)
(* direction.                                                              *)
SizeTwice == size - 2
UnlinkedFromTail(p, n) == IF p = NULL THEN tail ELSE next[p]
LinkForwardOnly(p, n) ==
  LET gone == IF p # NULL THEN next[p] ELSE head
  IN  /\ next' = [m \in Nodes |-> IF m = p THEN n ELSE
                                  IF m = gone THEN NULL ELSE next[m]]
      /\ prev' = [prev EXCEPT ![gone] = NULL]

SizeAfterRemove == size - 1

(* The node between p and n.                                               *)
Unlinked(p, n) == IF n # NULL THEN prev[n] ELSE
                  IF p # NULL THEN next[p] ELSE tail

(* The links around it; those of the node itself are gone with it.         *)
Link(p, n) ==
  LET gone == Unlinked(p, n)
  IN  /\ next' = [m \in Nodes |-> IF m = p THEN n ELSE
                                  IF m = gone THEN NULL ELSE next[m]]
      /\ prev' = [m \in Nodes |-> IF m = n THEN p ELSE
                                  IF m = gone THEN NULL ELSE prev[m]]

(* __ts_queue_remove_nolock(q, p, n) of a queue that is not empty.  The    *)
(* node is freed; its item is not, as nobody sets a data_destructor.       *)
Unlink(p, n) ==
  /\ size' = SizeAfterRemove
  /\ head' = IF p = NULL THEN n ELSE head
  /\ tail' = IF n = NULL THEN p ELSE tail
  /\ Link(p, n)
  /\ alive' = alive \ {Unlinked(p, n)}
  /\ data' = [m \in Nodes |-> IF m = Unlinked(p, n) THEN NoItem ELSE data[m]]

OrderWithout(i) ==
  [j \in 1..(Len(order) - 1) |-> order[IF j < i THEN j ELSE j + 1]]

(* __ts_queue_dequeue_nolock: the head, which has no predecessor.          *)
Dequeue(t) ==
  /\ BodyOf(t, {"dequeue"})
  /\ head # NULL
  /\ Unlink(NULL, next[head])
  /\ order' = OrderWithout(1)

(* The node of an item, found by walking the list, is removed by way of    *)
(* its neighbours.  ts_queue_remove, which the program does not call, is   *)
(* given the neighbours; they are taken to be right when it has the mutex. *)
Take(t, n) ==
  /\ BodyOf(t, {"take", "remove"})
  /\ n \in alive
  /\ data[n] = arg[t]
  /\ Unlink(prev[n], next[n])
  /\ \E i \in DOMAIN order : order[i] = n /\ order' = OrderWithout(i)

(* A dequeue from an empty queue, and an item that is not there.           *)
Nothing(t) ==
  /\ \/ BodyOf(t, {"dequeue"}) /\ head = NULL
     \/ BodyOf(t, {"take", "remove"}) /\ \A n \in alive : data[n] # arg[t]
  /\ UNCHANGED listVars

Body(t) ==
  \/ \E n \in Nodes : Enqueue(t, n) \/ Take(t, n)
  \/ Dequeue(t)
  \/ Nothing(t)

Next ==
  \E t \in Threads :
    \/ \E o \in Ops, x \in Items \cup {NoItem} : Call(t, o, x)
    \/ Lock(t) \/ Body(t) \/ Unlock(t)

Spec == Init /\ [][Next]_vars

(***************************************************************************)
(* Threads run, malloc returns, and a thread that waits for the mutex gets *)
(* it if it is free again and again.                                       *)
(***************************************************************************)
FairSpec ==
  /\ Spec
  /\ \A t \in Threads : SF_vars(Lock(t)) /\ WF_vars(Body(t)) /\ WF_vars(Unlock(t))
-----------------------------------------------------------------------------
(* Every variable has its type; size, a size_t, does not go below zero.    *)
TypeOK ==
  /\ head \in Pointers /\ tail \in Pointers /\ size \in Nat
  /\ prev \in [Nodes -> Pointers]
  /\ next \in [Nodes -> Pointers]
  /\ data \in [Nodes -> Items \cup {NoItem}]
  /\ alive \subseteq Nodes
  /\ mutex \in Threads \cup {Free}
  /\ pc \in [Threads -> {"idle", "lock", "body", "unlock"}]
  /\ op \in [Threads -> {"none", "enqueue", "dequeue", "take", "remove"}]
  /\ arg \in [Threads -> Items \cup {NoItem}]
  /\ order \in Seq(Nodes)

At(i) == IF i \in DOMAIN order THEN order[i] ELSE NULL

(* head, tail, size and the links in both directions say the same: they    *)
(* describe the nodes in the order in which they were put into the queue.  *)
ListSound ==
  /\ head = At(1)
  /\ tail = At(Len(order))
  /\ size = Len(order)
  /\ \A i \in DOMAIN order : /\ next[order[i]] = At(i + 1)
                             /\ prev[order[i]] = At(i - 1)

(* The nodes in the list are those that are allocated, each once: none is  *)
(* leaked, none freed while it is linked, and none freed in place of the   *)
(* one that was taken out.                                                 *)
NoNodeLost ==
  /\ alive = {order[i] : i \in DOMAIN order}
  /\ \A i, j \in DOMAIN order : order[i] = order[j] => i = j

(* Every call takes effect once, while it has the mutex, and as a queue's  *)
(* operation should, whatever the other threads do.                        *)
Queued == [i \in DOMAIN order |-> data[order[i]]]
Stage == [t \in Threads |-> IF pc[t] = "unlock" THEN "done" ELSE op[t]]

F == INSTANCE Fifo WITH items <- Queued, op <- Stage
FifoSafe == F!Spec

(* "Thread safe queue": whoever calls it gets out of it again.             *)
CallsReturn == \A t \in Threads : pc[t] = "lock" ~> pc[t] = "idle"
=============================================================================
