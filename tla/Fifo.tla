-------------------------------- MODULE Fifo --------------------------------
(***************************************************************************)
(* What a thread-safe queue promises: every call takes effect once, at one *)
(* moment between its beginning and its return, and what it does then is   *)
(* what the sequence of items says it should do.                           *)
(***************************************************************************)
EXTENDS Naturals, Sequences

CONSTANTS Threads, Items, NoItem

VARIABLES
  items,  \* what is in the queue, the front first
  op,     \* the call each thread is in, "none", or "done" before its return
  arg     \* the item the call is about

fifoVars == <<items, op, arg>>

Init ==
  /\ items = <<>>
  /\ op = [t \in Threads |-> "none"]
  /\ arg = [t \in Threads |-> NoItem]

Call(t) ==
  /\ op[t] = "none"
  /\ \/ \E x \in Items, o \in {"enqueue", "take", "remove"} :
          /\ op' = [op EXCEPT ![t] = o]
          /\ arg' = [arg EXCEPT ![t] = x]
     \/ op' = [op EXCEPT ![t] = "dequeue"] /\ UNCHANGED arg
  /\ UNCHANGED items

(* An item goes to the back.                                               *)
Put(t) == op[t] = "enqueue" /\ items' = Append(items, arg[t])

(* The front goes, if there is one.                                        *)
DropFront(t) ==
  /\ op[t] = "dequeue"
  /\ items' = IF items = <<>> THEN items ELSE Tail(items)

(* The item named goes, if it is there; the others keep their order.       *)
Without(i) == [j \in 1..(Len(items) - 1) |-> items[IF j < i THEN j ELSE j + 1]]

TakeOut(t) ==
  /\ op[t] \in {"take", "remove"}
  /\ \/ \E i \in DOMAIN items : items[i] = arg[t] /\ items' = Without(i)
     \/ (\A i \in DOMAIN items : items[i] # arg[t]) /\ UNCHANGED items

Effect(t) ==
  /\ Put(t) \/ DropFront(t) \/ TakeOut(t)
  /\ op' = [op EXCEPT ![t] = "done"]
  /\ UNCHANGED arg

Return(t) ==
  /\ op[t] = "done"
  /\ op' = [op EXCEPT ![t] = "none"]
  /\ arg' = [arg EXCEPT ![t] = NoItem]
  /\ UNCHANGED items

Next == \E t \in Threads : Call(t) \/ Effect(t) \/ Return(t)

Spec == Init /\ [][Next]_fifoVars
=============================================================================
