---------------------------- MODULE BoundedFifo ----------------------------
(***************************************************************************)
(* What lib/usb/include/scqueue.h promises the two cores of the adapter: a *)
(* first-in first-out queue of at most Capacity items whose operations     *)
(* take effect at one instant.  enqueue answers FALSE and changes nothing  *)
(* when the queue is full, dequeue answers Null when it is empty.          *)
(***************************************************************************)
EXTENDS Naturals, Sequences

CONSTANTS Client,    (* the callers: core 0 and core 1                     *)
          Item,      (* the pointers that are queued                       *)
          Null,      (* the null pointer                                   *)
          Capacity   (* KEYBOARD_QUEUE_CAPACITY                            *)

VARIABLES fifo,      (* the queued items, oldest first                     *)
          answer     (* the result of the last operation of each client    *)

FifoVars == <<fifo, answer>>

FifoInit ==
  /\ fifo = <<>>
  /\ answer = [c \in Client |-> Null]

Put(c, item) ==
  /\ Len(fifo) < Capacity
  /\ fifo' = Append(fifo, item)
  /\ answer' = [answer EXCEPT ![c] = TRUE]

Reject(c) ==
  /\ Len(fifo) = Capacity
  /\ answer' = [answer EXCEPT ![c] = FALSE]
  /\ UNCHANGED fifo

Get(c) ==
  /\ fifo # <<>>
  /\ answer' = [answer EXCEPT ![c] = Head(fifo)]
  /\ fifo' = Tail(fifo)

GetNothing(c) ==
  /\ fifo = <<>>
  /\ answer' = [answer EXCEPT ![c] = Null]
  /\ UNCHANGED fifo

Look(c) ==
  /\ answer' = [answer EXCEPT ![c] = IF fifo = <<>> THEN Null ELSE Head(fifo)]
  /\ UNCHANGED fifo

AskEmpty(c) ==
  /\ answer' = [answer EXCEPT ![c] = (fifo = <<>>)]
  /\ UNCHANGED fifo

FifoNext ==
  \E c \in Client :
    \/ \E item \in Item : Put(c, item)
    \/ Reject(c)
    \/ Get(c)
    \/ GetNothing(c)
    \/ Look(c)
    \/ AskEmpty(c)

FifoSpec == FifoInit /\ [][FifoNext]_FifoVars
=============================================================================
