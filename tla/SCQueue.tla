------------------------------ MODULE SCQueue ------------------------------
(***************************************************************************)
(* The ring buffer of lib/usb/include/scqueue.tpp, shared by core 0 (which *)
(* turns key events into ADB reports) and core 1 (whose USB callbacks      *)
(* produce them).  Every operation runs under scq_mutex_; the statements   *)
(* between lock and unlock are separate steps here, so that what the mutex *)
(* buys is visible: without it the steps of two operations interleave.     *)
(***************************************************************************)
EXTENDS Naturals, Sequences

CONSTANTS Client,    (* the cores that call the queue                      *)
          Item,      (* the pointers queued (never null)                   *)
          Null,      (* the null pointer, also an unwritten slot           *)
          Nobody,    (* scq_mutex_ is free                                 *)
          Capacity   (* allocation_size                                    *)

ASSUME QueueAssumption ==
  /\ Capacity \in Nat \ {0}
  /\ Null \notin Item
  /\ Nobody \notin Client

VARIABLES queue_, first_, last_, is_empty_,   (* the fields of the class   *)
          scq_mutex_,                         (* its holder, or Nobody     *)
          pc,        (* where each client is                               *)
          item,      (* the argument of the running enqueue               *)
          index,     (* new_last of an enqueue, old_first of a dequeue     *)
          result     (* the last value returned to each client             *)

ring == <<queue_, first_, last_, is_empty_>>
vars == <<queue_, first_, last_, is_empty_, scq_mutex_, pc, item, index, result>>

Slot == 0 .. Capacity - 1

\* Mutant: no wrap-around.
Next_NoWrap(i) == i + 1
Next_(i) == (i + 1) % Capacity

Init ==
  /\ queue_ = [i \in Slot |-> Null]
  /\ first_ = 0
  /\ last_ = 0
  /\ is_empty_ = TRUE
  /\ scq_mutex_ = Nobody
  /\ pc = [c \in Client |-> "idle"]
  /\ item = [c \in Client |-> Null]
  /\ index = [c \in Client |-> 0]
  /\ result = [c \in Client |-> Null]

Goto(c, label) == pc' = [pc EXCEPT ![c] = label]

\* mutexLock(), at the start of the operation that continues at label
mutexLock(c, label) ==
  /\ pc[c] = "idle"
  /\ scq_mutex_ = Nobody
  /\ scq_mutex_' = c
  /\ Goto(c, label)

\* mutexUnlock() and the return of value; the locals of the call die
mutexUnlock(c, value) ==
  /\ scq_mutex_' = Nobody
  /\ item' = [item EXCEPT ![c] = Null]
  /\ index' = [index EXCEPT ![c] = 0]
  /\ result' = [result EXCEPT ![c] = value]
  /\ Goto(c, "idle")

(* ------------------------------ enqueue -------------------------------- *)

EnqueueBegin(c) == \E i \in Item :
  /\ mutexLock(c, "enqueue")
  /\ item' = [item EXCEPT ![c] = i]
  /\ index' = [index EXCEPT ![c] = Next_(last_)]
  /\ UNCHANGED <<ring, result>>

\* Mutant: a full queue waits inside the lock.
EnqueueFullWaits(c) ==
  /\ pc[c] = "enqueue"
  /\ ~is_empty_ /\ first_ = index[c]
  /\ UNCHANGED vars

\* no overwriting: a full queue refuses
EnqueueFull(c) ==
  /\ pc[c] = "enqueue"
  /\ ~is_empty_ /\ first_ = index[c]
  /\ mutexUnlock(c, FALSE)
  /\ UNCHANGED ring

\* an empty queue stores at last_, any other one moves last_ on first
EnqueueMove(c) ==
  /\ pc[c] = "enqueue"
  /\ is_empty_ \/ first_ # index[c]
  /\ last_' = IF is_empty_ THEN last_ ELSE index[c]
  /\ Goto(c, "store")
  /\ UNCHANGED <<queue_, first_, is_empty_, scq_mutex_, item, index, result>>

StoreSlot == last_

EnqueueStore(c) ==
  /\ pc[c] = "store"
  /\ queue_' = [queue_ EXCEPT ![StoreSlot] = item[c]]
  /\ is_empty_' = FALSE
  /\ mutexUnlock(c, TRUE)
  /\ UNCHANGED <<first_, last_>>

(* ------------------------------ dequeue -------------------------------- *)

DequeueBegin(c) ==
  /\ mutexLock(c, "dequeue")
  /\ UNCHANGED <<ring, item, index, result>>

DequeueNothing(c) ==
  /\ pc[c] = "dequeue"
  /\ is_empty_
  /\ mutexUnlock(c, Null)
  /\ UNCHANGED ring

\* the last item: the indices stay, the queue becomes empty
DequeueLast(c) ==
  /\ pc[c] = "dequeue"
  /\ ~is_empty_ /\ first_ = last_
  /\ is_empty_' = TRUE
  /\ mutexUnlock(c, queue_[first_])
  /\ UNCHANGED <<queue_, first_, last_>>

DequeueMove(c) ==
  /\ pc[c] = "dequeue"
  /\ ~is_empty_ /\ first_ # last_
  /\ index' = [index EXCEPT ![c] = first_]
  /\ first_' = Next_(first_)
  /\ Goto(c, "fetch")
  /\ UNCHANGED <<queue_, last_, is_empty_, scq_mutex_, item, result>>

\* Mutant: first_ read again after it has moved.
FetchedAfterMove(c) == queue_[first_]
Fetched(c) == queue_[index[c]]

DequeueFetch(c) ==
  /\ pc[c] = "fetch"
  /\ mutexUnlock(c, Fetched(c))
  /\ UNCHANGED ring

(* --------------------------- peek, isEmpty ----------------------------- *)

PeekBegin(c) ==
  /\ mutexLock(c, "peek")
  /\ UNCHANGED <<ring, item, index, result>>

Peek(c) ==
  /\ pc[c] = "peek"
  /\ mutexUnlock(c, IF is_empty_ THEN Null ELSE queue_[first_])
  /\ UNCHANGED ring

IsEmptyBegin(c) ==
  /\ mutexLock(c, "isEmpty")
  /\ UNCHANGED <<ring, item, index, result>>

IsEmpty(c) ==
  /\ pc[c] = "isEmpty"
  /\ mutexUnlock(c, is_empty_)
  /\ UNCHANGED ring

Operation(c) ==
  \/ EnqueueFull(c) \/ EnqueueMove(c) \/ EnqueueStore(c)
  \/ DequeueNothing(c) \/ DequeueLast(c) \/ DequeueMove(c) \/ DequeueFetch(c)
  \/ Peek(c)
  \/ IsEmpty(c)

Call(c) == EnqueueBegin(c) \/ DequeueBegin(c) \/ PeekBegin(c) \/ IsEmptyBegin(c)

Next == \E c \in Client : Call(c) \/ Operation(c)

\* an operation that holds the mutex runs to its end: nothing in it blocks
Spec == Init /\ [][Next]_vars /\ \A c \in Client : WF_vars(Operation(c))

(* ----------------------------- properties ------------------------------ *)

TypeOK ==
  /\ queue_ \in [Slot -> Item \cup {Null}]
  /\ first_ \in Slot
  /\ last_ \in Slot
  /\ is_empty_ \in BOOLEAN
  /\ scq_mutex_ \in Client \cup {Nobody}
  /\ pc \in [Client -> {"idle", "enqueue", "store", "dequeue", "fetch", "peek", "isEmpty"}]
  /\ item \in [Client -> Item \cup {Null}]
  /\ index \in [Client -> Slot]
  /\ result \in [Client -> Item \cup BOOLEAN \cup {Null}]

\* The queued items, oldest first, seen between operations.  While an enqueue
\* has moved last_ but not stored, its slot does not count yet; while a
\* dequeue has moved first_ but not fetched, the item still does.
InStore == \E c \in Client : pc[c] = "store"
InFetch == \E c \in Client : pc[c] = "fetch"

Span == ((last_ + Capacity - first_) % Capacity) + 1
Ring == IF is_empty_ THEN <<>> ELSE [k \in 1 .. Span |-> queue_[(first_ + k - 1) % Capacity]]

Contents ==
  IF InStore /\ ~is_empty_ THEN SubSeq(Ring, 1, Span - 1)
  ELSE IF InFetch
       THEN <<queue_[index[CHOOSE c \in Client : pc[c] = "fetch"]]>> \o Ring
       ELSE Ring

Fifo == INSTANCE BoundedFifo WITH fifo <- Contents, answer <- result

\* The ring buffer implements the bounded queue: in order, nothing lost or
\* invented, refusal only when full, null only when empty (scqueue.tpp).
ImplementsFifo == Fifo!FifoSpec

\* Every path through an operation, the refusals included, gives the mutex
\* back: neither core can be locked out for ever.
MutexReleased == []<>(scq_mutex_ = Nobody)
=============================================================================
