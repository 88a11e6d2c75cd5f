--------------------------- MODULE SCQueueProofs ---------------------------
(***************************************************************************)
(* Proofs about SCQueue for any number of cores, any items and any         *)
(* capacity: the mutex serialises the operations, and the ring buffer      *)
(* implements the bounded queue of BoundedFifo.                            *)
(***************************************************************************)
EXTENDS SCQueue, FunctionTheorems, SequenceTheorems, TLAPS

Value == Item \cup {Null}

(* ------------------------- arithmetic of the ring ---------------------- *)

\* An index that has passed the end of the buffer once comes back by Capacity.
LEMMA ModCapacity ==
  ASSUME NEW n \in 0 .. 2 * Capacity - 1
  PROVE  n % Capacity = IF n < Capacity THEN n ELSE n - Capacity
  BY QueueAssumption DEF QueueAssumption

LEMMA NextSlot ==
  ASSUME NEW i \in Slot
  PROVE  /\ Next_(i) = IF i = Capacity - 1 THEN 0 ELSE i + 1
         /\ Next_(i) \in Slot
<1>1. i + 1 \in 0 .. 2 * Capacity - 1
  BY QueueAssumption DEF QueueAssumption, Slot
<1>2. QED
  BY <1>1, ModCapacity, QueueAssumption DEF QueueAssumption, Slot, Next_

\* The k-th slot at or after f.
Pos(f, k) == (f + k - 1) % Capacity

LEMMA PosFacts ==
  ASSUME NEW f \in Slot, NEW k \in 1 .. Capacity
  PROVE  /\ Pos(f, k) = IF f + k - 1 < Capacity THEN f + k - 1 ELSE f + k - 1 - Capacity
         /\ Pos(f, k) \in Slot
<1>1. f + k - 1 \in 0 .. 2 * Capacity - 1
  BY QueueAssumption DEF QueueAssumption, Slot
<1>2. QED
  BY <1>1, ModCapacity, QueueAssumption DEF QueueAssumption, Slot, Pos

LEMMA PosOfNext ==
  ASSUME NEW f \in Slot, NEW k \in 1 .. Capacity - 1
  PROVE  Pos(Next_(f), k) = Pos(f, k + 1)
<1>1. f \in 0 .. Capacity - 1 /\ k \in 1 .. Capacity /\ k + 1 \in 1 .. Capacity /\ Capacity \in Nat
  BY QueueAssumption DEF QueueAssumption, Slot
<1>2. Next_(f) \in Slot /\ Next_(f) = IF f = Capacity - 1 THEN 0 ELSE f + 1
  BY NextSlot
<1>3. Pos(f, k + 1) = IF f + k < Capacity THEN f + k ELSE f + k - Capacity
  BY <1>1, PosFacts
<1>4. Pos(Next_(f), k) = IF Next_(f) + k - 1 < Capacity THEN Next_(f) + k - 1 ELSE Next_(f) + k - 1 - Capacity
  BY <1>1, <1>2, PosFacts
<1>5. QED
  BY <1>1, <1>2, <1>3, <1>4

\* The slots of one turn of the ring differ.
LEMMA PosInjective ==
  ASSUME NEW f \in Slot, NEW j \in 1 .. Capacity, NEW k \in 1 .. Capacity, j # k
  PROVE  Pos(f, j) # Pos(f, k)
<1>1. Pos(f, j) = IF f + j - 1 < Capacity THEN f + j - 1 ELSE f + j - 1 - Capacity
  BY PosFacts
<1>2. Pos(f, k) = IF f + k - 1 < Capacity THEN f + k - 1 ELSE f + k - 1 - Capacity
  BY PosFacts
<1>3. f \in 0 .. Capacity - 1 /\ j \in 1 .. Capacity /\ k \in 1 .. Capacity /\ Capacity \in Nat
  BY QueueAssumption DEF QueueAssumption, Slot
<1>4. QED
  BY <1>1, <1>2, <1>3

LEMMA SpanFacts ==
  ASSUME first_ \in Slot, last_ \in Slot
  PROVE  /\ Span = IF first_ <= last_ THEN last_ - first_ + 1 ELSE last_ - first_ + 1 + Capacity
         /\ Span \in 1 .. Capacity
         /\ Span = 1 <=> first_ = last_
         /\ Span = Capacity <=> first_ = Next_(last_)
         /\ last_ = Pos(first_, Span)
<1>. DEFINE d == last_ + Capacity - first_
<1>1. d \in 0 .. 2 * Capacity - 1
  BY QueueAssumption DEF QueueAssumption, Slot
<1>2. /\ Span = IF first_ <= last_ THEN last_ - first_ + 1 ELSE last_ - first_ + 1 + Capacity
      /\ Span \in 1 .. Capacity
  <2>. HIDE DEF d
  <2>1. d % Capacity = IF d < Capacity THEN d ELSE d - Capacity
    BY <1>1, ModCapacity
  <2>. USE DEF d
  <2>2. QED
    BY <2>1, QueueAssumption DEF QueueAssumption, Slot, Span
<1>3. last_ = Pos(first_, Span)
  BY <1>2, PosFacts, QueueAssumption DEF QueueAssumption, Slot
<1>4. QED
  BY <1>2, <1>3, NextSlot, QueueAssumption DEF QueueAssumption, Slot

(* ----------------------- a stretch of the ring ------------------------- *)

\* The n items from slot f on.
Window(q, f, n) == [k \in 1 .. n |-> q[Pos(f, k)]]

LEMMA WindowIsSeq ==
  ASSUME NEW q \in [Slot -> Value], NEW f \in Slot, NEW n \in 0 .. Capacity
  PROVE  /\ Window(q, f, n) \in Seq(Value)
         /\ Len(Window(q, f, n)) = n
         /\ Window(q, f, n) = <<>> <=> n = 0
         /\ \A k \in 1 .. n : Window(q, f, n)[k] = q[Pos(f, k)]
<1>1. n \in Nat /\ \A k \in 1 .. n : k \in 1 .. Capacity
  BY QueueAssumption DEF QueueAssumption
<1>2. \A k \in 1 .. n : q[Pos(f, k)] \in Value
  BY <1>1, PosFacts
<1>3. Window(q, f, n) \in Seq(Value) /\ Len(Window(q, f, n)) = n
  BY <1>1, <1>2 DEF Window
<1>4. QED
  BY <1>1, <1>3 DEF Window

LEMMA HeadOfWindow ==
  ASSUME NEW q \in [Slot -> Value], NEW f \in Slot, NEW n \in 1 .. Capacity
  PROVE  Head(Window(q, f, n)) = q[f]
<1>1. 1 \in 1 .. n /\ 1 \in 1 .. Capacity /\ n \in 0 .. Capacity
  BY QueueAssumption DEF QueueAssumption
<1>2. Pos(f, 1) = f
  BY <1>1, PosFacts, QueueAssumption DEF QueueAssumption, Slot
<1>3. QED
  BY <1>1, <1>2, WindowIsSeq

LEMMA TailOfWindow ==
  ASSUME NEW q \in [Slot -> Value], NEW f \in Slot, NEW n \in 1 .. Capacity
  PROVE  Tail(Window(q, f, n)) = Window(q, Next_(f), n - 1)
<1>. DEFINE w == Window(q, f, n)
            v == Window(q, Next_(f), n - 1)
<1>1. n \in 0 .. Capacity /\ n - 1 \in 0 .. Capacity /\ Next_(f) \in Slot
  BY NextSlot, QueueAssumption DEF QueueAssumption
<1>2. w \in Seq(Value) /\ Len(w) = n /\ w # <<>> /\ \A k \in 1 .. n : w[k] = q[Pos(f, k)]
  BY <1>1, WindowIsSeq
<1>3. v \in Seq(Value) /\ Len(v) = n - 1 /\ \A k \in 1 .. n - 1 : v[k] = q[Pos(Next_(f), k)]
  BY <1>1, WindowIsSeq
<1>4. Tail(w) \in Seq(Value) /\ Len(Tail(w)) = n - 1 /\ \A k \in 1 .. n - 1 : Tail(w)[k] = w[k + 1]
  BY <1>2, HeadTailProperties
<1>5. ASSUME NEW k \in 1 .. n - 1 PROVE Tail(w)[k] = v[k]
  <2>1. k \in 1 .. Capacity - 1 /\ k + 1 \in 1 .. n
    BY QueueAssumption DEF QueueAssumption
  <2>2. QED
    BY <1>2, <1>3, <1>4, <2>1, PosOfNext
<1>. HIDE DEF w, v
<1>6. Tail(w) = v
  BY <1>3, <1>4, <1>5, SeqEqual
<1>7. QED
  BY <1>6 DEF w, v

LEMMA AppendToWindow ==
  ASSUME NEW q \in [Slot -> Value], NEW f \in Slot, NEW n \in 0 .. Capacity - 1, NEW e \in Value
  PROVE  Window([q EXCEPT ![Pos(f, n + 1)] = e], f, n + 1) = Append(Window(q, f, n), e)
<1>. DEFINE p == [q EXCEPT ![Pos(f, n + 1)] = e]
            w == Window(q, f, n)
            v == Window(p, f, n + 1)
<1>1. n \in Nat /\ n \in 0 .. Capacity /\ n + 1 \in 1 .. Capacity /\ n + 1 \in 0 .. Capacity
  BY QueueAssumption DEF QueueAssumption
<1>2. p \in [Slot -> Value] /\ p[Pos(f, n + 1)] = e
  BY <1>1, PosFacts
<1>3. w \in Seq(Value) /\ Len(w) = n /\ \A k \in 1 .. n : w[k] = q[Pos(f, k)]
  BY <1>1, WindowIsSeq
<1>. HIDE DEF p
<1>4. v \in Seq(Value) /\ Len(v) = n + 1 /\ \A k \in 1 .. n + 1 : v[k] = p[Pos(f, k)]
  BY <1>1, <1>2, WindowIsSeq
<1>5. ASSUME NEW k \in 1 .. n PROVE p[Pos(f, k)] = q[Pos(f, k)]
  <2>1. k \in 1 .. Capacity /\ k # n + 1
    BY QueueAssumption DEF QueueAssumption
  <2>2. Pos(f, k) # Pos(f, n + 1) /\ Pos(f, k) \in Slot
    BY <1>1, <2>1, PosInjective, PosFacts
  <2>3. QED
    BY <2>2 DEF p
<1>. HIDE DEF w, v
<1>6. /\ Append(w, e) \in Seq(Value) /\ Len(Append(w, e)) = n + 1
      /\ \A k \in 1 .. n : Append(w, e)[k] = w[k]
      /\ Append(w, e)[n + 1] = e
  BY <1>3, AppendProperties
<1>7. ASSUME NEW k \in 1 .. n + 1 PROVE v[k] = Append(w, e)[k]
  <2>1. CASE k \in 1 .. n
    BY <1>3, <1>4, <1>5, <1>6, <2>1
  <2>2. CASE k = n + 1
    BY <1>2, <1>4, <1>6, <2>2
  <2>3. k \in 1 .. n \/ k = n + 1
    BY <1>1
  <2>4. QED
    BY <2>1, <2>2, <2>3
<1>8. v = Append(w, e)
  BY <1>4, <1>6, <1>7, SeqEqual
<1>9. QED
  BY <1>8 DEF p, w, v

(* --------------------- types and mutual exclusion ---------------------- *)

\* The mutex is held exactly by the core that is inside an operation.
Serial == \A c \in Client : pc[c] # "idle" <=> scq_mutex_ = c

LEMMA TypeInit == Init => TypeOK
  BY QueueAssumption DEF QueueAssumption, Init, TypeOK, Slot

LEMMA TypeStep == TypeOK /\ [Next]_vars => TypeOK'
<1>. SUFFICES ASSUME TypeOK, [Next]_vars PROVE TypeOK'
  OBVIOUS
<1>. USE DEF TypeOK, ring, Goto, mutexLock, mutexUnlock
<1>1. ASSUME NEW c \in Client, EnqueueBegin(c) PROVE TypeOK'
  BY <1>1, NextSlot DEF EnqueueBegin
<1>2. ASSUME NEW c \in Client, DequeueBegin(c) \/ PeekBegin(c) \/ IsEmptyBegin(c) PROVE TypeOK'
  BY <1>2 DEF DequeueBegin, PeekBegin, IsEmptyBegin
<1>3. 0 \in Slot
  BY QueueAssumption DEF QueueAssumption, Slot
<1>4. ASSUME NEW c \in Client, EnqueueFull(c) \/ DequeueNothing(c) \/ IsEmpty(c) PROVE TypeOK'
  BY <1>3, <1>4 DEF EnqueueFull, DequeueNothing, IsEmpty
<1>5. ASSUME NEW c \in Client, EnqueueMove(c) PROVE TypeOK'
  BY <1>5 DEF EnqueueMove
<1>6. ASSUME NEW c \in Client, EnqueueStore(c) PROVE TypeOK'
  BY <1>3, <1>6 DEF EnqueueStore, StoreSlot
<1>7. ASSUME NEW c \in Client, DequeueLast(c) \/ Peek(c) PROVE TypeOK'
  BY <1>3, <1>7 DEF DequeueLast, Peek
<1>8. ASSUME NEW c \in Client, DequeueMove(c) PROVE TypeOK'
  BY <1>8, NextSlot DEF DequeueMove
<1>9. ASSUME NEW c \in Client, DequeueFetch(c) PROVE TypeOK'
  BY <1>3, <1>9 DEF DequeueFetch, Fetched
<1>10. CASE UNCHANGED vars
  BY <1>10 DEF vars
<1>11. QED
  BY <1>1, <1>2, <1>4, <1>5, <1>6, <1>7, <1>8, <1>9, <1>10 DEF Next, Call, Operation

\* Every field keeps its type: the indices stay inside the buffer, whatever
\* the order in which the cores call.
THEOREM TypeCorrect == Spec => []TypeOK
  BY TypeInit, TypeStep, PTL DEF Spec

LEMMA SerialStep == TypeOK /\ Serial /\ [Next]_vars => Serial'
<1>. SUFFICES ASSUME TypeOK, Serial, [Next]_vars PROVE Serial'
  OBVIOUS
<1>. USE QueueAssumption DEF QueueAssumption, TypeOK, Serial
<1>1. ASSUME NEW c \in Client, NEW label \in {"enqueue", "dequeue", "peek", "isEmpty"}, mutexLock(c, label)
      PROVE  Serial'
  BY <1>1 DEF mutexLock, Goto
<1>2. ASSUME NEW c \in Client, NEW value, mutexUnlock(c, value), pc[c] # "idle" PROVE Serial'
  BY <1>2 DEF mutexUnlock, Goto
<1>3. ASSUME NEW c \in Client, EnqueueMove(c) \/ DequeueMove(c) PROVE Serial'
  BY <1>3 DEF EnqueueMove, DequeueMove, Goto
<1>4. CASE UNCHANGED vars
  BY <1>4 DEF vars
<1>5. ASSUME NEW c \in Client, Call(c) PROVE Serial'
  BY <1>1, <1>5 DEF Call, EnqueueBegin, DequeueBegin, PeekBegin, IsEmptyBegin
<1>6. ASSUME NEW c \in Client, Operation(c) PROVE Serial'
  BY <1>2, <1>3, <1>6 DEF Operation, EnqueueFull, EnqueueStore, DequeueNothing, DequeueLast,
     DequeueFetch, Peek, IsEmpty
<1>7. QED
  BY <1>4, <1>5, <1>6 DEF Next

\* No two cores are inside operations at a time, and the core inside one holds
\* the mutex.
THEOREM OperationsAreSerial == Spec => []Serial
<1>1. Init => Serial
  BY QueueAssumption DEF QueueAssumption, Init, Serial
<1>2. QED
  BY <1>1, TypeCorrect, SerialStep, PTL DEF Spec

(* ------------------------ the inductive invariant ---------------------- *)

(***************************************************************************)
(* The indices of an empty queue coincide; the locals of a running         *)
(* operation still describe the ring, because nobody else has moved it.    *)
(* For the dequeue that is between its two statements, the slot it fetches *)
(* from is the one just before first_, and not yet reused.                 *)
(***************************************************************************)
EmptyMeets == is_empty_ => first_ = last_

LocalsAgree == \A c \in Client :
  /\ pc[c] = "enqueue" => item[c] \in Item /\ index[c] = Next_(last_)
  /\ pc[c] = "store" => item[c] \in Item /\ (~is_empty_ => last_ # first_)
  /\ pc[c] = "fetch" => ~is_empty_ /\ first_ = Next_(index[c]) /\ last_ # index[c]

RingInv == TypeOK /\ Serial /\ EmptyMeets /\ LocalsAgree

LEMMA RingInit == Init => RingInv
<1>1. Init => Serial /\ EmptyMeets /\ LocalsAgree
  BY QueueAssumption DEF QueueAssumption, Init, Serial, EmptyMeets, LocalsAgree
<1>2. QED
  BY <1>1, TypeInit DEF RingInv

\* Only the core inside an operation moves the ring, so the locals of the
\* others cannot become stale.
LEMMA RingStep == RingInv /\ [Next]_vars => RingInv'
<1>. SUFFICES ASSUME RingInv, [Next]_vars PROVE RingInv'
  OBVIOUS
<1>1. TypeOK /\ Serial /\ EmptyMeets /\ LocalsAgree /\ TypeOK' /\ Serial'
  BY TypeStep, SerialStep DEF RingInv
<1>. USE QueueAssumption DEF QueueAssumption, TypeOK, Serial, EmptyMeets, LocalsAgree
<1>2. ASSUME NEW c \in Client, EnqueueBegin(c) PROVE EmptyMeets' /\ LocalsAgree'
  BY <1>1, <1>2 DEF EnqueueBegin, ring, mutexLock, Goto
<1>3. ASSUME NEW c \in Client, DequeueBegin(c) \/ PeekBegin(c) \/ IsEmptyBegin(c)
      PROVE  EmptyMeets' /\ LocalsAgree'
  BY <1>1, <1>3 DEF DequeueBegin, PeekBegin, IsEmptyBegin, ring, mutexLock, Goto
<1>4. ASSUME NEW c \in Client, EnqueueMove(c) PROVE EmptyMeets' /\ LocalsAgree'
  BY <1>1, <1>4 DEF EnqueueMove, Goto
<1>5. ASSUME NEW c \in Client, DequeueMove(c) PROVE EmptyMeets' /\ LocalsAgree'
  BY <1>1, <1>5 DEF DequeueMove, Goto
<1>6. ASSUME NEW c \in Client, NEW value, mutexUnlock(c, value), pc[c] # "idle"
      PROVE  \A d \in Client : pc'[d] = "idle"
  BY <1>1, <1>6 DEF mutexUnlock, Goto
<1>7. ASSUME NEW c \in Client, Operation(c), ~EnqueueMove(c), ~DequeueMove(c)
      PROVE  EmptyMeets' /\ LocalsAgree'
  <2>1. \A d \in Client : pc'[d] = "idle"
    BY <1>6, <1>7 DEF Operation, EnqueueFull, EnqueueStore, DequeueNothing, DequeueLast,
       DequeueFetch, Peek, IsEmpty
  <2>2. EmptyMeets'
    BY <1>1, <1>7 DEF Operation, EnqueueFull, EnqueueStore, DequeueNothing, DequeueLast,
       DequeueFetch, Peek, IsEmpty, ring
  <2>3. QED
    BY <2>1, <2>2
<1>8. ASSUME UNCHANGED vars PROVE EmptyMeets' /\ LocalsAgree'
  <2>1. UNCHANGED <<first_, last_, is_empty_, pc, item, index>>
    BY <1>8 DEF vars
  <2>2. QED
    BY <1>1, <2>1 DEF Next_
<1>. HIDE DEF TypeOK, Serial, EmptyMeets, LocalsAgree
<1>9. EmptyMeets' /\ LocalsAgree'
  BY <1>2, <1>3, <1>4, <1>5, <1>7, <1>8 DEF Next, Call
<1>10. QED
  BY <1>1, <1>9 DEF RingInv

LEMMA RingInvariant == Spec => []RingInv
  BY RingInit, RingStep, PTL DEF Spec

(* --------------------- the queue as a stretch of the ring -------------- *)

Fetcher == CHOOSE c \in Client : pc[c] = "fetch"
Oldest == IF InFetch THEN index[Fetcher] ELSE first_
Count ==
  IF is_empty_ THEN 0
  ELSE IF InStore THEN Span - 1
  ELSE IF InFetch THEN Span + 1
  ELSE Span

ContentsAreWindow == Contents = Window(queue_, Oldest, Count)

LEMMA RingIsWindow ==
  ASSUME first_ \in Slot, last_ \in Slot, ~is_empty_
  PROVE  Ring = Window(queue_, first_, Span)
  BY DEF Ring, Window, Pos

\* The core inside an operation is the only one that stores or fetches.
LEMMA OnlyActive ==
  ASSUME Serial, NEW c \in Client, pc[c] # "idle"
  PROVE  /\ InStore <=> pc[c] = "store"
         /\ InFetch <=> pc[c] = "fetch"
         /\ InFetch => Fetcher = c
<1>1. \A d \in Client : pc[d] # "idle" => d = c
  BY DEF Serial
<1>2. QED
  BY <1>1 DEF InStore, InFetch, Fetcher

LEMMA FetcherActs ==
  ASSUME InFetch
  PROVE  Fetcher \in Client /\ pc[Fetcher] = "fetch"
  BY DEF InFetch, Fetcher

LEMMA CountFacts ==
  ASSUME RingInv
  PROVE  /\ Oldest \in Slot
         /\ Count \in 0 .. Capacity
         /\ Count = 0 <=> is_empty_
<1>. USE QueueAssumption DEF QueueAssumption
<1>1. TypeOK /\ Serial /\ LocalsAgree /\ first_ \in Slot /\ last_ \in Slot
  BY DEF RingInv, TypeOK
<1>2. Span \in 1 .. Capacity /\ (Span = 1 <=> first_ = last_) /\ (Span = Capacity <=> first_ = Next_(last_))
  BY <1>1, SpanFacts
<1>3. CASE is_empty_
  <2>1. ~InFetch
    BY <1>1, <1>3 DEF LocalsAgree, InFetch
  <2>2. QED
    BY <1>1, <1>3, <2>1 DEF Oldest, Count
<1>4. CASE ~is_empty_ /\ InStore
  <2>1. last_ # first_ /\ ~InFetch
    BY <1>1, <1>4 DEF LocalsAgree, Serial, InStore, InFetch
  <2>2. QED
    BY <1>1, <1>2, <1>4, <2>1 DEF Oldest, Count
<1>5. CASE ~is_empty_ /\ InFetch /\ ~InStore
  <2>1. /\ Fetcher \in Client /\ index[Fetcher] \in Slot
        /\ first_ = Next_(index[Fetcher]) /\ last_ # index[Fetcher]
    BY <1>1, <1>5, FetcherActs DEF LocalsAgree, TypeOK
  <2>2. Next_(last_) # Next_(index[Fetcher])
    BY <1>1, <2>1, NextSlot DEF Slot
  <2>3. QED
    BY <1>1, <1>2, <1>5, <2>1, <2>2 DEF Oldest, Count
<1>6. CASE ~is_empty_ /\ ~InFetch /\ ~InStore
  BY <1>1, <1>2, <1>6 DEF Oldest, Count
<1>7. QED
  BY <1>3, <1>4, <1>5, <1>6

LEMMA ContentsIsWindow ==
  ASSUME RingInv
  PROVE  ContentsAreWindow
<1>. USE QueueAssumption DEF QueueAssumption
<1>1. /\ TypeOK /\ Serial /\ LocalsAgree /\ first_ \in Slot /\ last_ \in Slot
      /\ queue_ \in [Slot -> Value]
  BY DEF RingInv, TypeOK, Value
<1>2. /\ Span \in 1 .. Capacity /\ Span \in 0 .. Capacity /\ Span - 1 \in 0 .. Capacity /\ Span \in Nat
      /\ (Span = 1 <=> first_ = last_)
  BY <1>1, SpanFacts
<1>3. CASE is_empty_
  <2>1. ~InFetch /\ Ring = <<>> /\ Count = 0 /\ Oldest = first_
    BY <1>1, <1>3 DEF LocalsAgree, InFetch, Ring, Count, Oldest
  <2>2. Contents = <<>>
    BY <1>3, <2>1 DEF Contents
  <2>3. Window(queue_, first_, 0) = <<>>
    BY <1>1, WindowIsSeq
  <2>4. QED
    BY <2>1, <2>2, <2>3 DEF ContentsAreWindow
<1>. DEFINE w == Window(queue_, first_, Span)
<1>4. ~is_empty_ => Ring = w
  BY <1>1, RingIsWindow
<1>5. w \in Seq(Value) /\ Len(w) = Span /\ \A k \in 1 .. Span : w[k] = queue_[Pos(first_, k)]
  BY <1>1, <1>2, WindowIsSeq
<1>. HIDE DEF w
<1>6. CASE ~is_empty_ /\ InStore
  <2>. DEFINE v == Window(queue_, first_, Span - 1)
  <2>1. ~InFetch
    BY <1>1, <1>6 DEF Serial, InStore, InFetch
  <2>2. Contents = SubSeq(w, 1, Span - 1)
    BY <1>4, <1>6 DEF Contents
  <2>3. v \in Seq(Value) /\ Len(v) = Span - 1 /\ \A k \in 1 .. Span - 1 : v[k] = queue_[Pos(first_, k)]
    BY <1>1, <1>2, WindowIsSeq
  <2>. HIDE DEF v
  <2>4. /\ SubSeq(w, 1, Span - 1) \in Seq(Value) /\ Len(SubSeq(w, 1, Span - 1)) = Span - 1
        /\ \A k \in 1 .. Span - 1 : SubSeq(w, 1, Span - 1)[k] = w[k]
    BY <1>2, <1>5
  <2>5. ASSUME NEW k \in 1 .. Span - 1 PROVE SubSeq(w, 1, Span - 1)[k] = v[k]
    <3>1. k \in 1 .. Span
      BY <1>2
    <3>2. w[k] = queue_[Pos(first_, k)]
      BY <1>5, <3>1
    <3>3. QED
      BY <2>3, <2>4, <3>2
  <2>6. SubSeq(w, 1, Span - 1) = v
    BY <2>3, <2>4, <2>5, SeqEqual
  <2>7. QED
    BY <1>6, <2>1, <2>2, <2>6 DEF ContentsAreWindow, Count, Oldest, v
<1>7. CASE ~is_empty_ /\ InFetch /\ ~InStore
  <2>. DEFINE i == index[Fetcher]
              v == Window(queue_, i, Span + 1)
  <2>1. i \in Slot /\ first_ = Next_(i) /\ Count = Span + 1 /\ Oldest = i
    BY <1>1, <1>7, FetcherActs DEF LocalsAgree, TypeOK, Count, Oldest
  <2>2. Span + 1 \in 1 .. Capacity /\ Span + 1 \in 0 .. Capacity
    BY <1>2, <2>1, CountFacts
  <2>3. Contents = <<queue_[i]>> \o w
    BY <1>4, <1>7 DEF Contents, Fetcher
  <2>4. Head(v) = queue_[i] /\ Tail(v) = w
    <3>. DEFINE n == Span + 1
    <3>. HIDE DEF n, i
    <3>1. Head(Window(queue_, i, n)) = queue_[i] /\ Tail(Window(queue_, i, n)) = Window(queue_, Next_(i), n - 1)
      BY <1>1, <2>1, <2>2, HeadOfWindow, TailOfWindow DEF n
    <3>2. n - 1 = Span /\ v = Window(queue_, i, n)
      BY <1>2 DEF n
    <3>3. Window(queue_, Next_(i), n - 1) = w
      BY <2>1, <3>2 DEF w
    <3>4. QED
      BY <3>1, <3>2, <3>3
  <2>5. v \in Seq(Value) /\ v # <<>>
    BY <1>1, <1>2, <2>1, <2>2, WindowIsSeq
  <2>. HIDE DEF v
  <2>6. v = <<Head(v)>> \o Tail(v)
    BY <2>5
  <2>7. QED
    BY <2>1, <2>3, <2>4, <2>6 DEF ContentsAreWindow, v
<1>8. CASE ~is_empty_ /\ ~InFetch /\ ~InStore
  BY <1>4, <1>8 DEF ContentsAreWindow, Contents, Count, Oldest, w
<1>9. QED
  BY <1>3, <1>6, <1>7, <1>8


(* ---------------------------- the refinement --------------------------- *)

View ==
  /\ ContentsAreWindow
  /\ Oldest \in Slot
  /\ Count \in 0 .. Capacity
  /\ Count = 0 <=> is_empty_

LEMMA ViewNow == RingInv => View
  BY CountFacts, ContentsIsWindow DEF View

LEMMA ViewThen == RingInv' => View'
  BY ViewNow, PTL

SpanIs ==
  /\ Span = IF first_ <= last_ THEN last_ - first_ + 1 ELSE last_ - first_ + 1 + Capacity
  /\ Span \in 1 .. Capacity
  /\ last_ = Pos(first_, Span)
  /\ Span = 1 <=> first_ = last_
  /\ Span = Capacity <=> first_ = Next_(last_)

LEMMA SpanNow == TypeOK => SpanIs
  BY SpanFacts DEF TypeOK, SpanIs

LEMMA SpanThen == TypeOK' => SpanIs'
  BY SpanNow, PTL

\* Between operations, and after the one that ends, the queue is the ring.
LEMMA Unlocked ==
  ASSUME RingInv, RingInv', NEW c \in Client, NEW value, mutexUnlock(c, value), pc[c] # "idle"
  PROVE  /\ Oldest' = first_' /\ Count' = IF is_empty_' THEN 0 ELSE Span'
         /\ result' = [result EXCEPT ![c] = value]
<1>1. \A d \in Client : pc'[d] = "idle"
  BY QueueAssumption DEF QueueAssumption, RingInv, TypeOK, Serial, mutexUnlock, Goto
<1>2. ~InStore' /\ ~InFetch'
  BY <1>1 DEF InStore, InFetch
<1>3. QED
  BY <1>2 DEF Oldest, Count, mutexUnlock

LEMMA BeginStutters ==
  ASSUME RingInv, NEW c \in Client, Call(c)
  PROVE  UNCHANGED <<Contents, result>>
<1>1. /\ \A d \in Client : pc[d] = "idle" /\ pc'[d] \notin {"store", "fetch"}
      /\ UNCHANGED <<queue_, first_, last_, is_empty_, result>>
  BY QueueAssumption DEF QueueAssumption, RingInv, TypeOK, Serial, Call, EnqueueBegin, DequeueBegin,
     PeekBegin, IsEmptyBegin, mutexLock, Goto, ring
<1>2. ~InStore /\ ~InFetch /\ ~InStore' /\ ~InFetch'
  BY <1>1 DEF InStore, InFetch
<1>3. Ring' = Ring
  BY <1>1 DEF Ring, Span
<1>4. QED
  BY <1>1, <1>2, <1>3 DEF Contents

\* Moving last_ claims the slot; the item is not in the queue yet.
LEMMA MoveLastStutters ==
  ASSUME RingInv, RingInv', NEW c \in Client, EnqueueMove(c)
  PROVE  UNCHANGED <<Contents, result>>
<1>1. /\ TypeOK /\ TypeOK' /\ Serial /\ Serial' /\ LocalsAgree /\ View /\ View'
      /\ pc[c] = "enqueue" /\ pc'[c] = "store"
      /\ UNCHANGED <<queue_, first_, is_empty_, result>>
      /\ index[c] = Next_(last_)
      /\ is_empty_ \/ (first_ # Next_(last_) /\ last_' = Next_(last_))
  BY ViewNow, ViewThen DEF RingInv, LocalsAgree, EnqueueMove, Goto, TypeOK
<1>2. ~InStore /\ ~InFetch
  BY <1>1, OnlyActive
<1>3. InStore' /\ ~InFetch'
  BY <1>1 DEF InStore, InFetch, Serial
<1>4. Oldest = first_ /\ Oldest' = first_
  BY <1>1, <1>2, <1>3 DEF Oldest
<1>5. Count' = Count
  <2>1. CASE is_empty_
    BY <1>1, <2>1 DEF Count
  <2>2. CASE ~is_empty_
    <3>1. Count = Span /\ Count' = Span' - 1
      BY <1>1, <1>2, <1>3, <2>2 DEF Count
    <3>2. Span' = Span + 1
      <4>1. /\ Span = IF first_ <= last_ THEN last_ - first_ + 1 ELSE last_ - first_ + 1 + Capacity
            /\ Span' = IF first_' <= last_' THEN last_' - first_' + 1 ELSE last_' - first_' + 1 + Capacity
        BY <1>1, SpanNow, SpanThen DEF SpanIs
      <4>2. first_ \in Slot /\ last_ \in Slot /\ last_' = IF last_ = Capacity - 1 THEN 0 ELSE last_ + 1
        BY <1>1, <2>2, NextSlot DEF TypeOK
      <4>3. QED
        BY <1>1, <2>2, <4>1, <4>2, QueueAssumption DEF QueueAssumption, Slot
    <3>3. Span \in Nat
      BY <1>1, SpanNow, QueueAssumption DEF QueueAssumption, SpanIs
    <3>4. QED
      BY <3>1, <3>2, <3>3
  <2>3. QED
    BY <2>1, <2>2
<1>6. QED
  BY <1>1, <1>4, <1>5 DEF View, ContentsAreWindow

\* Moving first_ gives up the slot; the item is still to be returned.
LEMMA MoveFirstStutters ==
  ASSUME RingInv, RingInv', NEW c \in Client, DequeueMove(c)
  PROVE  UNCHANGED <<Contents, result>>
<1>1. /\ TypeOK /\ TypeOK' /\ Serial /\ Serial' /\ View /\ View'
      /\ pc[c] = "dequeue" /\ pc'[c] = "fetch"
      /\ UNCHANGED <<queue_, last_, is_empty_, result>>
      /\ ~is_empty_ /\ first_ # last_ /\ first_' = Next_(first_) /\ index'[c] = first_
  BY ViewNow, ViewThen DEF RingInv, DequeueMove, Goto, TypeOK
<1>2. ~InStore /\ ~InFetch
  BY <1>1, OnlyActive
<1>3. /\ \A d \in Client : pc'[d] # "idle" => d = c
      /\ ~InStore' /\ InFetch'
  BY <1>1 DEF Serial, InStore, InFetch
<1>4. Fetcher' = c
  BY <1>1, <1>3 DEF Fetcher
<1>5. Oldest = first_ /\ Oldest' = first_
  BY <1>1, <1>2, <1>3, <1>4 DEF Oldest
<1>6. Count = Span /\ Count' = Span' + 1
  BY <1>1, <1>2, <1>3 DEF Count
<1>7. Span' + 1 = Span
  <2>1. /\ Span = IF first_ <= last_ THEN last_ - first_ + 1 ELSE last_ - first_ + 1 + Capacity
        /\ Span' = IF first_' <= last_' THEN last_' - first_' + 1 ELSE last_' - first_' + 1 + Capacity
    BY <1>1, SpanNow, SpanThen DEF SpanIs
  <2>2. first_ \in Slot /\ last_ \in Slot /\ first_' = IF first_ = Capacity - 1 THEN 0 ELSE first_ + 1
    BY <1>1, NextSlot DEF TypeOK
  <2>3. QED
    BY <1>1, <2>1, <2>2, QueueAssumption DEF QueueAssumption, Slot
<1>8. QED
  BY <1>1, <1>5, <1>6, <1>7 DEF View, ContentsAreWindow


LEMMA StorePuts ==
  ASSUME RingInv, RingInv', NEW c \in Client, EnqueueStore(c)
  PROVE  Fifo!Put(c, item[c])
<1>1. /\ TypeOK /\ Serial /\ LocalsAgree /\ View /\ View' /\ SpanIs /\ EmptyMeets
      /\ pc[c] = "store" /\ mutexUnlock(c, TRUE)
      /\ queue_' = [queue_ EXCEPT ![last_] = item[c]] /\ ~is_empty_' /\ UNCHANGED <<first_, last_>>
      /\ item[c] \in Value /\ first_ \in Slot /\ queue_ \in [Slot -> Value]
  BY ViewNow, ViewThen, SpanNow DEF RingInv, EnqueueStore, StoreSlot, TypeOK, Value
<1>2. Oldest' = first_ /\ Count' = Span /\ result' = [result EXCEPT ![c] = TRUE]
  <2>1. Span' = Span
    BY <1>1 DEF Span
  <2>2. QED
    BY <1>1, <2>1, Unlocked
<1>3. Oldest = first_ /\ Count = Span - 1
  <2>1. InStore /\ ~InFetch
    BY <1>1, OnlyActive
  <2>2. is_empty_ => Span = 1
    BY <1>1 DEF SpanIs, EmptyMeets
  <2>3. QED
    BY <2>1, <2>2 DEF Oldest, Count
<1>4. Count \in 0 .. Capacity - 1 /\ Count + 1 = Span /\ last_ = Pos(first_, Count + 1)
  <2>1. Span \in 1 .. Capacity /\ last_ = Pos(first_, Span)
    BY <1>1 DEF SpanIs
  <2>2. Count \in 0 .. Capacity - 1 /\ Count + 1 = Span
    BY <1>3, <2>1, QueueAssumption DEF QueueAssumption
  <2>3. QED
    BY <2>1, <2>2
<1>5. Contents = Window(queue_, first_, Count) /\ Contents' = Window(queue_', first_, Count + 1)
  BY <1>1, <1>2, <1>3, <1>4 DEF View, ContentsAreWindow
<1>6. Contents' = Append(Contents, item[c])
  BY <1>1, <1>4, <1>5, AppendToWindow
<1>7. Len(Contents) < Capacity
  <2>1. Count \in 0 .. Capacity /\ Count < Capacity
    BY <1>4, QueueAssumption DEF QueueAssumption
  <2>2. QED
    BY <1>1, <1>5, <2>1, WindowIsSeq
<1>8. QED
  BY <1>2, <1>6, <1>7 DEF Fifo!Put

\* A call that only looks leaves the ring; the queue is then the ring itself.
LEMMA LookLeaves ==
  ASSUME RingInv, RingInv', NEW c \in Client, pc[c] \notin {"idle", "store", "fetch"},
         NEW value, mutexUnlock(c, value), UNCHANGED ring
  PROVE  /\ UNCHANGED Contents
         /\ result' = [result EXCEPT ![c] = value]
         /\ Contents = <<>> <=> is_empty_
         /\ Len(Contents) = Count /\ Count = IF is_empty_ THEN 0 ELSE Span
         /\ ~is_empty_ => Head(Contents) = queue_[first_]
<1>1. /\ TypeOK /\ Serial /\ View /\ View' /\ SpanIs /\ first_ \in Slot /\ queue_ \in [Slot -> Value]
      /\ UNCHANGED <<queue_, first_, last_, is_empty_>>
  BY ViewNow, ViewThen, SpanNow DEF RingInv, TypeOK, Value, ring
<1>2. Oldest' = first_ /\ Count' = (IF is_empty_ THEN 0 ELSE Span) /\ result' = [result EXCEPT ![c] = value]
  <2>1. Span' = Span
    BY <1>1 DEF Span
  <2>2. QED
    BY <1>1, <2>1, Unlocked
<1>3. Oldest = first_ /\ Count = IF is_empty_ THEN 0 ELSE Span
  <2>1. ~InStore /\ ~InFetch
    BY <1>1, OnlyActive
  <2>2. QED
    BY <2>1 DEF Oldest, Count
<1>4. Contents = Window(queue_, first_, Count) /\ Contents' = Contents
  BY <1>1, <1>2, <1>3 DEF View, ContentsAreWindow
<1>5. Count \in 0 .. Capacity /\ (Count = 0 <=> is_empty_)
  BY <1>1 DEF View
<1>6. Len(Contents) = Count /\ (Contents = <<>> <=> Count = 0)
  BY <1>1, <1>4, <1>5, WindowIsSeq
<1>7. ~is_empty_ => Head(Contents) = queue_[first_]
  <2>1. ~is_empty_ => Count \in 1 .. Capacity
    BY <1>5, QueueAssumption DEF QueueAssumption
  <2>2. QED
    BY <1>1, <1>4, <2>1, HeadOfWindow
<1>8. QED
  BY <1>2, <1>3, <1>4, <1>5, <1>6, <1>7

LEMMA LastGets ==
  ASSUME RingInv, RingInv', NEW c \in Client, DequeueLast(c)
  PROVE  Fifo!Get(c)
<1>1. /\ TypeOK /\ Serial /\ View /\ View' /\ SpanIs /\ first_ \in Slot /\ queue_ \in [Slot -> Value]
      /\ pc[c] = "dequeue" /\ mutexUnlock(c, queue_[first_])
      /\ ~is_empty_ /\ is_empty_' /\ first_ = last_ /\ UNCHANGED <<queue_, first_, last_>>
  BY ViewNow, ViewThen, SpanNow DEF RingInv, TypeOK, Value, DequeueLast
<1>2. Oldest = first_ /\ Count = 1
  <2>1. ~InStore /\ ~InFetch
    BY <1>1, OnlyActive
  <2>2. QED
    BY <1>1, <2>1 DEF Oldest, Count, SpanIs
<1>3. Count' = 0 /\ Oldest' \in Slot /\ result' = [result EXCEPT ![c] = queue_[first_]]
  BY <1>1, Unlocked
<1>4. Contents = Window(queue_, first_, 1) /\ Contents' = Window(queue_, Oldest', 0)
  BY <1>1, <1>2, <1>3 DEF View, ContentsAreWindow
<1>5. 1 \in 1 .. Capacity /\ 1 \in 0 .. Capacity /\ 0 \in 0 .. Capacity
  BY QueueAssumption DEF QueueAssumption
<1>6. Contents # <<>> /\ Head(Contents) = queue_[first_]
  BY <1>1, <1>4, <1>5, WindowIsSeq, HeadOfWindow
<1>7. Tail(Contents) = <<>>
  <2>1. Contents \in Seq(Value) /\ Len(Contents) = 1
    BY <1>1, <1>4, <1>5, WindowIsSeq
  <2>2. Tail(Contents) \in Seq(Value) /\ Len(Tail(Contents)) = 0
    BY <1>6, <2>1, HeadTailProperties
  <2>3. QED
    BY <2>2, EmptySeq
<1>8. Contents' = <<>>
  BY <1>1, <1>3, <1>4, <1>5, WindowIsSeq
<1>9. QED
  BY <1>3, <1>6, <1>7, <1>8 DEF Fifo!Get

LEMMA FetchGets ==
  ASSUME RingInv, RingInv', NEW c \in Client, DequeueFetch(c)
  PROVE  Fifo!Get(c)
<1>. DEFINE i == index[c]
<1>1. /\ TypeOK /\ Serial /\ View /\ View' /\ SpanIs /\ queue_ \in [Slot -> Value]
      /\ pc[c] = "fetch" /\ mutexUnlock(c, queue_[i])
      /\ ~is_empty_ /\ first_ = Next_(i) /\ i \in Slot
      /\ UNCHANGED <<queue_, first_, last_, is_empty_>>
  BY ViewNow, ViewThen, SpanNow DEF RingInv, TypeOK, Value, DequeueFetch, Fetched, ring, LocalsAgree
<1>. HIDE DEF i
<1>2. Oldest = i /\ Count = Span + 1
  <2>1. ~InStore /\ InFetch /\ Fetcher = c
    BY <1>1, OnlyActive
  <2>2. QED
    BY <1>1, <2>1 DEF Oldest, Count, i
<1>3. Oldest' = Next_(i) /\ Count' = Span /\ result' = [result EXCEPT ![c] = queue_[i]]
  <2>1. Span' = Span
    BY <1>1 DEF Span
  <2>2. QED
    BY <1>1, <2>1, Unlocked
<1>4. Count \in 1 .. Capacity /\ Count \in 0 .. Capacity /\ Count - 1 = Span
  <2>1. Span \in 1 .. Capacity /\ Count \in 0 .. Capacity
    BY <1>1 DEF SpanIs, View
  <2>2. QED
    BY <1>2, <2>1, QueueAssumption DEF QueueAssumption
<1>5. Contents = Window(queue_, i, Count) /\ Contents' = Window(queue_, Next_(i), Count - 1)
  BY <1>1, <1>2, <1>3, <1>4 DEF View, ContentsAreWindow
<1>6. Head(Contents) = queue_[i] /\ Tail(Contents) = Contents' /\ Contents # <<>>
  BY <1>1, <1>4, <1>5, HeadOfWindow, TailOfWindow, WindowIsSeq
<1>7. QED
  BY <1>3, <1>6 DEF Fifo!Get

LEMMA Refines == RingInv /\ RingInv' /\ [Next]_vars => [Fifo!FifoNext]_(Fifo!FifoVars)
<1>. SUFFICES ASSUME RingInv, RingInv', [Next]_vars PROVE [Fifo!FifoNext]_(Fifo!FifoVars)
  OBVIOUS
<1>1. ASSUME NEW c \in Client, Call(c) \/ EnqueueMove(c) \/ DequeueMove(c)
      PROVE  UNCHANGED Fifo!FifoVars
  BY <1>1, BeginStutters, MoveLastStutters, MoveFirstStutters DEF Fifo!FifoVars
<1>2. ASSUME NEW c \in Client, EnqueueFull(c) PROVE Fifo!Reject(c)
  <2>1. /\ pc[c] = "enqueue" /\ mutexUnlock(c, FALSE) /\ UNCHANGED ring
        /\ ~is_empty_ /\ first_ = Next_(last_) /\ SpanIs
    BY <1>2, SpanNow DEF EnqueueFull, RingInv, LocalsAgree
  <2>2. Span = Capacity
    BY <2>1 DEF SpanIs
  <2>3. QED
    BY <2>1, <2>2, LookLeaves DEF Fifo!Reject
<1>3. ASSUME NEW c \in Client, DequeueNothing(c) PROVE Fifo!GetNothing(c)
  <2>1. pc[c] = "dequeue" /\ mutexUnlock(c, Null) /\ UNCHANGED ring /\ is_empty_
    BY <1>3 DEF DequeueNothing
  <2>2. QED
    BY <2>1, LookLeaves DEF Fifo!GetNothing
<1>4. ASSUME NEW c \in Client, Peek(c) PROVE Fifo!Look(c)
  <2>1. pc[c] = "peek" /\ mutexUnlock(c, IF is_empty_ THEN Null ELSE queue_[first_]) /\ UNCHANGED ring
    BY <1>4 DEF Peek
  <2>2. QED
    BY <2>1, LookLeaves DEF Fifo!Look
<1>5. ASSUME NEW c \in Client, IsEmpty(c) PROVE Fifo!AskEmpty(c)
  <2>1. pc[c] = "isEmpty" /\ mutexUnlock(c, is_empty_) /\ UNCHANGED ring /\ is_empty_ \in BOOLEAN
    BY <1>5 DEF IsEmpty, RingInv, TypeOK
  <2>2. QED
    BY <2>1, LookLeaves DEF Fifo!AskEmpty
<1>6. ASSUME NEW c \in Client, EnqueueStore(c) PROVE item[c] \in Item /\ Fifo!Put(c, item[c])
  BY <1>6, StorePuts DEF EnqueueStore, RingInv, LocalsAgree
<1>7. ASSUME NEW c \in Client, DequeueLast(c) \/ DequeueFetch(c) PROVE Fifo!Get(c)
  BY <1>7, LastGets, FetchGets
<1>8. ASSUME NEW c \in Client, Operation(c), ~EnqueueMove(c), ~DequeueMove(c) PROVE Fifo!FifoNext
  BY <1>2, <1>3, <1>4, <1>5, <1>6, <1>7, <1>8 DEF Operation, Fifo!FifoNext
<1>9. CASE UNCHANGED vars
  <2>1. UNCHANGED <<Contents, result>>
    BY <1>9 DEF vars, Contents, InStore, InFetch, Ring, Span
  <2>2. QED
    BY <2>1 DEF Fifo!FifoVars
<1>10. QED
  BY <1>1, <1>8, <1>9 DEF Next

\* The ring buffer implements the bounded queue: whatever the two cores call
\* and in whatever order, items come out once each and in order, a store is
\* refused only when Capacity items wait, and null is answered only when none
\* does.
THEOREM RingImplementsFifo == Spec => ImplementsFifo
<1>1. Init => Fifo!FifoInit
  BY DEF Init, Fifo!FifoInit, Contents, InStore, InFetch, Ring
<1>2. QED
  BY <1>1, RingInvariant, Refines, PTL DEF Spec, ImplementsFifo, Fifo!FifoSpec

=============================================================================
