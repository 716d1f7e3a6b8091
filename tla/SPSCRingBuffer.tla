--------------------------- MODULE SPSCRingBuffer ---------------------------
(***************************************************************************)
(* ppl::common::SPSCRingBuffer (spsc_ring_buffer.h): one thread calls Push *)
(* and one calls Pop, each again and again.  Every access to an atomic and *)
(* to a slot is a step of its own.                                         *)
(*                                                                         *)
(* C++ atomics: an acquire load need not return the newest store, only one *)
(* not older than the thread has seen before; it orders what preceded that *)
(* store before what follows the load.  So the model numbers the stores:   *)
(* store n to tail_ publishes the n-th push, store n to head_ the n-th     *)
(* pop, and each thread remembers the newest store it has loaded.          *)
(*                                                                         *)
(* Bound: MaxPushes on the number of successful pushes.                    *)
(***************************************************************************)
EXTENDS Naturals, Sequences

CONSTANTS Size,        \* the constructor's argument
          Item,        \* what is pushed
          None,        \* a slot nothing was written to, or was moved from
          MaxPushes

ASSUME SizeAssumption == Size \in Nat
ASSUME NoneAssumption == None \notin Item
ASSUME MaxPushesAssumption == MaxPushes \in Nat

VARIABLES
  tail, head,    \* the newest values of tail_ and head_
  vec,           \* the slots vec_
  pushed,        \* number of stores to tail_
  popped,        \* number of stores to head_
  headSeen,      \* newest store to head_ the producer has loaded
  tailSeen,      \* newest store to tail_ the consumer has loaded
  producer,      \* where the producer is in Push
  consumer,      \* where the consumer is in Pop
  item,          \* the producer's argument
  out,           \* the consumer's *item
  result         \* what the last Pop that returned true delivered

producerVars == <<tail, pushed, headSeen, producer, item>>
consumerVars == <<head, popped, tailSeen, consumer, out, result>>
vars == <<tail, pushed, headSeen, producer, item,
          head, popped, tailSeen, consumer, out, result, vec>>

(* vec_.size() *)
Slots == Size + 1

(* A mutant of Increment: it wraps around one slot too late. *)
IncrementLate(i) == IF i = Slots THEN 0 ELSE i + 1

Increment(i) == (i + 1) % Slots

(* The value of the n-th store to tail_ or to head_. *)
Index(n) == n % Slots

TypeOK ==
  /\ tail \in 0..Size /\ head \in 0..Size
  /\ vec \in [0..Size -> Item \cup {None}]
  /\ pushed \in 0..MaxPushes /\ popped \in 0..MaxPushes
  /\ headSeen \in 0..MaxPushes /\ tailSeen \in 0..MaxPushes
  /\ producer \in {"idle", "write", "publish"}
  /\ consumer \in {"idle", "read", "publish"}
  /\ item \in Item \cup {None}
  /\ out \in Item \cup {None}
  /\ result \in Item \cup {None}

Init ==
  /\ tail = 0 /\ head = 0
  /\ vec = [i \in 0..Size |-> None]
  /\ pushed = 0 /\ popped = 0
  /\ headSeen = 0 /\ tailSeen = 0
  /\ producer = "idle" /\ consumer = "idle"
  /\ item = None /\ out = None /\ result = None

-----------------------------------------------------------------------------
(* The stores an acquire load may read from. *)
Visible(seen, newest) == seen..newest

\* A mutant of Full: the slot before head_ is used as well.
FullOffByOne(h) == tail = Index(h) /\ pushed > h

Full(h) == Increment(tail) = Index(h)

(* Push: load head_; if it is next to tail_ the buffer is full. *)
PushLoads(x) ==
  /\ producer = "idle"
  /\ pushed < MaxPushes
  /\ \E h \in Visible(headSeen, popped) :
       /\ headSeen' = h
       /\ producer' = IF Full(h) THEN "idle" ELSE "write"
  /\ item' = x
  /\ UNCHANGED <<tail, pushed, vec, consumerVars>>

PushWrites ==
  /\ producer = "write"
  /\ vec' = [vec EXCEPT ![tail] = item]
  /\ producer' = "publish"
  /\ UNCHANGED <<tail, pushed, headSeen, item, consumerVars>>

PushPublishes ==
  /\ producer = "publish"
  /\ tail' = Increment(tail)
  /\ pushed' = pushed + 1
  /\ producer' = "idle"
  /\ UNCHANGED <<headSeen, item, vec, consumerVars>>

\* A mutant of Empty: the test is missing.
EmptyNever(t) == FALSE

Empty(t) == head = Index(t)

(* Pop: load tail_; if it equals head_ the buffer is empty. *)
PopLoads ==
  /\ consumer = "idle"
  /\ \E t \in Visible(tailSeen, pushed) :
       /\ tailSeen' = t
       /\ consumer' = IF Empty(t) THEN "idle" ELSE "read"
  /\ UNCHANGED <<head, popped, out, result, vec, producerVars>>

(* *item = std::move(slot): the slot is left empty. *)
PopReads ==
  /\ consumer = "read"
  /\ out' = vec[head]
  /\ vec' = [vec EXCEPT ![head] = None]
  /\ consumer' = "publish"
  /\ UNCHANGED <<head, popped, tailSeen, result, producerVars>>

PopPublishes ==
  /\ consumer = "publish"
  /\ head' = Increment(head)
  /\ popped' = popped + 1
  /\ result' = out
  /\ consumer' = "idle"
  /\ UNCHANGED <<tailSeen, out, vec, producerVars>>

Next ==
  \/ \E x \in Item : PushLoads(x)
  \/ PushWrites
  \/ PushPublishes
  \/ PopLoads
  \/ PopReads
  \/ PopPublishes

Spec == Init /\ [][Next]_vars

-----------------------------------------------------------------------------
(***************************************************************************)
(* The producer writes the slot of push number pushed + 1 only after it    *)
(* has acquired the store to head_ that follows the last read of the slot  *)
(* (spsc_ring_buffer.h:42-46), and the consumer reads a slot only after it *)
(* has acquired the store to tail_ that follows the write (54-58).  So the *)
(* two threads never race on a slot, on hardware however relaxed.          *)
(***************************************************************************)
NoSlotRace ==
  /\ producer = "write" => pushed < headSeen + Size
  /\ consumer = "read" => popped < tailSeen

(***************************************************************************)
(* No more than Size elements are in the buffer, and none of its slots is  *)
(* at once written by the producer and read by the consumer.               *)
(***************************************************************************)
NeverOverfull ==
  /\ popped <= pushed
  /\ pushed <= popped + Size
  /\ producer = "write" /\ consumer = "read" => tail # head

(* The elements between head_ and tail_; the first may be in `out' already. *)
Contents ==
  [k \in 1..(pushed - popped) |->
     IF k = 1 /\ consumer = "publish" THEN out ELSE vec[Index(popped + k - 1)]]

FIFO == INSTANCE BoundedFIFO WITH
          Capacity <- Size, queue <- Contents, out <- result

(***************************************************************************)
(* The buffer is a bounded FIFO queue: the store to tail_ is the push, the *)
(* store to head_ the pop, and every pop delivers what was pushed first.   *)
(***************************************************************************)
ImplementsFIFO == FIFO!Spec
=============================================================================
