---------------------------- MODULE MessageQueue ----------------------------
(***************************************************************************)
(* The state of one ppl::common::MessageQueue<T> (message_queue.h) and the *)
(* effect of its operations on it.  A queue is the record                  *)
(*                                                                         *)
(*   items    the list items_, oldest first                                *)
(*   waiting  the threads blocked in pthread_cond_wait(&cond_, &mutex_)    *)
(*                                                                         *)
(* Push and each pass of Pop between two waits run under mutex_ from start *)
(* to end, so each is one step; the mutex itself needs no variable.  Pop   *)
(* re-evaluates its condition whenever it is out of the wait, so a popper  *)
(* that is not in `waiting' is one that competes for mutex_.               *)
(***************************************************************************)
EXTENDS Sequences

EmptyQueue == [items |-> <<>>, waiting |-> {}]

QueueType(Item, Thread) ==
  [items : Seq(Item), waiting : SUBSET Thread]

(***************************************************************************)
(* pthread_cond_signal: one of the waiting threads, if any, leaves the     *)
(* wait.  The value is the set of the possible new wait sets.              *)
(***************************************************************************)
Signal(waiting) ==
  IF waiting = {} THEN {{}} ELSE {waiting \ {t} : t \in waiting}

\* A mutant of Push: it forgets the signal.
PushNoSignal(q, item) ==
  {[items |-> Append(q.items, item), waiting |-> q.waiting]}

\* A mutant of Push: the new item overtakes the queued ones.
PushFront(q, item) ==
  {[items |-> <<item>> \o q.items, waiting |-> w] : w \in Signal(q.waiting)}

\* The states Push(item) may leave: the signal picks the thread to wake.
Push(q, item) ==
  {[items |-> Append(q.items, item), waiting |-> w] : w \in Signal(q.waiting)}

\* Thread t, inside Pop and not waiting, finds items_ non-empty ...
CanTake(q, t) == t \notin q.waiting /\ q.items # <<>>

\* ... or empty.
MustWait(q, t) == t \notin q.waiting /\ q.items = <<>>

\* A mutant of Take: the item stays in the queue.
TakeKeeps(q) == q

\* What Pop returns and the queue it leaves.
Front(q) == Head(q.items)
Take(q) == [q EXCEPT !.items = Tail(@)]

\* pthread_cond_wait: t releases mutex_ and blocks, in one atomic step.
Wait(q, t) == [q EXCEPT !.waiting = @ \cup {t}]

\* pthread_cond_wait may return although nobody signalled.
SpuriousWakeup(q, t) == [q EXCEPT !.waiting = @ \ {t}]
=============================================================================
