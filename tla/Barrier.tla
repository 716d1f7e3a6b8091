------------------------------ MODULE Barrier ------------------------------
(***************************************************************************)
(* The state of one ppl::common::Barrier (barrier.h) and the effect of its *)
(* operations on it.  A barrier is the record                              *)
(*                                                                         *)
(*   counter  counter_, the threads that have arrived in this round        *)
(*   max      max_count_                                                   *)
(*   waiting  the threads blocked in pthread_cond_wait(&cond_, &lock_)     *)
(*                                                                         *)
(* Wait holds lock_ from its start until it blocks or returns, which is    *)
(* one step.  A woken thread only has to get the lock again to return.     *)
(***************************************************************************)
EXTENDS Naturals

NewBarrier == [counter |-> 0, max |-> 0, waiting |-> {}]

BarrierType(Thread, Max) ==
  [counter : 0..Max, max : 0..Max, waiting : SUBSET Thread]

(* Reset assigns max_count_ without the lock. *)
Reset(b, max) == [b EXCEPT !.max = max]

(* Whether a thread that calls Wait now is the last one of its round. *)
IsLast(b) == b.counter + 1 >= b.max

\* A mutant of Broadcast: the counter keeps its value.
BroadcastKeepingCount(b) == [b EXCEPT !.counter = @ + 1, !.waiting = {}]

Broadcast(b) == [b EXCEPT !.counter = 0, !.waiting = {}]

(* Thread t calls Wait: it blocks, or ends the round and wakes the others. *)
Arrive(b, t) ==
  IF IsLast(b) THEN Broadcast(b)
               ELSE [b EXCEPT !.counter = @ + 1, !.waiting = @ \cup {t}]

(* pthread_cond_wait may return although nobody signalled. *)
LeaveSpuriously(b, t) == [b EXCEPT !.waiting = @ \ {t}]
=============================================================================
