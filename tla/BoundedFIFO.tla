----------------------------- MODULE BoundedFIFO -----------------------------
(***************************************************************************)
(* What a bounded queue promises to one producer and one consumer: a push  *)
(* appends when there is room, a pop delivers the oldest element.  A call  *)
(* that fails changes nothing and is not a step.                           *)
(***************************************************************************)
EXTENDS Sequences, Naturals

CONSTANTS Item, None, Capacity

VARIABLES queue,    \* the elements in the queue, oldest first
          out       \* what the last successful pop delivered

Init == queue = <<>> /\ out = None

Push ==
  /\ Len(queue) < Capacity
  /\ \E x \in Item : queue' = Append(queue, x)
  /\ UNCHANGED out

Pop ==
  /\ queue # <<>>
  /\ out' = Head(queue)
  /\ queue' = Tail(queue)

Next == Push \/ Pop

Spec == Init /\ [][Next]_<<queue, out>>
=============================================================================
