----------------------------- MODULE FIFOQueue -----------------------------
(***************************************************************************)
(* What a queue of any capacity promises: what is put in comes out once,   *)
(* in the order in which it was put in.                                    *)
(***************************************************************************)
EXTENDS Sequences

CONSTANT Item
VARIABLE queue

Init == queue = <<>>

Put(x) == queue' = Append(queue, x)
Get == queue # <<>> /\ queue' = Tail(queue)

Next == Get \/ \E x \in Item : Put(x)

Spec == Init /\ [][Next]_queue
=============================================================================
