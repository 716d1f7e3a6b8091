------------------------------ MODULE ForkJoin ------------------------------
(***************************************************************************)
(* What a StaticThreadPool promises (threadpool.h:127-135), without its    *)
(* threads and its barrier: a run calls the function once for each thread  *)
(* index, all calls happen between its start and its end, and no two runs  *)
(* overlap.                                                                *)
(***************************************************************************)
CONSTANT Index             \* the thread indices there may be

VARIABLES busy,            \* whether a run is going on
          todo             \* the indices its function is still to be called for

Init == busy = FALSE /\ todo = {}

Start == ~busy /\ busy' = TRUE /\ todo' \in SUBSET Index

Call(i) == i \in todo /\ todo' = todo \ {i} /\ UNCHANGED busy

Finish == busy /\ todo = {} /\ busy' = FALSE /\ UNCHANGED todo

Next == Start \/ Finish \/ \E i \in Index : Call(i)

Spec == Init /\ [][Next]_<<busy, todo>>
=============================================================================
