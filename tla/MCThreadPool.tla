---------------------------- MODULE MCThreadPool ----------------------------
(* ThreadPool with two or three tasks and a joiner. *)
EXTENDS ThreadPool

CONSTANTS t1, t2, t3, j1

TwoTasks == {t1, t2}
ThreeTasks == {t1, t2, t3}

(* t1 needs two calls of Process, the others one. *)
TwoSteps == [t \in TwoTasks |-> IF t = t1 THEN 2 ELSE 1]
ThreeSteps == [t \in ThreeTasks |-> IF t = t1 THEN 2 ELSE 1]

JoinFirst == [j \in {j1} |-> t1]

(* Init is left alone, or everything may go wrong. *)
SomeFaults == {{"pop", "join"}, {"create", "init", "pop", "join"}}

(* One thing goes wrong in Init. *)
InitFaults == {{"create"}, {"init"}}
=============================================================================
