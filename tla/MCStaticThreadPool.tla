------------------------- MODULE MCStaticThreadPool -------------------------
(* StaticThreadPool with a few threads, runs and sessions. *)
EXTENDS StaticThreadPool

(* Threads may not be created, and one wait may end without a signal. *)
SomeFaults == {{"create", "wait"}}
=============================================================================
