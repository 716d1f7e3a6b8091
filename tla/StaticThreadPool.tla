-------------------------- MODULE StaticThreadPool --------------------------
(***************************************************************************)
(* ppl::common::StaticThreadPool (threadpool.h, threadpool.cc): a client   *)
(* thread and its workers meet in one Barrier, at the start and at the end *)
(* of each run.  The function of run number r is modelled by r.            *)
(*                                                                         *)
(* The client keeps to the comment at threadpool.h:132: it calls Wait      *)
(* after RunAsync before it starts another run or destroys the pool.       *)
(*                                                                         *)
(* Bounds: MaxThreads on thread_num, MaxRuns on the runs of a session,     *)
(* MaxSessions on the calls of Init; one wakeup without signal.            *)
(***************************************************************************)
EXTENDS Barrier, Sequences, FiniteSets

CONSTANTS MaxThreads, MaxRuns, MaxSessions,
          FaultSets        \* the values `faults' may have

ASSUME MaxThreadsAssumption == MaxThreads \in Nat \ {0}
ASSUME MaxRunsAssumption == MaxRuns \in Nat
ASSUME MaxSessionsAssumption == MaxSessions \in Nat
ASSUME FaultSetsAssumption == FaultSets \subseteq SUBSET {"create", "wait"}

Worker == 1..MaxThreads
Client == 0

(* func_ when it holds no function. *)
NullFunc == 0

VARIABLES
  faults,      \* what may still go wrong: "create", pthread_create may fail;
               \* "wait", a wait in the barrier may end without a signal
  woken,       \* whether one has
  main,        \* where the client thread is
  idx,         \* the loop variable of Init and Destroy
  threads,     \* threads_.size()
  sessions,    \* number of calls of Init
  runs,        \* number of calls of RunAsync in this session
  func,        \* func_
  barrier,     \* barrier_
  worker,      \* worker[w]: where the thread is
  calls        \* history: the functions the worker has called

poolVars == <<faults, woken, idx, threads, sessions, runs, func>>
vars == <<faults, woken, main, idx, threads, sessions, runs, func, barrier, worker,
          calls>>

MainState == {"down", "create", "ready", "begin", "beginning", "between",
              "end", "ending", "quit", "quitting", "join"}
WorkerState == {"none", "start", "starting", "test", "run", "finish",
                "finishing", "exited"}

TypeOK ==
  /\ faults \in FaultSets \cup {f \ {"wait"} : f \in FaultSets}
  /\ woken \in BOOLEAN
  /\ main \in MainState
  /\ idx \in 1..(MaxThreads + 1)
  /\ threads \in 0..MaxThreads
  /\ sessions \in 0..MaxSessions
  /\ runs \in 0..MaxRuns
  /\ func \in 0..MaxRuns
  /\ barrier \in BarrierType(Worker \cup {Client}, MaxThreads + 1)
  /\ worker \in [Worker -> WorkerState]
  /\ calls \in [Worker -> Seq(1..MaxRuns)]

Init ==
  /\ faults \in FaultSets
  /\ woken = FALSE
  /\ main = "down"
  /\ idx = 1
  /\ threads = 0 /\ sessions = 0 /\ runs = 0
  /\ func = NullFunc
  /\ barrier = NewBarrier
  /\ worker = [w \in Worker |-> "none"]
  /\ calls = [w \in Worker |-> <<>>]

-----------------------------------------------------------------------------
(* The client thread *)

\* A mutant of Parties: the client is forgotten.
PartiesWithoutClient(n) == n

(* The threads that meet in the barrier: n workers and the client. *)
Parties(n) == n + 1

BeginInit ==
  /\ main = "down"
  /\ threads = 0
  /\ sessions < MaxSessions
  /\ \E n \in Worker :
       /\ barrier' = Reset(barrier, Parties(n))
       /\ threads' = n
  /\ main' = "create"
  /\ idx' = 1
  /\ sessions' = sessions + 1
  /\ runs' = 0
  /\ calls' = [w \in Worker |-> <<>>]
  /\ UNCHANGED <<faults, woken, func, worker>>

CreateThread ==
  /\ main = "create"
  /\ worker' = [worker EXCEPT ![idx] = "start"]
  /\ idx' = idx + 1
  /\ main' = IF idx = threads THEN "ready" ELSE "create"
  /\ UNCHANGED <<threads, faults, woken, sessions, runs, func, barrier, calls>>

\* A mutant of ShrinkTo: the barrier still expects the missing threads.
ShrinkThreadsOnly(n) == threads' = n /\ UNCHANGED barrier

(* Reset the barrier, while workers may be calling Wait, and drop the rest. *)
ShrinkTo(n) == threads' = n /\ barrier' = Reset(barrier, Parties(n))

(* Init returns RC_OTHER_ERROR: the threads created so far stay usable. *)
CreateFails ==
  /\ "create" \in faults
  /\ main = "create"
  /\ ShrinkTo(idx - 1)
  /\ main' = "ready"
  /\ UNCHANGED <<idx, faults, woken, sessions, runs, func, worker, calls>>

(* The client calls barrier_.Wait() and goes on to `next' when it returns. *)
ClientArrives(at, waits, next) ==
  /\ main = at
  /\ main' = IF IsLast(barrier) THEN next ELSE waits
  /\ barrier' = Arrive(barrier, Client)
  /\ UNCHANGED <<threads, faults, woken, sessions, runs, func, worker, calls>>

ClientLeaves(waits, next) ==
  /\ main = waits
  /\ Client \notin barrier.waiting
  /\ main' = next
  /\ UNCHANGED <<threads, faults, woken, sessions, runs, func, barrier, worker, calls>>

RunAsync ==
  /\ main = "ready"
  /\ runs < MaxRuns
  /\ runs' = runs + 1
  /\ func' = runs + 1
  /\ main' = "begin"
  /\ UNCHANGED <<idx, threads, faults, woken, sessions, barrier, worker, calls>>

NotifyStart ==
  /\ \/ ClientArrives("begin", "beginning", "between")
     \/ ClientLeaves("beginning", "between")
  /\ UNCHANGED idx

(* The client calls Wait, as Run does right away. *)
CallWait ==
  /\ main = "between"
  /\ main' = "end"
  /\ UNCHANGED <<poolVars, barrier, worker, calls>>

WaitForEnd ==
  /\ \/ ClientArrives("end", "ending", "ready")
     \/ ClientLeaves("ending", "ready")
  /\ UNCHANGED idx

\* A mutant of Stop: func_ keeps the last function.
StopKeepingFunc == UNCHANGED func

Stop == func' = NullFunc

(* Destroy, called on a pool that Init has set up, or that has no threads. *)
BeginDestroy ==
  /\ main \in {"ready", "down"}
  /\ Stop
  /\ main' = "quit"
  /\ UNCHANGED <<idx, threads, faults, woken, sessions, runs, barrier, worker, calls>>

AfterQuit == IF threads = 0 THEN "down" ELSE "join"

NotifyQuit ==
  /\ \/ ClientArrives("quit", "quitting", AfterQuit)
     \/ ClientLeaves("quitting", AfterQuit)
  /\ idx' = 1

JoinWorker ==
  /\ main = "join"
  /\ worker[idx] = "exited"
  /\ idx' = idx + 1
  /\ IF idx = threads THEN main' = "down" /\ threads' = 0
                      ELSE UNCHANGED <<main, threads>>
  /\ UNCHANGED <<faults, woken, sessions, runs, func, barrier, worker, calls>>

-----------------------------------------------------------------------------
(* The worker threads: StaticThreadPool::ThreadWorker *)

WorkerArrives(w, at, waits, next) ==
  /\ worker[w] = at
  /\ worker' = [worker EXCEPT ![w] = IF IsLast(barrier) THEN next ELSE waits]
  /\ barrier' = Arrive(barrier, w)
  /\ UNCHANGED <<main, poolVars, calls>>

WorkerLeaves(w, waits, next) ==
  /\ worker[w] = waits
  /\ w \notin barrier.waiting
  /\ worker' = [worker EXCEPT ![w] = next]
  /\ UNCHANGED <<main, poolVars, barrier, calls>>

WaitForStart(w) ==
  \/ WorkerArrives(w, "start", "starting", "test")
  \/ WorkerLeaves(w, "starting", "test")

TestFunc(w) ==
  /\ worker[w] = "test"
  /\ worker' = [worker EXCEPT ![w] = IF func = NullFunc THEN "exited" ELSE "run"]
  /\ UNCHANGED <<main, poolVars, barrier, calls>>

(* To call a func_ that is null by now would end the program: no step. *)
CallFunc(w) ==
  /\ worker[w] = "run"
  /\ func # NullFunc
  /\ calls' = [calls EXCEPT ![w] = Append(@, func)]
  /\ worker' = [worker EXCEPT ![w] = "finish"]
  /\ UNCHANGED <<main, poolVars, barrier>>

NotifyEnd(w) ==
  \/ WorkerArrives(w, "finish", "finishing", "start")
  \/ WorkerLeaves(w, "finishing", "start")

WorkerStep(w) == WaitForStart(w) \/ TestFunc(w) \/ CallFunc(w) \/ NotifyEnd(w)

SpuriousWakeup ==
  /\ "wait" \in faults
  /\ \E t \in barrier.waiting : barrier' = LeaveSpuriously(barrier, t)
  /\ faults' = faults \ {"wait"}
  /\ woken' = TRUE
  /\ UNCHANGED <<main, idx, threads, sessions, runs, func, worker, calls>>

-----------------------------------------------------------------------------
Next ==
  \/ BeginInit \/ CreateThread \/ CreateFails
  \/ RunAsync \/ NotifyStart \/ CallWait \/ WaitForEnd
  \/ BeginDestroy \/ NotifyQuit \/ JoinWorker
  \/ \E w \in Worker : WorkerStep(w)
  \/ SpuriousWakeup

Spec == Init /\ [][Next]_vars

(***************************************************************************)
(* Every thread is scheduled again and again, gets the lock it asks for,   *)
(* and the function returns.  The client finishes the calls it has begun;  *)
(* nothing makes it begin one.                                             *)
(***************************************************************************)
Fairness ==
  /\ WF_vars(CreateThread \/ NotifyStart \/ WaitForEnd \/ NotifyQuit
             \/ JoinWorker)
  /\ \A w \in Worker : WF_vars(WorkerStep(w))

FairSpec == Spec /\ Fairness

-----------------------------------------------------------------------------
(* So far no wait in the barrier has ended without a signal. *)
Signalled == ~woken

(***************************************************************************)
(* func_ is assigned without a lock (threadpool.cc:283, 345): no worker    *)
(* may be testing or calling it then.                                      *)
(***************************************************************************)
FuncUnusedWhenAssigned ==
  [][Signalled /\ func' # func =>
       \A w \in Worker : worker[w] \notin {"test", "run"}]_vars

(* Between RunAsync and the end of Wait. *)
Busy == main \in {"begin", "beginning", "between", "end", "ending"}

Todo == IF Busy THEN {w \in 1..threads : Len(calls[w]) < runs} ELSE {}

FJ == INSTANCE ForkJoin WITH Index <- Worker, busy <- Busy, todo <- Todo

(***************************************************************************)
(* The pool implements ForkJoin: what RunAsync starts (threadpool.cc:344)  *)
(* is called once by each worker, and all of it before Wait returns (349). *)
(***************************************************************************)
ImplementsForkJoin ==
  /\ FJ!Init
  /\ [][Signalled => [FJ!Next]_<<Busy, Todo>>]_vars

(***************************************************************************)
(* RunAsync returns and so does the Wait after it (threadpool.cc:344-351). *)
(***************************************************************************)
RunReturns ==
  /\ (main = "begin") ~> (main = "between" \/ woken)
  /\ (main = "end") ~> (main = "ready" \/ woken)

(***************************************************************************)
(* Destroy (threadpool.cc:282-289) ends all workers and returns, also if   *)
(* Init could not create some of the threads and resized the barrier under *)
(* the others.  A second Destroy, such as that of the destructor after an  *)
(* explicit one (threadpool.h:120), finds no workers but a barrier that    *)
(* still expects them: these calls, and no others, never return.           *)
(***************************************************************************)
DestroyReturns ==
  /\ (main = "quit" /\ barrier.max <= Parties(threads)) ~> (main = "down" \/ woken)
  /\ (main = "quit" /\ barrier.max > Parties(threads)) ~> (woken \/ [](main = "quitting"))
=============================================================================
