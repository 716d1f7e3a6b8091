----------------------------- MODULE ThreadPool -----------------------------
(***************************************************************************)
(* ppl::common::ThreadPool (threadpool.h, threadpool.cc): a client thread  *)
(* that calls Init, AddTask and Destroy, the worker threads, and threads   *)
(* that Join a JoinableThreadTask.  A critical section under one mutex is  *)
(* one step; a thread is between two steps wherever the code holds no lock.*)
(*                                                                         *)
(* Every task is a JoinableThreadTask whose Process must run Steps[t]      *)
(* times before IsFinished() holds; it returns itself until then, and at   *)
(* the end nullptr or a task of its own choice.  Process may also AddTask. *)
(* A task object is handed to the pool once.                               *)
(*                                                                         *)
(* Bounds: MaxThreads on thread_num, MaxSessions on the number of Inits.   *)
(***************************************************************************)
EXTENDS MessageQueue, Naturals, FiniteSets

CONSTANTS
  MaxThreads,      \* the largest thread_num
  MaxSessions,     \* bound on the number of Init calls
  Task,            \* the task objects
  NoTask,          \* the null shared_ptr
  Steps,           \* Steps[t]: how often Process(t) runs until it is finished
  Joiner,          \* threads that call Join once
  Target,          \* Target[j]: the task j joins
  FaultSets        \* the values `faults' may have

ASSUME MaxThreadsAssumption == MaxThreads \in Nat \ {0}
ASSUME MaxSessionsAssumption == MaxSessions \in Nat
ASSUME NoTaskAssumption == NoTask \notin Task
ASSUME StepsAssumption == Steps \in [Task -> Nat \ {0}]
ASSUME TargetAssumption == Target \in [Joiner -> Task]
ASSUME FaultSetsAssumption ==
  FaultSets \subseteq SUBSET {"create", "init", "pop", "join"}

Worker == 1..MaxThreads

(* The value of ThreadInfo::pid before the worker has written it. *)
NoPid == 0

VARIABLES
  faults,      \* what may go wrong: pthread_create may fail, and the wait of
               \* Init, Pop or Join may end without a signal
  main,        \* where the client thread is
  idx,         \* its loop variable
  sessions,    \* number of Init calls so far
  threads,     \* threads_.size()
  pid,         \* pid[i]: threads_[i].pid, the worker it identifies or NoPid
  queues,      \* queues_[0..queue_num_-1], <<>> when it is null
  count,       \* count_for_init, a local variable of Init
  frame,       \* whether Init's locals (args, mutex, cond, count) exist
  worker,      \* worker[w]: where the thread is
  cur,         \* cur[w]: the worker's local variable task
  left,        \* left[t]: how many calls of Process are missing
  added,       \* added[t]: whether, and in which phase, t was handed over
  join         \* join[j]: where the joiner is

mainVars == <<faults, main, idx, sessions, threads, pid, count, frame>>
taskVars == <<faults, left, added, join>>
vars == <<faults, main, idx, sessions, threads, pid, count, frame,
          queues, worker, cur, left, added, join>>

MainState == {"down", "create", "lock", "initwait", "woken", "ready",
              "failed", "push", "join", "free"}
WorkerState == {"none", "born", "hello", "pop", "check", "process", "exited"}
AddState == {"no", "up", "closing"}

TypeOK ==
  /\ faults \in FaultSets
  /\ main \in MainState
  /\ idx \in 1..(MaxThreads + 1)
  /\ sessions \in 0..MaxSessions
  /\ threads \in 0..MaxThreads
  /\ pid \in [Worker -> Worker \cup {NoPid}]
  /\ \E n \in 0..MaxThreads :
       queues \in [1..n -> QueueType(Task \cup {NoTask}, Worker)]
  /\ count \in 0..MaxThreads
  /\ frame \in BOOLEAN
  /\ worker \in [Worker -> WorkerState]
  /\ cur \in [Worker -> Task \cup {NoTask}]
  /\ left \in [Task -> Nat]
  /\ \A t \in Task : left[t] <= Steps[t]
  /\ added \in [Task -> AddState]
  /\ join \in [Joiner -> {"idle", "locked", "waiting", "returned"}]

Init ==
  /\ faults \in FaultSets
  /\ main = "down"
  /\ idx = 1
  /\ sessions = 0
  /\ threads = 0
  /\ pid = [w \in Worker |-> NoPid]
  /\ queues = <<>>
  /\ count = 0
  /\ frame = FALSE
  /\ worker = [w \in Worker |-> "none"]
  /\ cur = [w \in Worker |-> NoTask]
  /\ left = Steps
  /\ added = [t \in Task |-> "no"]
  /\ join = [j \in Joiner |-> "idle"]

-----------------------------------------------------------------------------
(* The client thread: ThreadPool::Init *)

(***************************************************************************)
(* Allocate the queues and threads_, set up the locals.  The client may    *)
(* call Init again once every worker of the last session is gone.  The     *)
(* paths on which malloc fails (RC_OUT_OF_MEMORY) leave the modelled state *)
(* as it was: they are stuttering steps.                                   *)
(***************************************************************************)
BeginInit ==
  /\ main = "down"
  /\ sessions < MaxSessions
  /\ \A w \in Worker : worker[w] \in {"none", "exited"}
  /\ \E n \in Worker, share \in BOOLEAN :
       /\ queues' = [i \in 1..(IF share THEN 1 ELSE n) |-> EmptyQueue]
       /\ threads' = n
  /\ main' = "create"
  /\ idx' = 1
  /\ sessions' = sessions + 1
  /\ pid' = [w \in Worker |-> NoPid]
  /\ count' = 0
  /\ frame' = TRUE
  /\ worker' = [w \in Worker |-> "none"]
  /\ UNCHANGED <<cur, taskVars>>

\* A mutant of LastCreated: the loop runs once too often.
LastCreatedLate == idx > threads

LastCreated == idx = threads

CreateThread ==
  /\ main = "create"
  /\ worker' = [worker EXCEPT ![idx] = "born"]
  /\ idx' = idx + 1
  /\ main' = IF LastCreated THEN "lock" ELSE "create"
  /\ UNCHANGED <<sessions, threads, pid, count, frame, queues, cur, taskVars>>

(* Init returns RC_OTHER_ERROR; its locals are gone, the pool stays as it is. *)
CreateFails ==
  /\ "create" \in faults
  /\ main = "create"
  /\ main' = "failed"
  /\ frame' = FALSE
  /\ UNCHANGED <<idx, sessions, threads, pid, count, queues, worker, cur,
                 taskVars>>

(* Lock mutex_for_init and wait, whatever count_for_init already is. *)
WaitForInit ==
  /\ main = "lock"
  /\ main' = "initwait"
  /\ UNCHANGED <<idx, sessions, threads, pid, count, frame, queues, worker,
                 cur, taskVars>>

SpuriousInitWakeup ==
  /\ "init" \in faults
  /\ main = "initwait"
  /\ main' = "woken"
  /\ UNCHANGED <<idx, sessions, threads, pid, count, frame, queues, worker,
                 cur, taskVars>>

(* Destroy mutex_for_init and cond_for_init and return RC_SUCCESS. *)
InitReturns ==
  /\ main = "woken"
  /\ main' = "ready"
  /\ frame' = FALSE
  /\ UNCHANGED <<idx, sessions, threads, pid, count, queues, worker, cur,
                 taskVars>>

-----------------------------------------------------------------------------
(* The client thread: AddTask and Destroy *)

(***************************************************************************)
(* AddTask(t, i): a null task is refused with RC_INVALID_VALUE, anything   *)
(* else goes to queue i, which is 0 (here 1) if the queue is shared.       *)
(***************************************************************************)
AddTask(t, i) ==
  /\ t # NoTask
  /\ \E q \in Push(queues[i], t) : queues' = [queues EXCEPT ![i] = q]
  /\ added' = [added EXCEPT ![t] = IF main = "ready" THEN "up" ELSE "closing"]

(* The tasks that were never handed to the pool. *)
Fresh == {t \in Task : added[t] = "no"}

ClientAddsTask ==
  /\ main = "ready"
  /\ \E t \in Fresh \cup {NoTask}, i \in DOMAIN queues : AddTask(t, i)
  /\ UNCHANGED <<mainVars, worker, cur, left, join>>

(* Destroy is called; with threads_ empty it returns at once: a stutter. *)
BeginDestroy ==
  /\ main \in {"ready", "failed"}
  /\ main' = "push"
  /\ idx' = 1
  /\ UNCHANGED <<sessions, threads, pid, count, frame, queues, worker, cur,
                 taskVars>>

(* A mutant of KillQueue: all null tasks go to queue 0. *)
KillQueueShared(i) == 1

(* The queue the null task number i goes to. *)
KillQueue(i) == IF Len(queues) = threads THEN i ELSE 1

PushNull ==
  /\ main = "push"
  /\ \E q \in Push(queues[KillQueue(idx)], NoTask) :
       queues' = [queues EXCEPT ![KillQueue(idx)] = q]
  /\ idx' = IF idx = threads THEN 1 ELSE idx + 1
  /\ main' = IF idx = threads THEN "join" ELSE "push"
  /\ UNCHANGED <<sessions, threads, pid, count, frame, worker, cur, taskVars>>

\* A mutant of LastJoined: only the first worker is waited for.
LastJoinedEarly == TRUE

LastJoined == idx = threads

(***************************************************************************)
(* pthread_join(threads_[idx].pid): returns when that worker has returned. *)
(* Of a pid nobody wrote the join is undefined; here it fails at once.     *)
(***************************************************************************)
JoinWorker ==
  /\ main = "join"
  /\ pid[idx] # NoPid => worker[pid[idx]] = "exited"
  /\ idx' = IF LastJoined THEN 1 ELSE idx + 1
  /\ main' = IF LastJoined THEN "free" ELSE "join"
  /\ UNCHANGED <<sessions, threads, pid, count, frame, queues, worker, cur,
                 taskVars>>

FreeQueues ==
  /\ main = "free"
  /\ main' = "down"
  /\ threads' = 0
  /\ queues' = <<>>
  /\ UNCHANGED <<idx, sessions, pid, count, frame, worker, cur, taskVars>>

-----------------------------------------------------------------------------
(* The worker threads: ThreadPool::ThreadWorker *)

(***************************************************************************)
(* The queue that Init put into the worker's ThreadArg.  A worker that     *)
(* outlives its queue (QueuesOutliveWorkers) has no defined step left.     *)
(***************************************************************************)
QueueOf(w) == IF Len(queues) = threads THEN w ELSE 1
HasQueue(w) == QueueOf(w) \in DOMAIN queues

(* arg->info->pid = pthread_self(), without a lock. *)
WritePid(w) ==
  /\ worker[w] = "born"
  /\ pid' = [pid EXCEPT ![w] = w]
  /\ worker' = [worker EXCEPT ![w] = "hello"]
  /\ UNCHANGED <<main, idx, sessions, threads, count, frame, queues, cur,
                 taskVars>>

\* A mutant of LastToArrive: every worker signals.
LastToArriveAny == TRUE

LastToArrive == count + 1 = threads

(* Count itself in; the last one signals, which wakes Init if it waits. *)
Hello(w) ==
  /\ worker[w] = "hello"
  /\ count' = count + 1
  /\ main' = IF main = "initwait" /\ LastToArrive THEN "woken" ELSE main
  /\ worker' = [worker EXCEPT ![w] = "pop"]
  /\ UNCHANGED <<idx, sessions, threads, pid, frame, queues, cur, taskVars>>

(* Pop returns a task, or the null task that ends the worker. *)
PopTask(w) ==
  LET i == QueueOf(w)
      t == Front(queues[i])
  IN  /\ worker[w] = "pop"
      /\ HasQueue(w)
      /\ CanTake(queues[i], w)
      /\ queues' = [queues EXCEPT ![i] = Take(@)]
      /\ cur' = [cur EXCEPT ![w] = t]
      /\ worker' = [worker EXCEPT ![w] = IF t = NoTask THEN "exited" ELSE "check"]
      /\ UNCHANGED <<mainVars, taskVars>>

PopWaits(w) ==
  LET i == QueueOf(w)
  IN  /\ worker[w] = "pop"
      /\ HasQueue(w)
      /\ MustWait(queues[i], w)
      /\ queues' = [queues EXCEPT ![i] = Wait(@, w)]
      /\ UNCHANGED <<mainVars, worker, cur, taskVars>>

SpuriousPopWakeup(w) ==
  /\ "pop" \in faults
  /\ worker[w] = "pop"
  /\ HasQueue(w)
  /\ w \in queues[QueueOf(w)].waiting
  /\ queues' = [queues EXCEPT ![QueueOf(w)] = SpuriousWakeup(@, w)]
  /\ UNCHANGED <<mainVars, worker, cur, taskVars>>

-----------------------------------------------------------------------------
(* JoinableThreadTask::Run in a worker, and Join *)

\* A mutant of RunSkips: Run always calls Process.
RunSkipsNever(w) == FALSE

RunSkips(w) == left[cur[w]] = 0

(* Run reads IsFinished() before it locks the task's mutex. *)
RunTests(w) ==
  /\ worker[w] = "check"
  /\ IF RunSkips(w)
       THEN /\ worker' = [worker EXCEPT ![w] = "pop"]
            /\ cur' = [cur EXCEPT ![w] = NoTask]
       ELSE /\ worker' = [worker EXCEPT ![w] = "process"]
            /\ UNCHANGED cur
  /\ UNCHANGED <<mainVars, queues, taskVars>>

Waiters(t) == {j \in Joiner : Target[j] = t /\ join[j] = "waiting"}

(* A mutant of WakeJoiner: Run does not signal. *)
WakeNobody(t) == UNCHANGED join

(* pthread_cond_signal(&cond_) of task t: one joiner leaves the wait. *)
WakeJoiner(t) ==
  \E rest \in Signal(Waiters(t)) :
    join' = [j \in Joiner |->
               IF j \in Waiters(t) \ rest THEN "locked" ELSE join[j]]

(* What Process(t) may return: itself until it is finished. *)
NextTasks(t) ==
  IF left[t] > 1 THEN {t} ELSE {t, NoTask} \cup Fresh

(***************************************************************************)
(* Process runs once, under the mutex, and signals.  It returns the task   *)
(* the worker runs next; it may also hand one new task to the pool itself. *)
(***************************************************************************)
Process(w) ==
  /\ worker[w] = "process"
  /\ left' = [left EXCEPT ![cur[w]] = @ - 1]
  /\ WakeJoiner(cur[w])
  /\ \E n \in NextTasks(cur[w]) :
       /\ cur' = [cur EXCEPT ![w] = n]
       /\ worker' = [worker EXCEPT ![w] = IF n = NoTask THEN "pop" ELSE "check"]
       /\ \/ /\ n \in Fresh
             /\ added' = [added EXCEPT ![n] =
                            IF main = "ready" THEN "up" ELSE "closing"]
             /\ UNCHANGED queues
          \/ n \notin Fresh /\ UNCHANGED <<added, queues>>
          \/ /\ n \notin Fresh
             /\ \E t \in Fresh, i \in DOMAIN queues : AddTask(t, i)
  /\ UNCHANGED mainVars

CallJoin(j) ==
  /\ join[j] = "idle"
  /\ join' = [join EXCEPT ![j] = "locked"]
  /\ UNCHANGED <<mainVars, queues, worker, cur, left, added>>

JoinMayReturn(j) == left[Target[j]] = 0

(* With the task's mutex held: return if it is finished, else wait. *)
JoinTests(j) ==
  /\ join[j] = "locked"
  /\ join' = [join EXCEPT ![j] =
                IF JoinMayReturn(j) THEN "returned" ELSE "waiting"]
  /\ UNCHANGED <<mainVars, queues, worker, cur, left, added>>

SpuriousJoinWakeup(j) ==
  /\ "join" \in faults
  /\ join[j] = "waiting"
  /\ join' = [join EXCEPT ![j] = "locked"]
  /\ UNCHANGED <<mainVars, queues, worker, cur, left, added>>

-----------------------------------------------------------------------------
ClientStep ==
  \/ BeginInit \/ CreateThread \/ CreateFails \/ WaitForInit
  \/ SpuriousInitWakeup \/ InitReturns \/ ClientAddsTask
  \/ BeginDestroy \/ PushNull \/ JoinWorker \/ FreeQueues

WorkerStep(w) ==
  \/ WritePid(w) \/ Hello(w) \/ PopTask(w) \/ PopWaits(w)
  \/ RunTests(w) \/ Process(w)

Next ==
  \/ ClientStep
  \/ \E w \in Worker : WorkerStep(w) \/ SpuriousPopWakeup(w)
  \/ \E j \in Joiner : CallJoin(j) \/ JoinTests(j) \/ SpuriousJoinWakeup(j)

Spec == Init /\ [][Next]_vars

(***************************************************************************)
(* Every thread is scheduled again and again and gets the mutex it asks    *)
(* for; Process returns.  The client finishes the calls it has begun, but  *)
(* nothing makes it begin one, and nothing wakes a thread without signal.  *)
(***************************************************************************)
Fairness ==
  /\ WF_vars(CreateThread \/ WaitForInit \/ InitReturns
             \/ PushNull \/ JoinWorker \/ FreeQueues)
  /\ \A w \in Worker : WF_vars(WorkerStep(w))
  /\ \A j \in Joiner : WF_vars(JoinTests(j))

FairSpec == Spec /\ Fairness

-----------------------------------------------------------------------------
(* Safety *)

(* Init runs to its end, and its wait ends only when a worker signals. *)
Sound == faults \cap {"create", "init"} = {}

(***************************************************************************)
(* A worker reads its ThreadArg, and the mutex, condition and counter it   *)
(* points to, until it has counted itself in (threadpool.cc:76-88).  They  *)
(* are local variables of Init, which must wait for the workers ("waiting  *)
(* for thread(s) to finish init", threadpool.cc:238) before it returns.    *)
(***************************************************************************)
InitWaitsForWorkers ==
  (\E w \in Worker : worker[w] \in {"born", "hello"}) => frame

(* It does, unless a thread cannot be created or Init's wait ends too soon. *)
InitLocalsAlive == Sound => InitWaitsForWorkers

(***************************************************************************)
(* Each worker writes its own pid, without a lock.  Destroy joins every    *)
(* thread in threads_ (threadpool.cc:266-268) and must find it there.      *)
(***************************************************************************)
JoinsKnownWorkers ==
  Sound /\ main \in {"ready", "push", "join"} => \A i \in 1..threads : pid[i] = i

(***************************************************************************)
(* Nor does a worker use a queue after Destroy has freed it                *)
(* (threadpool.cc:271-277).                                                *)
(***************************************************************************)
QueuesOutliveWorkers ==
  Sound /\ (\E w \in Worker : worker[w] \in {"pop", "check", "process"})
    => queues # <<>>

(* Workers follow no pointer to memory that Init or Destroy has given up. *)
NoDanglingPointers == InitLocalsAlive /\ QueuesOutliveWorkers

(***************************************************************************)
(* Process is never called on a finished task, although Run tests          *)
(* IsFinished() without the lock (threadpool.cc:44): while each task is    *)
(* handed over once, no other worker can finish it in between.             *)
(***************************************************************************)
ProcessOnlyUnfinished ==
  \A w \in Worker : worker[w] = "process" => left[cur[w]] > 0

(* Liveness *)

(***************************************************************************)
(* A task handed to the pool while it is up is run until it is finished,   *)
(* whatever Destroy does in the meantime: the null tasks queue behind it.  *)
(***************************************************************************)
TaskFinishes ==
  \A t \in Task : (Sound /\ added[t] = "up") ~> (left[t] = 0)

(* Destroy returns: every worker takes one null task and ends. *)
DestroyReturns == (Sound /\ main = "push") ~> (main = "down")

(***************************************************************************)
(* A thread that joins a task handed over to the pool gets out of Join, if *)
(* it is the only one that joins this task: Run signals one joiner only.   *)
(***************************************************************************)
JoinReturns ==
  \A j \in Joiner :
    (Sound /\ join[j] = "locked" /\ added[Target[j]] = "up") ~> (join[j] = "returned")

(***************************************************************************)
(* Init returns once all workers have counted themselves in, as the        *)
(* comment "waiting for thread(s) to finish init" (threadpool.cc:238) and  *)
(* the test ASSERT_TRUE(tp.Init(5) == RC_SUCCESS) say.                     *)
(***************************************************************************)
InitEventuallyReturns == (main = "create") ~> (main = "ready")

-----------------------------------------------------------------------------
(* The pool implements TaskExecutor. *)

Phase ==
  CASE main \in {"ready", "failed"} -> "up"
    [] main \in {"push", "join", "free"} -> "closing"
    [] OTHER -> "down"

Queued(t) ==
  \E i \in DOMAIN queues :
    \E k \in DOMAIN queues[i].items : queues[i].items[k] = t

TaskStatus ==
  [t \in Task |->
     IF added[t] = "no" THEN "new"
     ELSE IF left[t] = 0 THEN "done"
     ELSE IF \E w \in Worker : cur[w] = t THEN "running"
     ELSE IF ~Queued(t) THEN "dropped"
     ELSE IF added[t] = "up" THEN "accepted" ELSE "late"]

Executor == INSTANCE TaskExecutor WITH phase <- Phase, status <- TaskStatus

(***************************************************************************)
(* Every step of the pool is a step of TaskExecutor or leaves its state    *)
(* unchanged: tasks run once, and Destroy returns after all the accepted.  *)
(***************************************************************************)
ImplementsExecutor ==
  /\ Executor!Init
  /\ [][Sound => [Executor!Next]_<<Phase, TaskStatus>>]_vars
=============================================================================
