-------------------------- MODULE ThreadPool_proofs --------------------------
(***************************************************************************)
(* The ThreadPool uses no memory that was given up, joins every worker and *)
(* processes no finished task, for any number of threads, tasks, joiners,  *)
(* and it implements TaskExecutor.                                         *)
(*                                                                         *)
(* What the proofs need to know beyond the types: how far the client has   *)
(* come bounds the workers (InPlace, Lifecycle), count_for_init counts the *)
(* workers past their greeting (Counted), and a task object is at one      *)
(* place at most, in one queue or in the hands of one worker (Handed).     *)
(* The last section is about the MessageQueue in itself.                   *)
(***************************************************************************)
EXTENDS ThreadPool, MessageQueueClients, Lemmas

(***************************************************************************)
(* What Push (message_queue.h:25-30) does to the two parts of a queue: the *)
(* item goes to the back, and the signal wakes one waiter if there is one. *)
(***************************************************************************)
LEMMA PushEffect ==
  ASSUME NEW Item, NEW Thread, NEW q \in QueueType(Item, Thread),
         NEW x \in Item, NEW r \in Push(q, x)
  PROVE  /\ r \in QueueType(Item, Thread)
         /\ r.items = Append(q.items, x)
         /\ \/ q.waiting = {} /\ r.waiting = {}
            \/ \E t \in q.waiting : r.waiting = q.waiting \ {t}
BY DEF Push, Signal, QueueType

(* What Pop (message_queue.h:32-41) does: the first item leaves the queue. *)
LEMMA TakeEffect ==
  ASSUME NEW Item, NEW Thread, NEW q \in QueueType(Item, Thread),
         q.items # <<>>
  PROVE  /\ Take(q) \in QueueType(Item, Thread)
         /\ Take(q).items = Tail(q.items)
         /\ Front(q) \in Item
         /\ q.items \in Seq(Item)
BY HeadTailProperties DEF Take, Front, QueueType

QType == QueueType(Task \cup {NoTask}, Worker)

(* Where the client can be with how many threads and queues *)
InPlace ==
  /\ main = "down" => threads = 0 /\ queues = <<>>
  /\ main # "down" => threads \in 1..MaxThreads /\ Len(queues) \in {1, threads}
  /\ main \in {"create", "push", "join"} => idx <= threads

(* The workers that have counted themselves in *)
Arrived == {w \in Worker : worker[w] \in {"pop", "check", "process", "exited"}}

(* What the client's progress says of the workers and of Init's locals *)
Lifecycle ==
  /\ frame = TRUE <=> main \in {"create", "lock", "initwait", "woken"}
  /\ main = "create" => \A w \in Worker : w >= idx => worker[w] = "none"
  /\ main # "down" => \A w \in Worker : worker[w] # "none" => w <= threads
  /\ \A w \in Worker : worker[w] \notin {"none", "born"} => pid[w] = w

Counted == count = Cardinality(Arrived)

QueuedOnce(t) ==
  /\ \A i \in DOMAIN queues : AtMostOnce(queues[i].items, t)
  /\ \A i, j \in DOMAIN queues :
       Occurs(queues[i].items, t) /\ Occurs(queues[j].items, t) => i = j

HandedOnce(t) ==
  /\ QueuedOnce(t)
  /\ Queued(t) => \A w \in Worker : cur[w] # t
  /\ \A v, w \in Worker : cur[v] = t /\ cur[w] = t => v = w
  /\ added[t] = "no" => ~Queued(t) /\ \A w \in Worker : cur[w] # t

Handed ==
  /\ \A t \in Task : HandedOnce(t)
  /\ \A w \in Worker : cur[w] # NoTask <=> worker[w] \in {"check", "process"}
  /\ ProcessOnlyUnfinished

-----------------------------------------------------------------------------
(* The queues *)

LEMMA WorkerFinite ==
  IsFiniteSet(Worker) /\ Cardinality(Worker) = MaxThreads /\ MaxThreads \in Nat /\ MaxThreads >= 1
BY MaxThreadsAssumption, FS_Interval DEF Worker

LEMMA QueuesShape ==
  ASSUME TypeOK
  PROVE  /\ queues \in Seq(QType)
         /\ Len(queues) \in 0..MaxThreads
         /\ DOMAIN queues = 1..Len(queues)
         /\ \A i \in DOMAIN queues :
              queues[i] \in QType /\ queues[i].items \in Seq(Task \cup {NoTask})
<1>1. PICK n \in 0..MaxThreads : queues \in [1..n -> QType]
  BY DEF TypeOK, QType
<1>2. n \in Nat
  BY WorkerFinite
<1>3. queues \in Seq(QType) /\ Len(queues) = n
  BY <1>1, <1>2, SeqDef, LenProperties
<1> QED BY <1>1, <1>3 DEF QType, QueueType

(* One queue is replaced by another: the array keeps its shape. *)
LEMMA QueueReplaced ==
  ASSUME TypeOK, NEW i \in DOMAIN queues, NEW q \in QType,
         queues' = [queues EXCEPT ![i] = q]
  PROVE  /\ \E n \in 0..MaxThreads : queues' \in [1..n -> QType]
         /\ DOMAIN queues' = DOMAIN queues
         /\ Len(queues') = Len(queues)
         /\ queues'[i] = q
         /\ \A j \in DOMAIN queues \ {i} : queues'[j] = queues[j]
<1>1. queues \in Seq(QType) /\ DOMAIN queues = 1..Len(queues) /\ Len(queues) \in 0..MaxThreads
  BY QueuesShape
<1>2. /\ queues' \in Seq(QType) /\ Len(queues') = Len(queues)
      /\ \A j \in 1..Len(queues) : queues'[j] = IF j = i THEN q ELSE queues[j]
  BY <1>1, ExceptSeq
<1>3. DOMAIN queues' = 1..Len(queues) /\ queues' \in [1..Len(queues) -> QType]
  BY <1>2, LenProperties
<1> QED BY <1>1, <1>2, <1>3

LEMMA QueuedOccurs ==
  \A t : Queued(t) <=> \E i \in DOMAIN queues : Occurs(queues[i].items, t)
BY DEF Queued, Occurs

LEMMA PushedItems ==
  ASSUME TypeOK, NEW i \in DOMAIN queues, NEW x \in Task \cup {NoTask},
         NEW q \in Push(queues[i], x), queues' = [queues EXCEPT ![i] = q]
  PROVE  /\ \E n \in 0..MaxThreads : queues' \in [1..n -> QType]
         /\ Len(queues') = Len(queues)
         /\ \A t : Queued(t)' <=> Queued(t) \/ t = x
         /\ \A t : QueuedOnce(t) /\ ~(t = x /\ Queued(t)) => QueuedOnce(t)'
<1>1. queues[i] \in QType /\ queues[i].items \in Seq(Task \cup {NoTask})
  BY QueuesShape
<1>2. q \in QType /\ q.items = Append(queues[i].items, x)
  BY <1>1, PushEffect DEF QType
<1>3. /\ \E n \in 0..MaxThreads : queues' \in [1..n -> QType]
      /\ Len(queues') = Len(queues)
      /\ DOMAIN queues' = DOMAIN queues
      /\ queues'[i] = q
      /\ \A j \in DOMAIN queues \ {i} : queues'[j] = queues[j]
  BY <1>2, QueueReplaced
<1>4. \A t : /\ Occurs(q.items, t) <=> Occurs(queues[i].items, t) \/ x = t
             /\ AtMostOnce(queues[i].items, t) /\ ~(x = t /\ Occurs(queues[i].items, t))
                  => AtMostOnce(q.items, t)
  BY <1>1, <1>2, AppendOccurs
<1>5. \A t : \A j \in DOMAIN queues :
        Occurs(queues'[j].items, t) <=> Occurs(queues[j].items, t) \/ (j = i /\ x = t)
  BY <1>3, <1>4
<1>6. \A t : Queued(t)' <=> \E j \in DOMAIN queues' : Occurs(queues'[j].items, t)
  BY DEF Queued, Occurs
<1>7. \A t : Queued(t)' <=> Queued(t) \/ t = x
  BY <1>3, <1>5, <1>6, QueuedOccurs
<1>8. ASSUME NEW t, QueuedOnce(t), ~(t = x /\ Queued(t)) PROVE QueuedOnce(t)'
  <2>1. ~(x = t /\ \E j \in DOMAIN queues : Occurs(queues[j].items, t))
    BY <1>8, QueuedOccurs
  <2>2. \A j \in DOMAIN queues' : AtMostOnce(queues'[j].items, t)
    <3>1. \A j \in DOMAIN queues : AtMostOnce(queues[j].items, t)
      BY <1>8 DEF QueuedOnce
    <3>2. AtMostOnce(q.items, t)
      BY <1>4, <2>1, <3>1
    <3>3. \A j \in DOMAIN queues' : j = i \/ (j \in DOMAIN queues \ {i} /\ queues'[j] = queues[j])
      BY <1>3
    <3> QED BY <1>3, <3>1, <3>2, <3>3
  <2>3. \A j, k \in DOMAIN queues' :
          Occurs(queues'[j].items, t) /\ Occurs(queues'[k].items, t) => j = k
    <3>1. \A j, k \in DOMAIN queues :
            Occurs(queues[j].items, t) /\ Occurs(queues[k].items, t) => j = k
      BY <1>8 DEF QueuedOnce
    <3>2. \A j \in DOMAIN queues : x = t => ~Occurs(queues[j].items, t)
      BY <2>1
    <3>3. \A j \in DOMAIN queues' :
            j \in DOMAIN queues /\ (Occurs(queues'[j].items, t)
                                      => Occurs(queues[j].items, t) \/ (j = i /\ x = t))
      BY <1>3, <1>5
    <3> QED BY <3>1, <3>2, <3>3
  <2> QED BY <2>2, <2>3 DEF QueuedOnce
<1> QED BY <1>3, <1>7, <1>8

LEMMA TakenItems ==
  ASSUME TypeOK, NEW i \in DOMAIN queues, queues[i].items # <<>>,
         queues' = [queues EXCEPT ![i] = Take(@)]
  PROVE  /\ \E n \in 0..MaxThreads : queues' \in [1..n -> QType]
         /\ Len(queues') = Len(queues)
         /\ Front(queues[i]) \in Task \cup {NoTask}
         /\ Queued(Front(queues[i]))
         /\ \A t : Queued(t)' => Queued(t)
         /\ \A t : Queued(t) => Queued(t)' \/ t = Front(queues[i])
         /\ \A t : QueuedOnce(t) => QueuedOnce(t)'
         /\ \A t : QueuedOnce(t) /\ t = Front(queues[i]) => ~Queued(t)'
<1> DEFINE s == queues[i].items
<1>1. queues[i] \in QType /\ s \in Seq(Task \cup {NoTask})
  BY QueuesShape
<1>2. /\ Take(queues[i]) \in QType /\ Take(queues[i]).items = Tail(s)
      /\ Front(queues[i]) \in Task \cup {NoTask}
      /\ Front(queues[i]) = Head(s)
  BY <1>1, TakeEffect DEF QType, Front
<1>3. /\ \E n \in 0..MaxThreads : queues' \in [1..n -> QType]
      /\ Len(queues') = Len(queues)
      /\ DOMAIN queues' = DOMAIN queues
      /\ queues'[i] = Take(queues[i])
      /\ \A j \in DOMAIN queues \ {i} : queues'[j] = queues[j]
  BY <1>2, QueueReplaced
<1>4. \A t : /\ Occurs(Tail(s), t) => Occurs(s, t)
             /\ Occurs(s, t) => Occurs(Tail(s), t) \/ Head(s) = t
             /\ Occurs(s, Head(s))
             /\ AtMostOnce(s, t) => AtMostOnce(Tail(s), t)
             /\ AtMostOnce(s, t) /\ Head(s) = t => ~Occurs(Tail(s), t)
  BY <1>1, TailOccurs
<1> HIDE DEF s
<1>5. \A t : \A j \in DOMAIN queues :
        /\ Occurs(queues'[j].items, t) => Occurs(queues[j].items, t)
        /\ Occurs(queues[j].items, t) => Occurs(queues'[j].items, t) \/ Head(s) = t
        /\ AtMostOnce(queues[j].items, t) => AtMostOnce(queues'[j].items, t)
  BY <1>2, <1>3, <1>4 DEF s
<1>6. \A t : Queued(t)' <=> \E j \in DOMAIN queues : Occurs(queues'[j].items, t)
  BY <1>3 DEF Queued, Occurs
<1>7. /\ Queued(Front(queues[i]))
      /\ \A t : Queued(t)' => Queued(t)
      /\ \A t : Queued(t) => Queued(t)' \/ t = Front(queues[i])
  BY <1>2, <1>4, <1>5, <1>6, QueuedOccurs DEF s
<1>8. \A t : QueuedOnce(t) => QueuedOnce(t)'
  BY <1>3, <1>5 DEF QueuedOnce
<1>9. ASSUME NEW t, QueuedOnce(t), t = Front(queues[i]) PROVE ~Queued(t)'
  <2>1. ~Occurs(queues'[i].items, t) /\ Occurs(queues[i].items, t)
    BY <1>2, <1>3, <1>4, <1>9 DEF QueuedOnce, s
  <2>2. \A j \in DOMAIN queues : Occurs(queues'[j].items, t) => j = i
    BY <1>5, <1>9, <2>1 DEF QueuedOnce
  <2> QED BY <1>6, <2>1, <2>2
<1> QED BY <1>2, <1>3, <1>7, <1>8, <1>9

(* Only who waits in queue i changes. *)
LEMMA SameItems ==
  ASSUME TypeOK, NEW i \in DOMAIN queues, NEW q \in QType,
         q.items = queues[i].items, queues' = [queues EXCEPT ![i] = q]
  PROVE  /\ \E n \in 0..MaxThreads : queues' \in [1..n -> QType]
         /\ Len(queues') = Len(queues)
         /\ \A t : Queued(t)' <=> Queued(t)
         /\ \A t : QueuedOnce(t) => QueuedOnce(t)'
<1>1. /\ \E n \in 0..MaxThreads : queues' \in [1..n -> QType]
      /\ Len(queues') = Len(queues)
      /\ DOMAIN queues' = DOMAIN queues
      /\ queues'[i] = q
      /\ \A j \in DOMAIN queues \ {i} : queues'[j] = queues[j]
  BY QueueReplaced
<1>2. \A j \in DOMAIN queues : queues'[j].items = queues[j].items
  BY <1>1
<1> QED BY <1>1, <1>2 DEF Queued, QueuedOnce

-----------------------------------------------------------------------------
(* The client's progress, and count_for_init *)

LEMMA PlaceKept == TypeOK /\ InPlace /\ [Next]_vars => InPlace'
<1> SUFFICES ASSUME TypeOK, InPlace, [Next]_vars PROVE InPlace'
  OBVIOUS
<1>0. /\ Len(queues) \in Nat /\ MaxThreads \in Nat /\ threads \in Nat /\ idx \in Nat
      /\ idx >= 1 /\ Worker = 1..MaxThreads
  BY QueuesShape, WorkerFinite DEF TypeOK, Worker
<1> USE DEF InPlace
<1>1. CASE BeginInit
  <2>1. PICK n \in Worker, share \in BOOLEAN :
          /\ queues' = [i \in 1..(IF share THEN 1 ELSE n) |-> EmptyQueue]
          /\ threads' = n
    BY <1>1 DEF BeginInit
  <2>2. PICK k \in Nat : k \in {1, n} /\ queues' = [i \in 1..k |-> EmptyQueue]
    BY <1>0, <2>1
  <2>3. queues' \in Seq({EmptyQueue}) /\ Len(queues') = k
    BY <2>2, SeqDef, LenProperties
  <2> QED BY <1>0, <1>1, <2>1, <2>2, <2>3 DEF BeginInit
<1>2. CASE CreateThread
  BY <1>0, <1>2 DEF CreateThread, LastCreated
<1>3. CASE \/ CreateFails \/ WaitForInit \/ SpuriousInitWakeup \/ InitReturns
           \/ BeginDestroy
  BY <1>0, <1>3 DEF CreateFails, WaitForInit, SpuriousInitWakeup, InitReturns, BeginDestroy
<1>4. CASE ClientAddsTask
  <2>1. PICK t \in Task, i \in DOMAIN queues : AddTask(t, i)
    BY <1>4 DEF ClientAddsTask, AddTask, Fresh
  <2>2. Len(queues') = Len(queues)
    BY <2>1, PushedItems DEF AddTask
  <2> QED BY <1>0, <1>4, <2>2 DEF ClientAddsTask, mainVars
<1>5. CASE PushNull
  <2>1. KillQueue(idx) \in DOMAIN queues
    <3>1. main = "push" /\ threads \in 1..MaxThreads /\ Len(queues) \in {1, threads}
          /\ idx <= threads
      BY <1>5 DEF PushNull
    <3>2. KillQueue(idx) \in 1..Len(queues)
      BY <1>0, <3>1 DEF KillQueue
    <3> QED BY <3>2, QueuesShape
  <2>2. Len(queues') = Len(queues)
    BY <1>5, <2>1, PushedItems DEF PushNull
  <2>3. /\ main = "push" /\ threads' = threads
        /\ main' = IF idx = threads THEN "join" ELSE "push"
        /\ idx' = IF idx = threads THEN 1 ELSE idx + 1
    BY <1>5 DEF PushNull
  <2> QED BY <1>0, <2>2, <2>3
<1>6. CASE JoinWorker
  BY <1>0, <1>6 DEF JoinWorker, LastJoined
<1>7. CASE FreeQueues
  BY <1>7 DEF FreeQueues
<1>8. ASSUME NEW w \in Worker, WritePid(w) \/ Hello(w) \/ RunTests(w) PROVE InPlace'
  BY <1>0, <1>8 DEF WritePid, Hello, RunTests, mainVars
<1>9. ASSUME NEW w \in Worker, PopTask(w) PROVE InPlace'
  <2>1. Len(queues') = Len(queues)
    BY <1>9, TakenItems DEF PopTask, HasQueue, CanTake
  <2>2. UNCHANGED <<main, threads, idx>> /\ queues' # <<>>
    BY <1>9, <2>1, QueuesShape DEF PopTask, mainVars, HasQueue
  <2> QED BY <1>0, <2>1, <2>2
<1>10. ASSUME NEW w \in Worker, PopWaits(w) \/ SpuriousPopWakeup(w) PROVE InPlace'
  <2> DEFINE i == QueueOf(w)
  <2>1. i \in DOMAIN queues /\ queues[i] \in QType
    BY <1>10, QueuesShape DEF PopWaits, SpuriousPopWakeup, HasQueue
  <2>2. Wait(queues[i], w) \in QType /\ SpuriousWakeup(queues[i], w) \in QType
    BY <2>1 DEF Wait, SpuriousWakeup, QType, QueueType
  <2>3. Len(queues') = Len(queues)
    BY <1>10, <2>1, <2>2, QueueReplaced DEF PopWaits, SpuriousPopWakeup
  <2> QED BY <1>0, <1>10, <2>3 DEF PopWaits, SpuriousPopWakeup, mainVars
<1>11. ASSUME NEW w \in Worker, Process(w) PROVE InPlace'
  <2>1. \/ UNCHANGED queues
        \/ \E t \in Task, i \in DOMAIN queues : AddTask(t, i)
    BY <1>11 DEF Process, Fresh
  <2>2. Len(queues') = Len(queues)
    BY <2>1, PushedItems DEF AddTask
  <2> QED BY <1>0, <1>11, <2>2 DEF Process, mainVars
<1>12. ASSUME NEW j \in Joiner, CallJoin(j) \/ JoinTests(j) \/ SpuriousJoinWakeup(j)
       PROVE  InPlace'
  BY <1>12 DEF CallJoin, JoinTests, SpuriousJoinWakeup, mainVars
<1>13. CASE UNCHANGED vars
  BY <1>13 DEF vars
<1> QED BY <1>1, <1>2, <1>3, <1>4, <1>5, <1>6, <1>7, <1>8, <1>9, <1>10, <1>11, <1>12,
           <1>13 DEF Next, ClientStep, WorkerStep

(* A worker goes on, nothing else changes that Lifecycle is about. *)
LEMMA WorkerGoesOn ==
  ASSUME TypeOK, Lifecycle, NEW w \in Worker, NEW s \in WorkerState,
         worker[w] \notin {"none", "born"}, worker' = [worker EXCEPT ![w] = s],
         UNCHANGED <<idx, threads, pid, frame>>,
         \/ UNCHANGED main
         \/ main = "initwait" /\ main' = "woken"
  PROVE  Lifecycle'
BY DEF Lifecycle, TypeOK

LEMMA LifecycleKept == TypeOK /\ InPlace /\ Lifecycle /\ [Next]_vars => Lifecycle'
<1> SUFFICES ASSUME TypeOK, InPlace, Lifecycle, [Next]_vars PROVE Lifecycle'
  OBVIOUS
<1>0. /\ MaxThreads \in Nat /\ threads \in Nat /\ idx \in Nat /\ Worker = 1..MaxThreads
      /\ worker \in [Worker -> WorkerState] /\ pid \in [Worker -> Worker \cup {NoPid}]
  BY WorkerFinite DEF TypeOK, Worker
<1>1. CASE BeginInit
  <2>1. /\ main' = "create" /\ frame' = TRUE
        /\ \A w \in Worker : worker'[w] = "none"
    BY <1>1 DEF BeginInit
  <2> QED BY <2>1 DEF Lifecycle
<1>2. CASE CreateThread
  <2>1. /\ main = "create" /\ main' \in {"create", "lock"} /\ idx' = idx + 1
        /\ threads' = threads /\ pid' = pid /\ frame' = frame
        /\ worker' = [worker EXCEPT ![idx] = "born"]
    BY <1>2 DEF CreateThread
  <2>2. idx <= threads
    BY <2>1 DEF InPlace
  <2>3. \A w \in Worker : worker'[w] = IF w = idx THEN "born" ELSE worker[w]
    BY <1>0, <2>1
  <2>4. \A w \in Worker : w >= idx + 1 => w >= idx /\ w # idx
    BY <1>0
  <2> QED BY <1>0, <2>1, <2>2, <2>3, <2>4 DEF Lifecycle
<1>3. CASE \/ CreateFails \/ WaitForInit \/ SpuriousInitWakeup \/ InitReturns
           \/ BeginDestroy \/ PushNull \/ JoinWorker \/ FreeQueues
  <2>1. UNCHANGED <<worker, pid>> /\ main # "down" /\ main' # "create"
        /\ (main' # "down" => threads' = threads)
        /\ \/ frame' = frame /\ ((main' \in {"create", "lock", "initwait", "woken"}) <=>
                                  (main \in {"create", "lock", "initwait", "woken"}))
           \/ frame' = FALSE /\ main' \in {"failed", "ready"}
    BY <1>3 DEF CreateFails, WaitForInit, SpuriousInitWakeup, InitReturns, BeginDestroy,
                PushNull, JoinWorker, FreeQueues
  <2>2. frame' = TRUE <=> main' \in {"create", "lock", "initwait", "woken"}
    BY <2>1 DEF Lifecycle
  <2>3. /\ main' # "down" => \A w \in Worker : worker'[w] # "none" => w <= threads'
        /\ \A w \in Worker : worker'[w] \notin {"none", "born"} => pid'[w] = w
    BY <2>1 DEF Lifecycle
  <2> QED BY <2>1, <2>2, <2>3 DEF Lifecycle
<1>4. ASSUME NEW w \in Worker, WritePid(w) PROVE Lifecycle'
  BY <1>0, <1>4 DEF WritePid, Lifecycle
<1>5. ASSUME NEW w \in Worker, Hello(w) PROVE Lifecycle'
  BY <1>5, WorkerGoesOn DEF Hello, WorkerState
<1>6. ASSUME NEW w \in Worker, PopTask(w) \/ RunTests(w) \/ Process(w) PROVE Lifecycle'
  <2>1. worker[w] \notin {"none", "born"} /\ UNCHANGED <<main, idx, threads, pid, frame>>
        /\ \E s \in WorkerState : worker' = [worker EXCEPT ![w] = s]
    BY <1>6 DEF PopTask, RunTests, Process, WorkerState, mainVars
  <2> QED BY <2>1, WorkerGoesOn
<1>7. CASE \/ ClientAddsTask
           \/ \E w \in Worker : PopWaits(w) \/ SpuriousPopWakeup(w)
           \/ \E j \in Joiner : CallJoin(j) \/ JoinTests(j) \/ SpuriousJoinWakeup(j)
           \/ UNCHANGED vars
  <2>1. UNCHANGED <<main, idx, threads, pid, frame, worker>>
    BY <1>7 DEF ClientAddsTask, PopWaits, SpuriousPopWakeup, CallJoin, JoinTests,
                SpuriousJoinWakeup, mainVars, vars
  <2> QED BY <2>1 DEF Lifecycle
<1> QED BY <1>1, <1>2, <1>3, <1>4, <1>5, <1>6, <1>7 DEF Next, ClientStep, WorkerStep

LEMMA ArrivedFinite ==
  IsFiniteSet(Arrived) /\ Cardinality(Arrived) \in 0..MaxThreads
BY WorkerFinite, FS_Subset, FS_CardinalityType, Arrived \in SUBSET Worker DEF Arrived

(* Only Hello makes a worker one that has counted itself in. *)
LEMMA CountedKept == TypeOK /\ Lifecycle /\ Counted /\ [Next]_vars => Counted'
<1> SUFFICES ASSUME TypeOK, Lifecycle, Counted, [Next]_vars PROVE Counted'
  OBVIOUS
<1>0. worker \in [Worker -> WorkerState] /\ Worker = 1..MaxThreads
  BY DEF TypeOK, Worker
<1>1. ASSUME Arrived' = Arrived, UNCHANGED count PROVE Counted'
  BY <1>1 DEF Counted
<1>2. CASE BeginInit
  <2>1. Arrived' = {}
    BY <1>2 DEF BeginInit, Arrived
  <2> QED BY <1>2, <2>1, FS_EmptySet DEF BeginInit, Counted
<1>3. CASE CreateThread
  <2>1. main = "create" /\ worker' = [worker EXCEPT ![idx] = "born"] /\ count' = count
    BY <1>3 DEF CreateThread
  <2>2. idx \in Worker => worker[idx] = "none"
    BY <1>0, <2>1, WorkerFinite DEF Lifecycle, Worker
  <2>3. Arrived' = Arrived
    BY <1>0, <2>1, <2>2 DEF Arrived
  <2> QED BY <1>1, <2>1, <2>3
<1>4. CASE \/ CreateFails \/ WaitForInit \/ SpuriousInitWakeup \/ InitReturns
           \/ BeginDestroy \/ ClientAddsTask \/ PushNull \/ JoinWorker \/ FreeQueues
  <2>1. UNCHANGED <<worker, count>>
    BY <1>4 DEF CreateFails, WaitForInit, SpuriousInitWakeup, InitReturns, BeginDestroy,
                ClientAddsTask, PushNull, JoinWorker, FreeQueues, mainVars
  <2> QED BY <1>1, <2>1 DEF Arrived
<1>5. ASSUME NEW w \in Worker, Hello(w) PROVE Counted'
  <2>1. Arrived' = Arrived \cup {w} /\ w \notin Arrived /\ count' = count + 1
    BY <1>0, <1>5 DEF Hello, Arrived
  <2> QED BY <2>1, ArrivedFinite, FS_AddElement DEF Counted
<1>6. ASSUME NEW w \in Worker, \/ WritePid(w) \/ PopTask(w) \/ PopWaits(w) \/ RunTests(w)
                              \/ Process(w) \/ SpuriousPopWakeup(w)
      PROVE  Counted'
  <2>1. Arrived' = Arrived
    BY <1>0, <1>6 DEF WritePid, PopTask, PopWaits, RunTests, Process, SpuriousPopWakeup, Arrived
  <2>2. UNCHANGED count
    BY <1>6 DEF WritePid, PopTask, PopWaits, RunTests, Process, SpuriousPopWakeup, mainVars
  <2> QED BY <1>1, <2>1, <2>2
<1>7. ASSUME NEW j \in Joiner, CallJoin(j) \/ JoinTests(j) \/ SpuriousJoinWakeup(j)
      PROVE  Counted'
  BY <1>1, <1>7 DEF CallJoin, JoinTests, SpuriousJoinWakeup, mainVars, Arrived
<1>8. CASE UNCHANGED vars
  BY <1>1, <1>8 DEF vars, Arrived
<1> QED BY <1>2, <1>3, <1>4, <1>5, <1>6, <1>7, <1>8 DEF Next, ClientStep, WorkerStep
-----------------------------------------------------------------------------
(* Each task is at one place *)

(* No task changes its place, and no worker gets to Process. *)
LEMMA NothingMoves ==
  ASSUME Handed, UNCHANGED <<cur, left, added>>,
         \A t \in Task : (Queued(t)' => Queued(t)) /\ (QueuedOnce(t) => QueuedOnce(t)'),
         \A w \in Worker : /\ worker'[w] \in {"check", "process"}
                               <=> worker[w] \in {"check", "process"}
                           /\ worker'[w] = "process" => worker[w] = "process"
  PROVE  Handed'
<1>1. \A t \in Task : HandedOnce(t)'
  BY DEF Handed, HandedOnce
<1>2. \A w \in Worker : cur'[w] # NoTask <=> worker'[w] \in {"check", "process"}
  BY DEF Handed
<1>3. ProcessOnlyUnfinished'
  BY DEF Handed, ProcessOnlyUnfinished
<1> QED BY <1>1, <1>2, <1>3 DEF Handed

(* A task that was never handed over goes to the back of a queue. *)
LEMMA FreshQueued ==
  ASSUME TypeOK, Handed, NEW t \in Fresh, NEW i \in DOMAIN queues, AddTask(t, i)
  PROVE  /\ \A u \in Task : QueuedOnce(u)' /\ (Queued(u)' <=> Queued(u) \/ u = t)
         /\ added'[t] # "no"
         /\ \A u \in Task \ {t} : added'[u] = added[u]
<1>1. t \in Task /\ ~Queued(t)
  BY DEF Fresh, Handed, HandedOnce
<1>2. \A u \in Task : QueuedOnce(u)
  BY DEF Handed, HandedOnce
<1>3. \A u \in Task : QueuedOnce(u)' /\ (Queued(u)' <=> Queued(u) \/ u = t)
  BY <1>1, <1>2, PushedItems DEF AddTask
<1>4. added' = [added EXCEPT ![t] = IF main = "ready" THEN "up" ELSE "closing"]
      /\ added \in [Task -> AddState]
  BY DEF AddTask, TypeOK
<1> QED BY <1>1, <1>3, <1>4

LEMMA HandedKept == TypeOK /\ InPlace /\ Lifecycle /\ Handed /\ [Next]_vars => Handed'
<1> SUFFICES ASSUME TypeOK, InPlace, Lifecycle, Handed, [Next]_vars PROVE Handed'
  OBVIOUS
<1>0. /\ worker \in [Worker -> WorkerState] /\ cur \in [Worker -> Task \cup {NoTask}]
      /\ left \in [Task -> Nat] /\ added \in [Task -> AddState] /\ NoTask \notin Task
  BY NoTaskAssumption DEF TypeOK
<1>q. \A t \in Task : (UNCHANGED queues) => (Queued(t)' <=> Queued(t)) /\ (QueuedOnce(t)' <=> QueuedOnce(t))
  BY DEF Queued, QueuedOnce
<1>1. CASE BeginInit
  <2>1. PICK n \in Nat : queues' = [i \in 1..n |-> EmptyQueue]
    BY <1>1, WorkerFinite DEF BeginInit, Worker
  <2>2. \A i \in DOMAIN queues' : queues'[i].items = <<>>
    BY <2>1 DEF EmptyQueue
  <2>3. \A t \in Task : ~Queued(t)' /\ QueuedOnce(t)'
    BY <2>2 DEF Queued, QueuedOnce, Occurs, AtMostOnce
  <2>4. /\ UNCHANGED <<cur, left, added>>
        /\ \A w \in Worker : worker[w] \in {"none", "exited"} /\ worker'[w] = "none"
    BY <1>1 DEF BeginInit, taskVars
  <2> QED BY <2>3, <2>4, NothingMoves
<1>2. CASE CreateThread
  <2>1. /\ UNCHANGED <<queues, cur, left, added>> /\ main = "create"
        /\ worker' = [worker EXCEPT ![idx] = "born"]
    BY <1>2 DEF CreateThread, taskVars
  <2>2. idx \in Worker => worker[idx] = "none"
    BY <2>1, WorkerFinite DEF Lifecycle, TypeOK, Worker
  <2>3. \A w \in Worker : worker'[w] = worker[w] \/ (worker'[w] = "born" /\ worker[w] = "none")
    BY <1>0, <2>1, <2>2
  <2> QED BY <1>q, <2>1, <2>3, NothingMoves
<1>3. CASE \/ CreateFails \/ WaitForInit \/ SpuriousInitWakeup \/ InitReturns
           \/ BeginDestroy \/ JoinWorker \/ UNCHANGED vars
           \/ \E j \in Joiner : CallJoin(j) \/ JoinTests(j) \/ SpuriousJoinWakeup(j)
  <2>1. UNCHANGED <<queues, worker, cur, left, added>>
    BY <1>3 DEF CreateFails, WaitForInit, SpuriousInitWakeup, InitReturns, BeginDestroy,
                JoinWorker, CallJoin, JoinTests, SpuriousJoinWakeup, taskVars, vars
  <2> QED BY <1>q, <2>1, NothingMoves
<1>4. CASE ClientAddsTask
  <2>1. PICK t \in Fresh, i \in DOMAIN queues : AddTask(t, i)
    BY <1>4 DEF ClientAddsTask, AddTask
  <2>2. UNCHANGED <<worker, cur, left>>
    BY <1>4 DEF ClientAddsTask
  <2>3. ASSUME NEW u \in Task PROVE HandedOnce(u)'
    BY <2>1, <2>2, <2>3, FreshQueued DEF Handed, HandedOnce, Fresh
  <2> QED BY <2>2, <2>3 DEF Handed, ProcessOnlyUnfinished
<1>5. CASE PushNull
  <2>1. KillQueue(idx) \in DOMAIN queues
    <3>1. /\ Len(queues) \in {1, threads} /\ idx <= threads
          /\ idx \in Nat /\ threads \in Nat /\ Len(queues) \in Nat /\ idx >= 1
      BY <1>5, QueuesShape, WorkerFinite DEF PushNull, InPlace, TypeOK
    <3>2. KillQueue(idx) \in 1..Len(queues)
      BY <3>1 DEF KillQueue
    <3> QED BY <3>2, QueuesShape
  <2>2. PICK q \in Push(queues[KillQueue(idx)], NoTask) :
          queues' = [queues EXCEPT ![KillQueue(idx)] = q]
    BY <1>5 DEF PushNull
  <2>3. \A t \in Task : (Queued(t)' <=> Queued(t)) /\ (QueuedOnce(t) => QueuedOnce(t)')
    BY <1>0, <2>1, <2>2, PushedItems
  <2>4. UNCHANGED <<worker, cur, left, added>>
    BY <1>5 DEF PushNull, taskVars
  <2> QED BY <2>3, <2>4, NothingMoves
<1>6. CASE FreeQueues
  <2>1. queues' = <<>> /\ UNCHANGED <<worker, cur, left, added>>
    BY <1>6 DEF FreeQueues, taskVars
  <2>2. \A t \in Task : ~Queued(t)' /\ QueuedOnce(t)'
    BY <2>1 DEF Queued, QueuedOnce
  <2> QED BY <2>1, <2>2, NothingMoves
<1>7. ASSUME NEW w \in Worker, WritePid(w) \/ Hello(w) PROVE Handed'
  <2>1. UNCHANGED <<queues, cur, left, added>>
    BY <1>7 DEF WritePid, Hello, taskVars
  <2>2. \A v \in Worker : \/ worker'[v] = worker[v]
                          \/ worker[v] \in {"born", "hello"} /\ worker'[v] \in {"hello", "pop"}
    BY <1>0, <1>7 DEF WritePid, Hello
  <2> QED BY <1>q, <2>1, <2>2, NothingMoves
<1>8. ASSUME NEW w \in Worker, PopTask(w) PROVE Handed'
  <2> DEFINE i == QueueOf(w)
             x == Front(queues[i])
  <2>1. /\ i \in DOMAIN queues /\ queues[i].items # <<>>
        /\ queues' = [queues EXCEPT ![i] = Take(@)]
        /\ cur' = [cur EXCEPT ![w] = x]
        /\ worker[w] = "pop"
        /\ worker' = [worker EXCEPT ![w] = IF x = NoTask THEN "exited" ELSE "check"]
        /\ UNCHANGED <<left, added>>
    BY <1>8 DEF PopTask, HasQueue, CanTake, taskVars
  <2>2. /\ x \in Task \cup {NoTask} /\ Queued(x)
        /\ \A t : Queued(t)' => Queued(t)
        /\ \A t : QueuedOnce(t) => QueuedOnce(t)'
        /\ \A t : QueuedOnce(t) /\ t = x => ~Queued(t)'
    BY <2>1, TakenItems
  <2> HIDE DEF i, x
  <2>3. \A v \in Worker : /\ cur'[v] = IF v = w THEN x ELSE cur[v]
                          /\ worker'[v] = IF v = w THEN IF x = NoTask THEN "exited" ELSE "check"
                                          ELSE worker[v]
    BY <1>0, <2>1
  <2>4. ASSUME NEW u \in Task PROVE HandedOnce(u)'
    <3>1. HandedOnce(u)
      BY <2>4 DEF Handed
    <3> QED BY <2>1, <2>2, <2>3, <3>1 DEF HandedOnce
  <2>5. \A v \in Worker : cur'[v] # NoTask <=> worker'[v] \in {"check", "process"}
    BY <2>3 DEF Handed
  <2>6. ProcessOnlyUnfinished'
    BY <2>1, <2>3 DEF Handed, ProcessOnlyUnfinished
  <2> QED BY <2>4, <2>5, <2>6 DEF Handed
<1>9. ASSUME NEW w \in Worker, PopWaits(w) \/ SpuriousPopWakeup(w) PROVE Handed'
  <2> DEFINE i == QueueOf(w)
  <2>1. i \in DOMAIN queues /\ queues[i] \in QType
    BY <1>9, QueuesShape DEF PopWaits, SpuriousPopWakeup, HasQueue
  <2>2. /\ Wait(queues[i], w) \in QType /\ Wait(queues[i], w).items = queues[i].items
        /\ SpuriousWakeup(queues[i], w) \in QType
        /\ SpuriousWakeup(queues[i], w).items = queues[i].items
    BY <2>1 DEF Wait, SpuriousWakeup, QType, QueueType
  <2>3. PICK q \in QType : q.items = queues[i].items /\ queues' = [queues EXCEPT ![i] = q]
    BY <1>9, <2>1, <2>2 DEF PopWaits, SpuriousPopWakeup
  <2>4. \A t \in Task : (Queued(t)' <=> Queued(t)) /\ (QueuedOnce(t) => QueuedOnce(t)')
    BY <2>1, <2>3, SameItems
  <2>5. UNCHANGED <<worker, cur, left, added>>
    BY <1>9 DEF PopWaits, SpuriousPopWakeup, taskVars
  <2> QED BY <2>4, <2>5, NothingMoves
<1>10. ASSUME NEW w \in Worker, RunTests(w) PROVE Handed'
  <2>1. UNCHANGED <<queues, left, added>> /\ worker[w] = "check"
    BY <1>10 DEF RunTests, taskVars
  <2>2. cur[w] \in Task
    BY <1>0, <2>1 DEF Handed
  <2>3. \/ /\ worker' = [worker EXCEPT ![w] = "pop"]
           /\ cur' = [cur EXCEPT ![w] = NoTask]
        \/ /\ worker' = [worker EXCEPT ![w] = "process"]
           /\ cur' = cur
           /\ left[cur[w]] > 0
    BY <1>0, <1>10, <2>2 DEF RunTests, RunSkips
  <2>4. \A v \in Worker : /\ cur'[v] # NoTask => cur'[v] = cur[v]
                          /\ cur'[v] # NoTask <=> worker'[v] \in {"check", "process"}
                          /\ worker'[v] = "process" => cur'[v] = cur[v] /\ left[cur[v]] > 0
    BY <1>0, <2>1, <2>3 DEF Handed, ProcessOnlyUnfinished
  <2>5. ASSUME NEW u \in Task PROVE HandedOnce(u)'
    BY <1>0, <1>q, <2>1, <2>4, <2>5 DEF Handed, HandedOnce
  <2> QED BY <2>1, <2>4, <2>5 DEF Handed, ProcessOnlyUnfinished
<1>11. ASSUME NEW w \in Worker, Process(w) PROVE Handed'
  <2>1. cur[w] \in Task /\ worker[w] = "process" /\ left' = [left EXCEPT ![cur[w]] = @ - 1]
    BY <1>0, <1>11 DEF Process, Handed
  <2>2. PICK n \in NextTasks(cur[w]) :
          /\ cur' = [cur EXCEPT ![w] = n]
          /\ worker' = [worker EXCEPT ![w] = IF n = NoTask THEN "pop" ELSE "check"]
          /\ \/ /\ n \in Fresh
                /\ added' = [added EXCEPT ![n] = IF main = "ready" THEN "up" ELSE "closing"]
                /\ UNCHANGED queues
             \/ n \notin Fresh /\ UNCHANGED <<added, queues>>
             \/ /\ n \notin Fresh
                /\ \E t \in Fresh, i \in DOMAIN queues : AddTask(t, i)
    BY <1>11 DEF Process
  <2>3. n \in {cur[w], NoTask} \cup Fresh /\ n \in Task \cup {NoTask}
    BY <2>1 DEF NextTasks, Fresh
  <2>4. \A v \in Worker : /\ cur'[v] = IF v = w THEN n ELSE cur[v]
                          /\ worker'[v] = IF v = w THEN IF n = NoTask THEN "pop" ELSE "check"
                                          ELSE worker[v]
    BY <1>0, <2>2
  <2>5. ASSUME NEW u \in Task PROVE HandedOnce(u)'
    <3>1. HandedOnce(u) /\ HandedOnce(cur[w])
      BY <2>1, <2>5 DEF Handed
    <3>2. CASE n \in Fresh /\ UNCHANGED queues
               /\ added' = [added EXCEPT ![n] = IF main = "ready" THEN "up" ELSE "closing"]
      <4>1. \A t \in Task : added'[t] = "no" => added[t] = "no" /\ t # n
        BY <1>0, <3>2
      <4>2. HandedOnce(n) /\ added[n] = "no"
        BY <3>2 DEF Fresh, Handed
      <4> QED BY <1>q, <2>4, <3>1, <3>2, <4>1, <4>2 DEF HandedOnce
    <3>3. CASE n \notin Fresh /\ UNCHANGED <<added, queues>>
      BY <1>0, <1>q, <2>1, <2>3, <2>4, <3>1, <3>3 DEF HandedOnce
    <3>4. CASE n \notin Fresh /\ \E t \in Fresh, i \in DOMAIN queues : AddTask(t, i)
      <4>1. PICK t \in Fresh, i \in DOMAIN queues : AddTask(t, i)
        BY <3>4
      <4>2. /\ QueuedOnce(u)' /\ (Queued(u)' <=> Queued(u) \/ u = t)
            /\ added'[t] # "no" /\ (u # t => added'[u] = added[u])
        BY <4>1, FreshQueued
      <4>3. \A v \in Worker : cur[v] # t
        BY <4>1 DEF Fresh, Handed, HandedOnce
      <4>4. n \in {cur[w], NoTask} /\ t # n
        BY <2>3, <3>4, <4>1
      <4> QED BY <1>0, <2>1, <2>4, <3>1, <4>2, <4>3, <4>4 DEF HandedOnce
    <3> QED BY <2>2, <3>2, <3>3, <3>4
  <2>6. \A v \in Worker : cur'[v] # NoTask <=> worker'[v] \in {"check", "process"}
    BY <2>4 DEF Handed
  <2>7. ASSUME NEW v \in Worker, worker'[v] = "process" PROVE left'[cur'[v]] > 0
    <3>1. v # w /\ cur'[v] = cur[v] /\ worker[v] = "process"
      BY <2>4, <2>7
    <3>2. cur[v] \in Task /\ cur[v] # cur[w]
      BY <1>0, <2>1, <3>1 DEF Handed, HandedOnce
    <3> QED BY <1>0, <2>1, <3>1, <3>2 DEF Handed, ProcessOnlyUnfinished
  <2> QED BY <2>5, <2>6, <2>7 DEF Handed, ProcessOnlyUnfinished
<1> QED BY <1>1, <1>2, <1>3, <1>4, <1>5, <1>6, <1>7, <1>8, <1>9, <1>10, <1>11
        DEF Next, ClientStep, WorkerStep
-----------------------------------------------------------------------------
(* Types *)

IInv == TypeOK /\ InPlace /\ Lifecycle /\ Counted /\ Handed

QueuesTyped == \E n \in 0..MaxThreads : queues \in [1..n -> QType]

ClientTyped ==
  /\ faults \in FaultSets
  /\ main \in MainState
  /\ idx \in 1..(MaxThreads + 1)
  /\ sessions \in 0..MaxSessions
  /\ threads \in 0..MaxThreads
  /\ frame \in BOOLEAN

WorkersTyped ==
  /\ pid \in [Worker -> Worker \cup {NoPid}]
  /\ count \in 0..MaxThreads
  /\ worker \in [Worker -> WorkerState]
  /\ cur \in [Worker -> Task \cup {NoTask}]

TasksTyped ==
  /\ left \in [Task -> Nat]
  /\ \A t \in Task : left[t] <= Steps[t]
  /\ added \in [Task -> AddState]
  /\ join \in [Joiner -> {"idle", "locked", "waiting", "returned"}]

LEMMA TypeParts == TypeOK <=> QueuesTyped /\ ClientTyped /\ WorkersTyped /\ TasksTyped
BY DEF TypeOK, QueuesTyped, ClientTyped, WorkersTyped, TasksTyped, QType

LEMMA TypePartsNext ==
  TypeOK' <=> QueuesTyped' /\ ClientTyped' /\ WorkersTyped' /\ TasksTyped'
BY DEF TypeOK, QueuesTyped, ClientTyped, WorkersTyped, TasksTyped, QType

LEMMA QueuesTypedKept == TypeOK /\ InPlace /\ [Next]_vars => QueuesTyped'
<1> SUFFICES ASSUME TypeOK, InPlace, [Next]_vars PROVE QueuesTyped'
  OBVIOUS
<1>0. MaxThreads \in Nat /\ Worker = 1..MaxThreads
  BY WorkerFinite DEF Worker
<1>1. CASE UNCHANGED queues
  BY <1>1, TypeParts DEF QueuesTyped
<1>2. CASE BeginInit
  <2>1. EmptyQueue \in QType
    BY DEF EmptyQueue, QType, QueueType
  <2>2. PICK n \in 0..MaxThreads : queues' = [i \in 1..n |-> EmptyQueue]
    BY <1>0, <1>2 DEF BeginInit
  <2> QED BY <2>1, <2>2 DEF QueuesTyped
<1>3. ASSUME NEW t \in Task, NEW i \in DOMAIN queues, AddTask(t, i) PROVE QueuesTyped'
  BY <1>3, PushedItems DEF AddTask, QueuesTyped
<1>4. CASE PushNull
  <2>1. KillQueue(idx) \in DOMAIN queues
    <3>1. /\ Len(queues) \in {1, threads} /\ idx <= threads
          /\ idx \in Nat /\ threads \in Nat /\ Len(queues) \in Nat /\ idx >= 1
      BY <1>0, <1>4, QueuesShape DEF PushNull, InPlace, TypeOK
    <3>2. KillQueue(idx) \in 1..Len(queues)
      BY <3>1 DEF KillQueue
    <3> QED BY <3>2, QueuesShape
  <2> QED BY <1>4, <2>1, PushedItems DEF PushNull, QueuesTyped
<1>5. CASE FreeQueues
  <2>1. queues' = <<>> /\ 0 \in 0..MaxThreads
    BY <1>0, <1>5 DEF FreeQueues
  <2>2. <<>> \in [1..0 -> QType]
    BY EmptySeq, LenProperties
  <2> QED BY <2>1, <2>2 DEF QueuesTyped
<1>6. ASSUME NEW w \in Worker, PopTask(w) PROVE QueuesTyped'
  BY <1>6, TakenItems DEF PopTask, HasQueue, CanTake, QueuesTyped
<1>7. ASSUME NEW w \in Worker, PopWaits(w) \/ SpuriousPopWakeup(w) PROVE QueuesTyped'
  <2> DEFINE i == QueueOf(w)
  <2>1. i \in DOMAIN queues /\ queues[i] \in QType
    BY <1>7, QueuesShape DEF PopWaits, SpuriousPopWakeup, HasQueue
  <2>2. Wait(queues[i], w) \in QType /\ SpuriousWakeup(queues[i], w) \in QType
    BY <2>1 DEF Wait, SpuriousWakeup, QType, QueueType
  <2> QED BY <1>7, <2>1, <2>2, QueueReplaced DEF PopWaits, SpuriousPopWakeup, QueuesTyped
<1>8. ASSUME NEW w \in Worker, Process(w) PROVE QueuesTyped'
  <2>1. UNCHANGED queues \/ \E t \in Task, i \in DOMAIN queues : AddTask(t, i)
    BY <1>8 DEF Process, Fresh
  <2> QED BY <1>1, <1>3, <2>1
<1>9. CASE \/ CreateThread \/ CreateFails \/ WaitForInit \/ SpuriousInitWakeup
           \/ InitReturns \/ BeginDestroy \/ JoinWorker \/ UNCHANGED vars
           \/ \E w \in Worker : WritePid(w) \/ Hello(w) \/ RunTests(w)
           \/ \E j \in Joiner : CallJoin(j) \/ JoinTests(j) \/ SpuriousJoinWakeup(j)
  BY <1>1, <1>9 DEF CreateThread, CreateFails, WaitForInit, SpuriousInitWakeup, InitReturns,
     BeginDestroy, JoinWorker, WritePid, Hello, RunTests, CallJoin, JoinTests,
     SpuriousJoinWakeup, vars
<1>10. CASE ClientAddsTask
  BY <1>3, <1>10 DEF ClientAddsTask, AddTask, Fresh
<1> QED BY <1>2, <1>4, <1>5, <1>6, <1>7, <1>8, <1>9, <1>10 DEF Next, ClientStep, WorkerStep

LEMMA ClientTypedKept == TypeOK /\ InPlace /\ [Next]_vars => ClientTyped'
<1> SUFFICES ASSUME TypeOK, InPlace, [Next]_vars PROVE ClientTyped'
  OBVIOUS
<1>a. ClientTyped
  BY TypeParts
<1> USE DEF ClientTyped, MainState
<1>0. /\ MaxThreads \in Nat /\ MaxThreads >= 1 /\ MaxSessions \in Nat /\ idx \in Nat
      /\ Worker = 1..MaxThreads /\ ClientTyped
  BY <1>a, WorkerFinite, MaxSessionsAssumption DEF Worker
<1>1. CASE UNCHANGED mainVars
  BY <1>0, <1>1 DEF mainVars
<1>2. CASE BeginInit
  BY <1>0, <1>2 DEF BeginInit, taskVars
<1>3. CASE CreateThread \/ PushNull \/ JoinWorker
  <2>1. /\ idx <= threads /\ threads \in Nat
        /\ UNCHANGED <<faults, sessions, threads, frame>>
        /\ main' \in MainState /\ idx' \in {1, idx + 1}
    BY <1>0, <1>3 DEF CreateThread, PushNull, JoinWorker, taskVars, InPlace
  <2>2. idx' \in 1..(MaxThreads + 1)
    BY <1>0, <2>1
  <2> QED BY <1>0, <2>1, <2>2
<1>4. CASE \/ CreateFails \/ WaitForInit \/ SpuriousInitWakeup \/ InitReturns
           \/ BeginDestroy \/ FreeQueues
  <2>1. /\ UNCHANGED <<faults, sessions>> /\ main' \in MainState
        /\ threads' \in {0, threads} /\ idx' \in {1, idx} /\ frame' \in {FALSE, frame}
    BY <1>4 DEF CreateFails, WaitForInit, SpuriousInitWakeup, InitReturns, BeginDestroy,
                FreeQueues, taskVars
  <2>2. threads' \in 0..MaxThreads
    BY <1>0, <2>1
  <2>3. idx' \in 1..(MaxThreads + 1)
    BY <1>0, <2>1
  <2>4. frame' \in BOOLEAN
    BY <1>0, <2>1
  <2> QED BY <1>0, <2>1, <2>2, <2>3, <2>4
<1>5. ASSUME NEW w \in Worker, WritePid(w) \/ Hello(w) PROVE ClientTyped'
  BY <1>0, <1>5 DEF WritePid, Hello, taskVars
<1>6. CASE \/ ClientAddsTask
           \/ \E w \in Worker : \/ PopTask(w) \/ PopWaits(w) \/ RunTests(w) \/ Process(w)
                                \/ SpuriousPopWakeup(w)
           \/ \E j \in Joiner : CallJoin(j) \/ JoinTests(j) \/ SpuriousJoinWakeup(j)
  BY <1>1, <1>6 DEF ClientAddsTask, PopTask, PopWaits, RunTests, Process, SpuriousPopWakeup,
     CallJoin, JoinTests, SpuriousJoinWakeup
<1>7. CASE UNCHANGED vars
  BY <1>1, <1>7 DEF vars, mainVars
<1> QED BY <1>2, <1>3, <1>4, <1>5, <1>6, <1>7 DEF Next, ClientStep, WorkerStep

LEMMA WorkersTypedKept == TypeOK /\ Counted /\ [Next]_vars => WorkersTyped'
<1> SUFFICES ASSUME TypeOK, Counted, [Next]_vars PROVE WorkersTyped'
  OBVIOUS
<1>0. /\ MaxThreads \in Nat /\ WorkersTyped
  BY WorkerFinite, TypeParts
<1> USE DEF WorkersTyped, WorkerState
<1>1. CASE UNCHANGED <<pid, count, worker, cur>>
  BY <1>0, <1>1
<1>2. CASE BeginInit
  BY <1>0, <1>2 DEF BeginInit
<1>3. CASE CreateThread
  BY <1>0, <1>3 DEF CreateThread
<1>4. CASE \/ CreateFails \/ WaitForInit \/ SpuriousInitWakeup \/ InitReturns
           \/ BeginDestroy \/ JoinWorker \/ UNCHANGED vars \/ ClientAddsTask
           \/ PushNull \/ FreeQueues
           \/ \E w \in Worker : PopWaits(w) \/ SpuriousPopWakeup(w)
           \/ \E j \in Joiner : CallJoin(j) \/ JoinTests(j) \/ SpuriousJoinWakeup(j)
  BY <1>1, <1>4 DEF CreateFails, WaitForInit, SpuriousInitWakeup, InitReturns, BeginDestroy,
     JoinWorker, vars, ClientAddsTask, PushNull, FreeQueues, PopWaits, SpuriousPopWakeup,
     CallJoin, JoinTests, SpuriousJoinWakeup, mainVars
<1>5. ASSUME NEW w \in Worker, WritePid(w) PROVE WorkersTyped'
  BY <1>0, <1>5 DEF WritePid
<1>6. ASSUME NEW w \in Worker, Hello(w) PROVE WorkersTyped'
  <2>1. w \notin Arrived /\ Arrived \cup {w} \subseteq Worker
    BY <1>6 DEF Hello, Arrived
  <2>2. /\ Cardinality(Arrived \cup {w}) = Cardinality(Arrived) + 1
        /\ Cardinality(Arrived \cup {w}) <= MaxThreads
    BY <2>1, ArrivedFinite, WorkerFinite, FS_AddElement, FS_Subset
  <2>3. count + 1 \in 0..MaxThreads
    BY <1>0, <2>2, ArrivedFinite DEF Counted
  <2>4. /\ count' = count + 1 /\ worker' = [worker EXCEPT ![w] = "pop"]
        /\ UNCHANGED <<pid, cur>>
    BY <1>6 DEF Hello
  <2> QED BY <1>0, <2>3, <2>4
<1>7. ASSUME NEW w \in Worker, PopTask(w) PROVE WorkersTyped'
  <2>1. Front(queues[QueueOf(w)]) \in Task \cup {NoTask}
    BY <1>7, TakenItems DEF PopTask, HasQueue, CanTake
  <2> QED BY <1>0, <1>7, <2>1 DEF PopTask, mainVars
<1>8. ASSUME NEW w \in Worker, RunTests(w) PROVE WorkersTyped'
  BY <1>0, <1>8 DEF RunTests, mainVars
<1>9. ASSUME NEW w \in Worker, Process(w) PROVE WorkersTyped'
  <2>1. NextTasks(cur[w]) \subseteq Task \cup {NoTask}
    <3>1. worker[w] = "process" /\ cur[w] \in Task \cup {NoTask}
      BY <1>0, <1>9 DEF Process
    <3> QED BY <3>1 DEF NextTasks, Fresh
  <2>2. PICK n \in Task \cup {NoTask} :
          /\ cur' = [cur EXCEPT ![w] = n]
          /\ worker' = [worker EXCEPT ![w] = IF n = NoTask THEN "pop" ELSE "check"]
    BY <1>9, <2>1 DEF Process
  <2>3. UNCHANGED <<pid, count>>
    BY <1>9 DEF Process, mainVars
  <2> QED BY <1>0, <2>2, <2>3
<1> QED BY <1>2, <1>3, <1>4, <1>5, <1>6, <1>7, <1>8, <1>9 DEF Next, ClientStep, WorkerStep

LEMMA TasksTypedKept == TypeOK /\ Handed /\ [Next]_vars => TasksTyped'
<1> SUFFICES ASSUME TypeOK, Handed, [Next]_vars PROVE TasksTyped'
  OBVIOUS
<1>0. TasksTyped /\ Steps \in [Task -> Nat] /\ cur \in [Worker -> Task \cup {NoTask}]
  BY TypeParts, StepsAssumption DEF TypeOK
<1> USE DEF TasksTyped, AddState
<1>1. CASE UNCHANGED <<left, added, join>>
  BY <1>0, <1>1
<1>2. ASSUME NEW t, NEW i, AddTask(t, i) PROVE added' \in [Task -> AddState]
  BY <1>0, <1>2 DEF AddTask
<1>3. CASE \/ BeginInit \/ CreateThread \/ CreateFails \/ WaitForInit
           \/ SpuriousInitWakeup \/ InitReturns \/ BeginDestroy \/ PushNull
           \/ JoinWorker \/ FreeQueues \/ UNCHANGED vars
           \/ \E w \in Worker : \/ WritePid(w) \/ Hello(w) \/ PopTask(w) \/ PopWaits(w)
                                \/ RunTests(w) \/ SpuriousPopWakeup(w)
  BY <1>1, <1>3 DEF BeginInit, CreateThread, CreateFails, WaitForInit, SpuriousInitWakeup,
     InitReturns, BeginDestroy, PushNull, JoinWorker, FreeQueues, vars, WritePid, Hello,
     PopTask, PopWaits, RunTests, SpuriousPopWakeup, taskVars
<1>4. CASE ClientAddsTask
  BY <1>0, <1>2, <1>4 DEF ClientAddsTask
<1>5. ASSUME NEW w \in Worker, Process(w) PROVE TasksTyped'
  <2>1. cur[w] \in Task /\ left[cur[w]] > 0
    BY <1>0, <1>5 DEF Process, Handed, ProcessOnlyUnfinished
  <2>2. left' = [left EXCEPT ![cur[w]] = @ - 1]
    BY <1>5 DEF Process
  <2>3. left' \in [Task -> Nat] /\ \A t \in Task : left'[t] <= left[t]
    BY <1>0, <2>1, <2>2
  <2>4. \A t \in Task : left'[t] <= Steps[t]
    BY <1>0, <2>3
  <2>5. added' \in [Task -> AddState]
    BY <1>0, <1>2, <1>5 DEF Process
  <2>6. PICK rest : join' = [j \in Joiner |->
                       IF j \in Waiters(cur[w]) \ rest THEN "locked" ELSE join[j]]
    BY <1>5 DEF Process, WakeJoiner
  <2> QED BY <1>0, <2>3, <2>4, <2>5, <2>6
<1>6. ASSUME NEW j \in Joiner, CallJoin(j) \/ JoinTests(j) \/ SpuriousJoinWakeup(j)
      PROVE  TasksTyped'
  BY <1>0, <1>6 DEF CallJoin, JoinTests, SpuriousJoinWakeup
<1> QED BY <1>3, <1>4, <1>5, <1>6 DEF Next, ClientStep, WorkerStep

LEMMA InitIInv == Init => IInv
<1> SUFFICES ASSUME Init PROVE IInv
  OBVIOUS
<1>0. /\ MaxThreads \in Nat /\ MaxThreads >= 1 /\ MaxSessions \in Nat
      /\ Steps \in [Task -> Nat] /\ NoTask \notin Task
  BY WorkerFinite, MaxSessionsAssumption, StepsAssumption, NoTaskAssumption
<1>1. /\ ClientTyped
      /\ WorkersTyped
      /\ TasksTyped
  <2>1. ClientTyped
    <3>1. 1 \in 1..(MaxThreads + 1) /\ 0 \in 0..MaxSessions /\ 0 \in 0..MaxThreads
      BY <1>0
    <3> QED BY <3>1 DEF Init, ClientTyped, MainState
  <2>2. WorkersTyped
    BY <1>0 DEF Init, WorkersTyped, WorkerState
  <2>3. TasksTyped
    <3>1. \A t \in Task : Steps[t] \in Nat
      BY <1>0
    <3> QED BY <1>0, <3>1 DEF Init, TasksTyped, AddState
  <2> QED BY <2>1, <2>2, <2>3
<1>2. QueuesTyped
  <2>1. queues = <<>> /\ 0 \in 0..MaxThreads
    BY <1>0 DEF Init
  <2>2. <<>> \in [1..0 -> QType]
    BY EmptySeq, LenProperties
  <2> QED BY <2>1, <2>2 DEF QueuesTyped
<1>3. InPlace /\ Lifecycle
  BY DEF Init, InPlace, Lifecycle
<1>4. Arrived = {}
  BY DEF Init, Arrived
<1>5. Counted
  BY <1>4, FS_EmptySet DEF Init, Counted
<1>6. \A t \in Task : ~Queued(t) /\ QueuedOnce(t)
  BY DEF Init, Queued, QueuedOnce
<1>7. Handed
  BY <1>0, <1>6 DEF Init, Handed, HandedOnce, ProcessOnlyUnfinished
<1> QED BY <1>1, <1>2, <1>3, <1>5, <1>7, TypeParts DEF IInv

LEMMA IInvKept == IInv /\ [Next]_vars => IInv'
BY PlaceKept, LifecycleKept, CountedKept, HandedKept, QueuesTypedKept, ClientTypedKept,
   WorkersTypedKept, TasksTypedKept, TypePartsNext DEF IInv

(***************************************************************************)
(* Every variable keeps its type: count_for_init never exceeds the number  *)
(* of threads, and no task runs more often than it needs.                  *)
(***************************************************************************)
THEOREM TypeCorrect == Spec => []TypeOK
<1>1. IInv => TypeOK
  BY DEF IInv
<1> QED BY <1>1, InitIInv, IInvKept, PTL DEF Spec

(***************************************************************************)
(* Process is called on unfinished tasks only, although Run tests          *)
(* IsFinished() without the lock (threadpool.cc:44).                       *)
(***************************************************************************)
THEOREM NoProcessAfterFinish == Spec => []ProcessOnlyUnfinished
<1>1. IInv => ProcessOnlyUnfinished
  BY DEF IInv, Handed
<1> QED BY <1>1, InitIInv, IInvKept, PTL DEF Spec
-----------------------------------------------------------------------------
(* Init waits for the workers, Destroy joins them. *)

(***************************************************************************)
(* Where the workers are when Init runs to its end.  The last to arrive    *)
(* signals, so when the wait is over all have arrived; they never go back. *)
(***************************************************************************)
Accounted ==
  /\ main # "failed"
  /\ main \in {"woken", "ready", "push", "join", "free"} =>
       \A w \in Worker : w <= threads => w \in Arrived
  /\ main = "join" => \A w \in Worker : w < idx => worker[w] = "exited"
  /\ main = "free" => \A w \in Worker : w <= threads => worker[w] = "exited"
  /\ main = "down" => \A w \in Worker : worker[w] \in {"none", "exited"}

(* No exited worker moves, and arrived ones stay arrived. *)
LEMMA AccountedSame ==
  ASSUME Accounted, UNCHANGED <<main, idx, threads>>, Arrived \subseteq Arrived',
         \A w \in Worker : worker[w] \in {"none", "exited"} => worker'[w] = worker[w]
  PROVE  Accounted'
BY DEF Accounted

LEMMA AccountedKept == IInv /\ Sound /\ Accounted /\ [Next]_vars => Accounted' /\ Sound'
<1> SUFFICES ASSUME IInv, Sound, Accounted, [Next]_vars PROVE Accounted' /\ Sound'
  OBVIOUS
<1>0. /\ MaxThreads \in Nat /\ threads \in Nat /\ idx \in Nat /\ Worker = 1..MaxThreads
      /\ worker \in [Worker -> WorkerState] /\ pid \in [Worker -> Worker \cup {NoPid}]
      /\ InPlace /\ Lifecycle
  BY WorkerFinite DEF IInv, TypeOK, Worker
<1>s. Sound'
  <2>1. UNCHANGED faults
    BY DEF Next, ClientStep, WorkerStep, BeginInit, CreateThread, CreateFails, WaitForInit,
       SpuriousInitWakeup, InitReturns, ClientAddsTask, BeginDestroy, PushNull, JoinWorker,
       FreeQueues, WritePid, Hello, PopTask, PopWaits, RunTests, Process, SpuriousPopWakeup,
       CallJoin, JoinTests, SpuriousJoinWakeup, mainVars, taskVars, vars
  <2> QED BY <2>1 DEF Sound
<1>1. CASE \/ BeginInit \/ CreateThread \/ WaitForInit
  <2>1. main' \notin {"failed", "woken", "ready", "push", "join", "free", "down"}
    BY <1>1 DEF BeginInit, CreateThread, WaitForInit
  <2> QED BY <1>s, <2>1 DEF Accounted
<1>2. CASE CreateFails \/ SpuriousInitWakeup
  BY <1>2 DEF CreateFails, SpuriousInitWakeup, Sound
<1>3. CASE InitReturns \/ BeginDestroy \/ PushNull
  <2>1. /\ main \in {"woken", "ready", "push"} /\ main' \in {"ready", "push", "join"}
        /\ (main' = "join" => idx' = 1) /\ UNCHANGED <<threads, worker>>
    BY <1>3 DEF InitReturns, BeginDestroy, PushNull, Accounted
  <2>2. \A w \in Worker : ~(w < 1)
    BY <1>0
  <2>3. Arrived' = Arrived
    BY <2>1 DEF Arrived
  <2> QED BY <1>s, <2>1, <2>2, <2>3 DEF Accounted
<1>4. CASE JoinWorker
  <2>1. /\ main = "join" /\ main' \in {"join", "free"} /\ UNCHANGED <<threads, worker>>
        /\ main' = "join" => idx' = idx + 1
        /\ main' = "free" => idx = threads
        /\ pid[idx] # NoPid => worker[pid[idx]] = "exited"
    BY <1>4 DEF JoinWorker, LastJoined
  <2>2. idx <= threads /\ threads <= MaxThreads /\ idx \in Worker
    BY <1>0, <2>1, WorkerFinite DEF InPlace, IInv, TypeOK
  <2>3. worker[idx] = "exited"
    <3>1. idx \in Arrived
      BY <2>1, <2>2 DEF Accounted
    <3>2. pid[idx] = idx /\ idx # NoPid
      BY <1>0, <2>2, <3>1 DEF Lifecycle, Arrived, NoPid
    <3> QED BY <2>1, <3>2
  <2>4. \A w \in Worker : w < idx + 1 => worker[w] = "exited"
    <3>1. \A w \in Worker : w < idx + 1 => w < idx \/ w = idx
      BY <1>0
    <3> QED BY <2>1, <2>3, <3>1 DEF Accounted
  <2>5. main' = "free" => \A w \in Worker : w <= threads => w < idx + 1
    BY <1>0, <2>1
  <2>6. Arrived' = Arrived
    BY <2>1 DEF Arrived
  <2> QED BY <1>s, <2>1, <2>4, <2>5, <2>6 DEF Accounted
<1>5. CASE FreeQueues
  <2>1. main = "free" /\ main' = "down" /\ UNCHANGED worker
    BY <1>5 DEF FreeQueues
  <2>2. \A w \in Worker : worker[w] \in {"none", "exited"}
    BY <2>1 DEF Lifecycle, Accounted, IInv
  <2> QED BY <1>s, <2>1, <2>2 DEF Accounted
<1>6. ASSUME NEW w \in Worker, Hello(w) PROVE Accounted'
  <2>1. /\ Arrived' = Arrived \cup {w} /\ w \notin Arrived
        /\ \A v \in Worker \ {w} : worker'[v] = worker[v]
        /\ worker[w] = "hello" /\ UNCHANGED <<idx, threads>>
        /\ main' = IF main = "initwait" /\ LastToArrive THEN "woken" ELSE main
    BY <1>0, <1>6 DEF Hello, Arrived
  <2>2. CASE main' = main
    BY <2>1, <2>2, AccountedSame
  <2>3. CASE main = "initwait" /\ LastToArrive /\ main' = "woken"
    <3>1. Arrived' \subseteq 1..threads
      BY <1>0, <2>1, <2>3 DEF Lifecycle, Arrived
    <3>2. Cardinality(Arrived') = threads
      BY <2>1, <2>3, ArrivedFinite, FS_AddElement DEF LastToArrive, IInv, Counted
    <3>3. Arrived' = 1..threads
      <4>1. IsFiniteSet(1..threads) /\ Cardinality(1..threads) = threads
        BY <1>0, FS_Interval
      <4> QED BY <3>1, <3>2, <4>1, FS_Subset
    <3>4. \A v \in Worker : v <= threads => v \in Arrived'
      BY <1>0, <3>3
    <3> QED BY <2>1, <2>3, <3>4 DEF Accounted
  <2> QED BY <2>1, <2>2, <2>3
<1>7. ASSUME NEW w \in Worker, \/ WritePid(w) \/ PopTask(w) \/ PopWaits(w) \/ RunTests(w)
                              \/ Process(w) \/ SpuriousPopWakeup(w)
      PROVE  Accounted'
  <2>1. Arrived' = Arrived
    BY <1>0, <1>7 DEF WritePid, PopTask, PopWaits, RunTests, Process, SpuriousPopWakeup, Arrived
  <2>2. UNCHANGED <<main, idx, threads>>
    BY <1>7 DEF WritePid, PopTask, PopWaits, RunTests, Process, SpuriousPopWakeup, mainVars
  <2>3. \A v \in Worker : worker[v] \in {"none", "exited"} => worker'[v] = worker[v]
    BY <1>0, <1>7 DEF WritePid, PopTask, PopWaits, RunTests, Process, SpuriousPopWakeup
  <2> QED BY <2>1, <2>2, <2>3, AccountedSame
<1>8. CASE \/ ClientAddsTask \/ UNCHANGED vars
           \/ \E j \in Joiner : CallJoin(j) \/ JoinTests(j) \/ SpuriousJoinWakeup(j)
  <2>1. UNCHANGED <<main, idx, threads, worker>>
    BY <1>8 DEF ClientAddsTask, CallJoin, JoinTests, SpuriousJoinWakeup, mainVars, vars
  <2>2. Arrived' = Arrived
    BY <2>1 DEF Arrived
  <2>3. \A w \in Worker : worker[w] \in {"none", "exited"} => worker'[w] = worker[w]
    BY <2>1
  <2>4. UNCHANGED <<main, idx, threads>> /\ Arrived \subseteq Arrived'
    BY <2>1, <2>2
  <2>5. Accounted'
    BY <2>3, <2>4, AccountedSame
  <2> QED BY <2>5, <1>s
<1> QED BY <1>s, <1>1, <1>2, <1>3, <1>4, <1>5, <1>6, <1>7, <1>8
        DEF Next, ClientStep, WorkerStep

SoundInv == IInv /\ (Sound => Accounted)

LEMMA SoundKept == SoundInv /\ [Next]_vars => SoundInv'
<1> SUFFICES ASSUME SoundInv, [Next]_vars PROVE SoundInv'
  OBVIOUS
<1>1. IInv'
  BY IInvKept DEF SoundInv
<1>2. Sound' => Sound
  BY DEF Next, ClientStep, WorkerStep, BeginInit, CreateThread, CreateFails, WaitForInit,
     SpuriousInitWakeup, InitReturns, ClientAddsTask, BeginDestroy, PushNull, JoinWorker,
     FreeQueues, WritePid, Hello, PopTask, PopWaits, RunTests, Process, SpuriousPopWakeup,
     CallJoin, JoinTests, SpuriousJoinWakeup, mainVars, taskVars, vars, Sound
<1> QED BY <1>1, <1>2, AccountedKept DEF SoundInv

LEMMA InitSound == Init => SoundInv
<1>1. Init => Accounted
  BY DEF Init, Accounted
<1> QED BY <1>1, InitIInv DEF SoundInv

(***************************************************************************)
(* Unless a thread cannot be created or Init's wait ends early, Init's     *)
(* locals outlive every worker that has not counted itself in, and Destroy *)
(* frees no queue that a worker still uses.                                *)
(***************************************************************************)
THEOREM MemorySafe == Spec => []NoDanglingPointers
<1>1. SoundInv => NoDanglingPointers
  <2> SUFFICES ASSUME SoundInv, Sound PROVE InitWaitsForWorkers /\ QueuesOutliveWorkers
    BY DEF NoDanglingPointers, InitLocalsAlive, QueuesOutliveWorkers
  <2>0. InPlace /\ Lifecycle /\ Accounted /\ main \in MainState
    BY DEF SoundInv, IInv, TypeOK
  <2>1. ASSUME NEW w \in Worker, worker[w] \in {"born", "hello"} PROVE frame
    <3>1. main # "down" /\ w <= threads /\ w \notin Arrived
      BY <2>0, <2>1 DEF Accounted, Lifecycle, Arrived
    <3>2. main \in {"create", "lock", "initwait", "woken"}
      BY <2>0, <3>1 DEF Accounted, MainState
    <3> QED BY <2>0, <3>2 DEF Lifecycle
  <2>2. ASSUME NEW w \in Worker, worker[w] \in {"pop", "check", "process"}
        PROVE  queues # <<>>
    <3>1. main # "down"
      BY <2>0, <2>2 DEF Accounted
    <3>2. Len(queues) \in {1, threads} /\ threads \in 1..MaxThreads
      BY <2>0, <3>1 DEF InPlace
    <3>3. Len(queues) # 0
      BY <3>2
    <3> QED BY <3>3, EmptySeq
  <2> QED BY <2>1, <2>2 DEF InitWaitsForWorkers, QueuesOutliveWorkers
<1> QED BY <1>1, InitSound, SoundKept, PTL DEF Spec

(***************************************************************************)
(* Every pid that Destroy passes to pthread_join was written by its worker.*)
(***************************************************************************)
THEOREM AllJoined == Spec => []JoinsKnownWorkers
<1>1. SoundInv => JoinsKnownWorkers
  <2> SUFFICES ASSUME SoundInv, Sound, main \in {"ready", "push", "join"},
                      NEW i \in 1..threads
               PROVE  pid[i] = i
    BY DEF JoinsKnownWorkers
  <2>1. i \in Worker /\ i <= threads
    BY WorkerFinite DEF SoundInv, IInv, TypeOK, Worker
  <2>2. i \in Arrived
    BY <2>1 DEF SoundInv, Accounted
  <2> QED BY <2>1, <2>2 DEF SoundInv, IInv, Lifecycle, Arrived
<1> QED BY <1>1, InitSound, SoundKept, PTL DEF Spec

-----------------------------------------------------------------------------
(***************************************************************************)
(* The ThreadPool implements TaskExecutor, for any number of threads,      *)
(* tasks and joiners.  Beyond the invariants above this takes the order of *)
(* the items: the null tasks come last, so when Destroy has joined all     *)
(* workers no accepted task is left behind.                                *)
(***************************************************************************)
(***************************************************************************)
(* A null task is never ahead of a task that was accepted while the pool   *)
(* was up, so no worker of that task's queue has taken a null one: when    *)
(* all workers have exited no accepted task is left in a queue.            *)
(***************************************************************************)
NullsLast(t) ==
  added[t] = "up" =>
    \A i \in DOMAIN queues :
      /\ ~Ahead(queues[i].items, NoTask, t)
      /\ Occurs(queues[i].items, t) =>
           \A w \in Worker : QueueOf(w) = i => worker[w] # "exited"

Order ==
  /\ main \in {"create", "lock", "initwait", "woken"} =>
       /\ \A i \in DOMAIN queues : queues[i].items = <<>>
       /\ \A w \in Worker : worker[w] \in {"none", "born", "hello", "pop"}
  /\ main = "ready" =>
       /\ \A i \in DOMAIN queues : ~Occurs(queues[i].items, NoTask)
       /\ \A w \in Worker : worker[w] # "exited"
  /\ \A t \in Task : added[t] = "no" => left[t] = Steps[t]
  /\ \A t \in Task : NullsLast(t)

(* No item moves, no worker exits and the client gets no further than ready. *)
LEMMA OrderSame ==
  ASSUME Order, UNCHANGED <<added, left>>,
         DOMAIN queues' = DOMAIN queues, \A w \in Worker : QueueOf(w)' = QueueOf(w),
         \A i \in DOMAIN queues : queues'[i].items = queues[i].items,
         \A w \in Worker :
           \/ worker'[w] = worker[w]
           \/ worker[w] \in {"none", "born", "hello"} /\ worker'[w] \in {"born", "hello", "pop"}
           \/ worker[w] \in {"check", "process"} /\ worker'[w] \in {"pop", "process"},
         \/ main' = main
         \/ /\ main \in {"create", "lock", "initwait", "woken"}
            /\ main' \in {"create", "lock", "initwait", "woken", "ready", "failed"}
         \/ main' \in {"push", "join", "free"}
  PROVE  Order'
<1>1. \A w \in Worker : worker'[w] = "exited" => worker[w] = "exited"
  OBVIOUS
<1>2. main' \in {"create", "lock", "initwait", "woken"} =>
        /\ \A i \in DOMAIN queues' : queues'[i].items = <<>>
        /\ \A w \in Worker : worker'[w] \in {"none", "born", "hello", "pop"}
  BY DEF Order
<1>3. main' = "ready" => /\ \A i \in DOMAIN queues' : ~Occurs(queues'[i].items, NoTask)
                         /\ \A w \in Worker : worker'[w] # "exited"
  BY <1>1 DEF Order, Occurs
<1>4. \A t \in Task : NullsLast(t)'
  BY <1>1 DEF Order, NullsLast
<1> QED BY <1>2, <1>3, <1>4 DEF Order

(* One queue gets a new last item. *)
LEMMA PushedAhead ==
  ASSUME TypeOK, NEW i \in DOMAIN queues, NEW x \in Task \cup {NoTask},
         NEW q \in Push(queues[i], x), queues' = [queues EXCEPT ![i] = q]
  PROVE  /\ DOMAIN queues' = DOMAIN queues /\ Len(queues') = Len(queues)
         /\ \A j \in DOMAIN queues : \A t :
              /\ Occurs(queues'[j].items, t) <=> Occurs(queues[j].items, t) \/ (j = i /\ t = x)
              /\ Ahead(queues'[j].items, NoTask, t) =>
                   \/ Ahead(queues[j].items, NoTask, t)
                   \/ j = i /\ t = x /\ Occurs(queues[j].items, NoTask)
<1>1. queues[i] \in QType /\ queues[i].items \in Seq(Task \cup {NoTask})
  BY QueuesShape
<1>2. q \in QType /\ q.items = Append(queues[i].items, x)
  BY <1>1, PushEffect DEF QType
<1>3. /\ Len(queues') = Len(queues)
      /\ DOMAIN queues' = DOMAIN queues
      /\ queues'[i] = q
      /\ \A j \in DOMAIN queues \ {i} : queues'[j] = queues[j]
  BY <1>2, QueueReplaced
<1>4. \A t : Occurs(q.items, t) <=> Occurs(queues[i].items, t) \/ x = t
  BY <1>1, <1>2, AppendOccurs
<1>5. \A t : Ahead(q.items, NoTask, t) =>
               \/ Ahead(queues[i].items, NoTask, t)
               \/ t = x /\ Occurs(queues[i].items, NoTask)
  BY <1>1, <1>2, AppendAhead
<1> QED BY <1>3, <1>4, <1>5

LEMMA OrderKept == IInv /\ Order /\ [Next]_vars => Order'
<1> SUFFICES ASSUME IInv, Order, [Next]_vars PROVE Order'
  OBVIOUS
<1>0. /\ TypeOK /\ InPlace /\ Lifecycle /\ Handed
      /\ worker \in [Worker -> WorkerState] /\ cur \in [Worker -> Task \cup {NoTask}]
      /\ left \in [Task -> Nat] /\ added \in [Task -> AddState] /\ NoTask \notin Task
  BY NoTaskAssumption DEF IInv, TypeOK
<1>q. UNCHANGED <<queues, threads>> => \A w \in Worker : QueueOf(w)' = QueueOf(w)
  BY DEF QueueOf
<1>1. CASE BeginInit
  <2>1. PICK n \in Nat : queues' = [i \in 1..n |-> EmptyQueue]
    BY <1>1, WorkerFinite DEF BeginInit, Worker
  <2>2. \A i \in DOMAIN queues' : queues'[i].items = <<>>
    BY <2>1 DEF EmptyQueue
  <2>3. /\ UNCHANGED <<left, added>> /\ main' = "create"
        /\ \A w \in Worker : worker'[w] = "none"
    BY <1>1 DEF BeginInit, taskVars
  <2>4. \A t \in Task : NullsLast(t)'
    BY <2>2, <2>3 DEF NullsLast, Ahead
  <2> QED BY <2>2, <2>3, <2>4 DEF Order
<1>2. CASE CreateThread
  <2>1. /\ UNCHANGED <<queues, threads, left, added>> /\ main = "create"
        /\ main' \in {"create", "lock"}
        /\ worker' = [worker EXCEPT ![idx] = "born"]
    BY <1>2 DEF CreateThread, taskVars
  <2>2. idx \in Worker => worker[idx] = "none"
    BY <1>0, <2>1, WorkerFinite DEF Lifecycle, TypeOK, Worker
  <2>3. \A w \in Worker : worker'[w] = worker[w] \/ (worker'[w] = "born" /\ worker[w] = "none")
    BY <1>0, <2>1, <2>2
  <2> QED BY <1>q, <2>1, <2>3, OrderSame
<1>3. CASE \/ CreateFails \/ WaitForInit \/ SpuriousInitWakeup \/ InitReturns
           \/ BeginDestroy \/ JoinWorker
  <2>1. /\ UNCHANGED <<queues, threads, worker, left, added>>
        /\ \/ /\ main \in {"create", "lock", "initwait", "woken"}
              /\ main' \in {"create", "lock", "initwait", "woken", "ready", "failed"}
           \/ main' \in {"push", "join", "free"}
    BY <1>3 DEF CreateFails, WaitForInit, SpuriousInitWakeup, InitReturns, BeginDestroy,
                JoinWorker, taskVars
  <2> QED BY <1>q, <2>1, OrderSame
<1>4. CASE \/ UNCHANGED vars
           \/ \E j \in Joiner : CallJoin(j) \/ JoinTests(j) \/ SpuriousJoinWakeup(j)
  <2>1. UNCHANGED <<main, queues, threads, worker, left, added>>
    BY <1>4 DEF CallJoin, JoinTests, SpuriousJoinWakeup, mainVars, vars
  <2> QED BY <1>q, <2>1, OrderSame
<1>5. ASSUME NEW w \in Worker, WritePid(w) \/ Hello(w) PROVE Order'
  <2>1. /\ UNCHANGED <<queues, threads, left, added>>
        /\ \/ main' = main
           \/ main = "initwait" /\ main' = "woken"
    BY <1>5 DEF WritePid, Hello, taskVars
  <2>2. \A v \in Worker : \/ worker'[v] = worker[v]
                          \/ worker[v] \in {"born", "hello"} /\ worker'[v] \in {"hello", "pop"}
    BY <1>0, <1>5 DEF WritePid, Hello
  <2> QED BY <1>q, <2>1, <2>2, OrderSame
<1>6. ASSUME NEW w \in Worker, RunTests(w) PROVE Order'
  <2>1. UNCHANGED <<main, queues, threads, left, added>>
    BY <1>6 DEF RunTests, mainVars, taskVars
  <2>2. \A v \in Worker : \/ worker'[v] = worker[v]
                          \/ worker[v] = "check" /\ worker'[v] \in {"pop", "process"}
    BY <1>0, <1>6 DEF RunTests
  <2> QED BY <1>q, <2>1, <2>2, OrderSame
<1>7. ASSUME NEW w \in Worker, PopWaits(w) \/ SpuriousPopWakeup(w) PROVE Order'
  <2> DEFINE i == QueueOf(w)
  <2>1. i \in DOMAIN queues /\ queues[i] \in QType
    BY <1>0, <1>7, QueuesShape DEF PopWaits, SpuriousPopWakeup, HasQueue
  <2>2. /\ Wait(queues[i], w) \in QType /\ Wait(queues[i], w).items = queues[i].items
        /\ SpuriousWakeup(queues[i], w) \in QType
        /\ SpuriousWakeup(queues[i], w).items = queues[i].items
    BY <2>1 DEF Wait, SpuriousWakeup, QType, QueueType
  <2>3. PICK q \in QType : q.items = queues[i].items /\ queues' = [queues EXCEPT ![i] = q]
    BY <1>7, <2>1, <2>2 DEF PopWaits, SpuriousPopWakeup
  <2> HIDE DEF i
  <2>4. /\ DOMAIN queues' = DOMAIN queues /\ Len(queues') = Len(queues)
        /\ \A j \in DOMAIN queues : queues'[j].items = queues[j].items
    BY <1>0, <2>1, <2>3, QueueReplaced
  <2>5. UNCHANGED <<main, threads, worker, left, added>>
    BY <1>7 DEF PopWaits, SpuriousPopWakeup, mainVars, taskVars
  <2>6. \A v \in Worker : QueueOf(v)' = QueueOf(v)
    BY <2>4, <2>5 DEF QueueOf
  <2> QED BY <2>4, <2>5, <2>6, OrderSame
<1>8. CASE FreeQueues
  <2>1. queues' = <<>> /\ main' = "down" /\ UNCHANGED <<left, added>>
    BY <1>8 DEF FreeQueues, taskVars
  <2>2. \A t \in Task : NullsLast(t)'
    BY <2>1 DEF NullsLast
  <2> QED BY <2>1, <2>2 DEF Order
<1>9. CASE PushNull
  <2>1. KillQueue(idx) \in DOMAIN queues
    <3>1. /\ Len(queues) \in {1, threads} /\ idx <= threads
          /\ idx \in Nat /\ threads \in Nat /\ Len(queues) \in Nat /\ idx >= 1
      BY <1>0, <1>9, QueuesShape, WorkerFinite DEF PushNull, InPlace, TypeOK
    <3>2. KillQueue(idx) \in 1..Len(queues)
      BY <3>1 DEF KillQueue
    <3> QED BY <1>0, <3>2, QueuesShape
  <2>2. PICK q \in Push(queues[KillQueue(idx)], NoTask) :
          queues' = [queues EXCEPT ![KillQueue(idx)] = q]
    BY <1>9 DEF PushNull
  <2>3. /\ DOMAIN queues' = DOMAIN queues /\ Len(queues') = Len(queues)
        /\ \A j \in DOMAIN queues : \A t \in Task :
             /\ Occurs(queues'[j].items, t) => Occurs(queues[j].items, t)
             /\ Ahead(queues'[j].items, NoTask, t) => Ahead(queues[j].items, NoTask, t)
    <3>1. /\ DOMAIN queues' = DOMAIN queues /\ Len(queues') = Len(queues)
          /\ \A j \in DOMAIN queues : \A t :
               /\ Occurs(queues'[j].items, t) <=>
                    Occurs(queues[j].items, t) \/ (j = KillQueue(idx) /\ t = NoTask)
               /\ Ahead(queues'[j].items, NoTask, t) =>
                    \/ Ahead(queues[j].items, NoTask, t)
                    \/ j = KillQueue(idx) /\ t = NoTask /\ Occurs(queues[j].items, NoTask)
      BY <1>0, <2>1, <2>2, PushedAhead
    <3> QED BY <1>0, <3>1
  <2>4. UNCHANGED <<threads, worker, left, added>> /\ main' \in {"push", "join"}
    BY <1>9 DEF PushNull, taskVars
  <2>5. \A v \in Worker : QueueOf(v)' = QueueOf(v)
    BY <2>3, <2>4 DEF QueueOf
  <2>6. \A t \in Task : NullsLast(t)'
    BY <2>3, <2>4, <2>5 DEF Order, NullsLast
  <2> QED BY <2>4, <2>6 DEF Order
<1>10. ASSUME NEW t \in Fresh, NEW i \in DOMAIN queues, AddTask(t, i),
              UNCHANGED <<main, threads>>, main \notin {"create", "lock", "initwait", "woken"},
              \A u \in Task : added[u] = "no" => left'[u] = left[u],
              \A v \in Worker : worker'[v] = "exited" => worker[v] = "exited"
       PROVE  Order'
  <2>1. t \in Task /\ t # NoTask
    BY <1>0 DEF Fresh
  <2>2. /\ DOMAIN queues' = DOMAIN queues /\ Len(queues') = Len(queues)
        /\ \A j \in DOMAIN queues : \A u :
             /\ Occurs(queues'[j].items, u) <=> Occurs(queues[j].items, u) \/ (j = i /\ u = t)
             /\ Ahead(queues'[j].items, NoTask, u) =>
                  \/ Ahead(queues[j].items, NoTask, u)
                  \/ j = i /\ u = t /\ Occurs(queues[j].items, NoTask)
    BY <1>0, <1>10, <2>1, PushedAhead DEF AddTask
  <2>3. \A v \in Worker : QueueOf(v)' = QueueOf(v)
    BY <1>10, <2>2 DEF QueueOf
  <2>4. \A u \in Task : added'[u] = IF u = t THEN IF main = "ready" THEN "up" ELSE "closing"
                                    ELSE added[u]
    BY <1>0, <1>10 DEF AddTask
  <2>5. \A j \in DOMAIN queues : ~Occurs(queues[j].items, t)
    BY <1>0, QueuedOccurs DEF Handed, HandedOnce, Fresh
  <2>6. \A j \in DOMAIN queues : ~Ahead(queues[j].items, NoTask, t)
    BY <2>5 DEF Ahead, Occurs
  <2>7. NullsLast(t)'
    <3> SUFFICES ASSUME main = "ready", NEW j \in DOMAIN queues
                 PROVE  /\ ~Ahead(queues'[j].items, NoTask, t)
                        /\ \A v \in Worker : worker'[v] # "exited"
      BY <2>1, <2>2, <2>4 DEF NullsLast
    <3> QED BY <1>10, <2>2, <2>6 DEF Order
  <2>8. \A u \in Task \ {t} : NullsLast(u)'
    <3> SUFFICES ASSUME NEW u \in Task, u # t, added[u] = "up", NEW j \in DOMAIN queues
                 PROVE  /\ ~Ahead(queues'[j].items, NoTask, u)
                        /\ Occurs(queues'[j].items, u) =>
                             \A v \in Worker : QueueOf(v) = j => worker'[v] # "exited"
      BY <2>2, <2>3, <2>4 DEF NullsLast
    <3>1. /\ ~Ahead(queues[j].items, NoTask, u)
          /\ Occurs(queues[j].items, u) =>
               \A v \in Worker : QueueOf(v) = j => worker[v] # "exited"
      BY DEF Order, NullsLast
    <3> QED BY <1>10, <2>2, <3>1
  <2>9. main' = "ready" => \A j \in DOMAIN queues' : ~Occurs(queues'[j].items, NoTask)
    BY <1>10, <2>1, <2>2 DEF Order
  <2> QED BY <1>10, <2>4, <2>7, <2>8, <2>9 DEF Order
<1>11. CASE ClientAddsTask
  <2>1. PICK t \in Fresh, i \in DOMAIN queues : AddTask(t, i)
    BY <1>11 DEF ClientAddsTask, AddTask
  <2>2. main = "ready" /\ UNCHANGED <<main, threads, worker, left>>
    BY <1>11 DEF ClientAddsTask, mainVars
  <2> QED BY <1>10, <2>1, <2>2
<1>12. ASSUME NEW w \in Worker, PopTask(w) PROVE Order'
  <2> DEFINE i == QueueOf(w)
             s == queues[i].items
             x == Head(s)
  <2>1. /\ i \in DOMAIN queues /\ s # <<>>
        /\ queues' = [queues EXCEPT ![i] = Take(@)]
        /\ worker[w] = "pop"
        /\ worker' = [worker EXCEPT ![w] = IF x = NoTask THEN "exited" ELSE "check"]
        /\ UNCHANGED <<main, threads, left, added>>
    BY <1>12 DEF PopTask, HasQueue, CanTake, taskVars, mainVars, Front
  <2>2. queues[i] \in QType /\ s \in Seq(Task \cup {NoTask})
    BY <1>0, <2>1, QueuesShape
  <2>3. Take(queues[i]) \in QType /\ Take(queues[i]).items = Tail(s)
    BY <2>1, <2>2, TakeEffect DEF QType
  <2>4. /\ DOMAIN queues' = DOMAIN queues /\ Len(queues') = Len(queues)
        /\ queues'[i] = Take(queues[i])
        /\ \A j \in DOMAIN queues \ {i} : queues'[j] = queues[j]
    BY <1>0, <2>1, <2>3, QueueReplaced
  <2>5. \A v \in Worker : QueueOf(v)' = QueueOf(v)
    BY <2>1, <2>4 DEF QueueOf
  <2>6. \A t : /\ Occurs(Tail(s), t) => Occurs(s, t)
               /\ Occurs(s, x)
               /\ Ahead(Tail(s), NoTask, t) => Ahead(s, NoTask, t)
               /\ x = NoTask /\ Occurs(Tail(s), t) => Ahead(s, NoTask, t)
    BY <2>1, <2>2, TailOccurs, TailAhead
  <2>7. main' \notin {"create", "lock", "initwait", "woken"}
    BY <2>1 DEF Order
  <2> HIDE DEF s, x, i
  <2>8. i = QueueOf(w) /\ s = queues[i].items
    BY DEF i, s
  <2>9. \A v \in Worker : worker'[v] = IF v = w THEN IF x = NoTask THEN "exited" ELSE "check"
                                       ELSE worker[v]
    BY <1>0, <2>1
  <2>10. \A t \in Task : NullsLast(t)'
    <3> SUFFICES ASSUME NEW t \in Task, added[t] = "up", NEW j \in DOMAIN queues
                 PROVE  /\ ~Ahead(queues'[j].items, NoTask, t)
                        /\ Occurs(queues'[j].items, t) =>
                             \A v \in Worker : QueueOf(v) = j => worker'[v] # "exited"
      BY <2>1, <2>4, <2>5 DEF NullsLast
    <3>1. /\ ~Ahead(queues[j].items, NoTask, t)
          /\ Occurs(queues[j].items, t) =>
               \A v \in Worker : QueueOf(v) = j => worker[v] # "exited"
      BY DEF Order, NullsLast
    <3>2. CASE j = i
      BY <2>3, <2>4, <2>6, <2>8, <2>9, <3>1, <3>2
    <3>3. CASE j # i
      BY <2>4, <2>8, <2>9, <3>1, <3>3
    <3> QED BY <3>2, <3>3
  <2>11. main' = "ready" => /\ \A j \in DOMAIN queues' : ~Occurs(queues'[j].items, NoTask)
                            /\ \A v \in Worker : worker'[v] # "exited"
    <3> SUFFICES ASSUME main = "ready"
                 PROVE  /\ \A j \in DOMAIN queues : ~Occurs(queues'[j].items, NoTask)
                        /\ \A v \in Worker : worker'[v] # "exited"
      BY <2>1, <2>4
    <3>1. \A j \in DOMAIN queues : ~Occurs(queues[j].items, NoTask)
      BY DEF Order
    <3>2. \A v \in Worker : worker[v] # "exited"
      BY DEF Order
    <3>3. x # NoTask
      BY <2>1, <2>6, <2>8, <3>1
    <3>4. \A j \in DOMAIN queues : ~Occurs(queues'[j].items, NoTask)
      BY <2>3, <2>4, <2>6, <2>8, <3>1
    <3> QED BY <2>9, <3>2, <3>3, <3>4
  <2> QED BY <2>1, <2>7, <2>10, <2>11 DEF Order
<1>13. ASSUME NEW w \in Worker, Process(w) PROVE Order'
  <2>1. /\ cur[w] \in Task /\ worker[w] = "process" /\ UNCHANGED <<main, threads>>
        /\ left' = [left EXCEPT ![cur[w]] = @ - 1]
    BY <1>0, <1>13 DEF Process, Handed, mainVars
  <2>2. PICK n \in NextTasks(cur[w]) :
          /\ cur' = [cur EXCEPT ![w] = n]
          /\ worker' = [worker EXCEPT ![w] = IF n = NoTask THEN "pop" ELSE "check"]
          /\ \/ /\ n \in Fresh
                /\ added' = [added EXCEPT ![n] = IF main = "ready" THEN "up" ELSE "closing"]
                /\ UNCHANGED queues
             \/ n \notin Fresh /\ UNCHANGED <<added, queues>>
             \/ /\ n \notin Fresh
                /\ \E t \in Fresh, i \in DOMAIN queues : AddTask(t, i)
    BY <1>13 DEF Process
  <2>3. main \notin {"create", "lock", "initwait", "woken"}
    BY <2>1 DEF Order
  <2>4. \A u \in Task : added[u] = "no" => left'[u] = left[u]
    BY <1>0, <2>1 DEF Handed, HandedOnce
  <2>5. \A v \in Worker : worker'[v] = "exited" => worker[v] = "exited"
    BY <1>0, <2>2
  <2>6. CASE \E t \in Fresh, i \in DOMAIN queues : AddTask(t, i)
    BY <1>10, <2>1, <2>3, <2>4, <2>5, <2>6
  <2>7. CASE UNCHANGED queues /\ \A u \in Task : \/ added'[u] = added[u]
                                                 \/ added[u] = "no" /\ added'[u] # "no"
    <3>1. \A u \in Task : added'[u] = "up" =>
            \/ added[u] = "up"
            \/ \A i \in DOMAIN queues : ~Occurs(queues[i].items, u)
      BY <1>0, <2>7, QueuedOccurs DEF Handed, HandedOnce
    <3>2. \A u : \A i \in DOMAIN queues :
            Ahead(queues[i].items, NoTask, u) => Occurs(queues[i].items, u)
      BY DEF Ahead, Occurs
    <3>3. \A u \in Task : NullsLast(u)'
      <4> SUFFICES ASSUME NEW u \in Task, added'[u] = "up", NEW j \in DOMAIN queues
                   PROVE  /\ ~Ahead(queues[j].items, NoTask, u)
                          /\ Occurs(queues[j].items, u) =>
                               \A v \in Worker : QueueOf(v) = j => worker'[v] # "exited"
        BY <1>q, <2>1, <2>7 DEF NullsLast
      <4>1. CASE added[u] = "up"
        BY <2>5, <4>1 DEF Order, NullsLast
      <4>2. CASE \A i \in DOMAIN queues : ~Occurs(queues[i].items, u)
        BY <3>2, <4>2
      <4> QED BY <3>1, <4>1, <4>2
    <3>4. main' = "ready" => /\ \A j \in DOMAIN queues' : ~Occurs(queues'[j].items, NoTask)
                             /\ \A v \in Worker : worker'[v] # "exited"
      BY <2>1, <2>5, <2>7 DEF Order
    <3> QED BY <2>1, <2>3, <2>4, <2>7, <3>3, <3>4 DEF Order
  <2>8. ASSUME n \in Fresh,
               added' = [added EXCEPT ![n] = IF main = "ready" THEN "up" ELSE "closing"]
        PROVE  \A u \in Task : \/ added'[u] = added[u]
                               \/ added[u] = "no" /\ added'[u] # "no"
    <3>1. n \in Task /\ added[n] = "no"
      BY <2>8 DEF Fresh
    <3>2. \A u \in Task : \/ added'[u] = added[u]
                          \/ u = n /\ added'[u] \in {"up", "closing"}
      <4> DEFINE a == IF main = "ready" THEN "up" ELSE "closing"
      <4>1. a \in {"up", "closing"}
        OBVIOUS
      <4>2. added \in [Task -> AddState] /\ added' = [added EXCEPT ![n] = a]
        BY <1>0, <2>8
      <4> HIDE DEF a
      <4> QED BY <3>1, <4>1, <4>2
    <3> QED BY <3>1, <3>2
  <2>9. CASE UNCHANGED <<added, queues>>
    <3>1. UNCHANGED queues /\ \A u \in Task : added'[u] = added[u]
      BY <2>9
    <3> QED BY <2>7, <3>1
  <2>10. CASE n \in Fresh /\ UNCHANGED queues
              /\ added' = [added EXCEPT ![n] = IF main = "ready" THEN "up" ELSE "closing"]
    BY <2>7, <2>8, <2>10
  <2> QED BY <2>2, <2>6, <2>9, <2>10
<1> QED BY <1>1, <1>2, <1>3, <1>4, <1>5, <1>6, <1>7, <1>8, <1>9, <1>11, <1>12, <1>13
        DEF Next, ClientStep, WorkerStep
-----------------------------------------------------------------------------
(* The pool implements TaskExecutor. *)

Held(t) == \E w \in Worker : cur[w] = t

LEMMA StatusIs ==
  ASSUME NEW t \in Task
  PROVE  /\ added[t] = "no" => TaskStatus[t] = "new"
         /\ added[t] # "no" =>
              /\ left[t] = 0 => TaskStatus[t] = "done"
              /\ left[t] # 0 /\ Held(t) => TaskStatus[t] = "running"
              /\ left[t] # 0 /\ ~Held(t) =>
                   /\ Queued(t) /\ added[t] = "up" => TaskStatus[t] = "accepted"
                   /\ Queued(t) /\ added[t] # "up" => TaskStatus[t] = "late"
                   /\ ~Queued(t) => TaskStatus[t] = "dropped"
BY DEF TaskStatus, Held

LEMMA StatusWillBe ==
  ASSUME NEW t \in Task
  PROVE  /\ added'[t] = "no" => TaskStatus'[t] = "new"
         /\ added'[t] # "no" =>
              /\ left'[t] = 0 => TaskStatus'[t] = "done"
              /\ left'[t] # 0 /\ Held(t)' => TaskStatus'[t] = "running"
              /\ left'[t] # 0 /\ ~Held(t)' =>
                   /\ Queued(t)' /\ added'[t] = "up" => TaskStatus'[t] = "accepted"
                   /\ Queued(t)' /\ added'[t] # "up" => TaskStatus'[t] = "late"
                   /\ ~Queued(t)' => TaskStatus'[t] = "dropped"
BY DEF TaskStatus, Held

(* What a task's status depends on does not change. *)
TaskSame(t) ==
  /\ added'[t] = added[t] /\ left'[t] = left[t]
  /\ Queued(t)' <=> Queued(t)
  /\ Held(t)' <=> Held(t)

LEMMA SameStatus ==
  ASSUME NEW t \in Task, TaskSame(t)
  PROVE  TaskStatus'[t] = TaskStatus[t]
BY StatusIs, StatusWillBe DEF TaskSame

LEMMA StatusFunction ==
  /\ DOMAIN TaskStatus = Task /\ TaskStatus = [t \in Task |-> TaskStatus[t]]
  /\ TaskStatus' = [t \in Task |-> TaskStatus'[t]]
BY DEF TaskStatus

LEMMA StatusUnchanged ==
  ASSUME \A t \in Task : TaskStatus'[t] = TaskStatus[t]
  PROVE  TaskStatus' = TaskStatus
BY StatusFunction

LEMMA StatusExcept ==
  ASSUME NEW t \in Task, \A u \in Task \ {t} : TaskStatus'[u] = TaskStatus[u]
  PROVE  TaskStatus' = [TaskStatus EXCEPT ![t] = TaskStatus'[t]]
<1>1. [TaskStatus EXCEPT ![t] = TaskStatus'[t]]
        = [u \in Task |-> IF u = t THEN TaskStatus'[t] ELSE TaskStatus[u]]
  BY StatusFunction
<1> QED BY <1>1, StatusFunction

LEMMA StatusExceptTwo ==
  ASSUME NEW t \in Task, NEW v \in Task, t # v,
         \A u \in Task \ {t, v} : TaskStatus'[u] = TaskStatus[u]
  PROVE  TaskStatus' = [TaskStatus EXCEPT ![t] = TaskStatus'[t], ![v] = TaskStatus'[v]]
<1>1. [TaskStatus EXCEPT ![t] = TaskStatus'[t], ![v] = TaskStatus'[v]]
        = [u \in Task |-> IF u = v THEN TaskStatus'[v]
                          ELSE IF u = t THEN TaskStatus'[t] ELSE TaskStatus[u]]
  BY StatusFunction
<1> QED BY <1>1, StatusFunction

LEMMA PhaseIs ==
  /\ main = "ready" => Phase = "up"
  /\ main \in {"push", "join", "free"} => Phase = "closing"
  /\ main \in {"down", "create", "lock", "initwait", "woken"} => Phase = "down"
  /\ main' = "ready" => Phase' = "up"
  /\ main' \in {"push", "join", "free"} => Phase' = "closing"
  /\ main' \in {"down", "create", "lock", "initwait", "woken"} => Phase' = "down"
BY DEF Phase

(* The client does not leave the phase and no task changes its status. *)
LEMMA Stutters ==
  ASSUME Phase' = Phase, \A t \in Task : TaskSame(t)
  PROVE  UNCHANGED <<Phase, TaskStatus>>
BY SameStatus, StatusUnchanged

(* A queued task that is not running yet becomes late or accepted. *)
LEMMA Submitted ==
  ASSUME IInv, Order, NEW t \in Fresh, NEW i \in DOMAIN queues, AddTask(t, i),
         main \in {"ready", "push", "join", "free"}, left'[t] = left[t], ~Held(t)'
  PROVE  /\ TaskStatus[t] = "new"
         /\ main = "ready" => TaskStatus'[t] = "accepted"
         /\ main # "ready" => TaskStatus'[t] = "late"
<1>1. t \in Task /\ added[t] = "no" /\ added \in [Task -> AddState]
  BY DEF Fresh, IInv, TypeOK
<1>2. added'[t] = IF main = "ready" THEN "up" ELSE "closing"
  BY <1>1 DEF AddTask
<1>3. Queued(t)'
  BY <1>1, FreshQueued DEF IInv
<1>4. left[t] # 0
  BY <1>1, StepsAssumption DEF Order
<1> QED BY <1>1, <1>2, <1>3, <1>4, StatusIs, StatusWillBe

LEMMA ProcessRefines ==
  ASSUME IInv, Order, Sound, Accounted, NEW w \in Worker, Process(w)
  PROVE  [Executor!Next]_<<Phase, TaskStatus>>
<1> DEFINE t == cur[w]
<1>0. /\ TypeOK /\ Handed /\ main \in MainState
      /\ cur \in [Worker -> Task \cup {NoTask}]
      /\ left \in [Task -> Nat] /\ added \in [Task -> AddState] /\ NoTask \notin Task
  BY NoTaskAssumption DEF IInv, TypeOK
<1>1. /\ t \in Task /\ worker[w] = "process" /\ UNCHANGED main
      /\ left' = [left EXCEPT ![t] = @ - 1]
  BY <1>0 DEF Process, Handed, mainVars
<1>2. main \in {"ready", "push", "join", "free"} /\ Phase' = Phase
  BY <1>0, <1>1, PhaseIs DEF Order, Accounted, MainState
<1>3. PICK n \in NextTasks(t) :
        /\ cur' = [cur EXCEPT ![w] = n]
        /\ \/ /\ n \in Fresh
              /\ added' = [added EXCEPT ![n] = IF main = "ready" THEN "up" ELSE "closing"]
              /\ UNCHANGED queues
           \/ n \notin Fresh /\ UNCHANGED <<added, queues>>
           \/ /\ n \notin Fresh
              /\ \E u \in Fresh, i \in DOMAIN queues : AddTask(u, i)
  BY DEF Process
<1>4. /\ n \in {t, NoTask} \cup Fresh /\ n \in Task \cup {NoTask}
      /\ left[t] > 1 => n = t
  BY <1>1 DEF NextTasks, Fresh
<1>5. /\ \A u \in Task : left'[u] = IF u = t THEN left[t] - 1 ELSE left[u]
      /\ left[t] \in Nat /\ left[t] > 0
  BY <1>0, <1>1 DEF Handed, ProcessOnlyUnfinished
<1>6. added[t] # "no" /\ TaskStatus[t] = "running" /\ t \notin Fresh
  <2>1. HandedOnce(t) /\ Held(t)
    BY <1>0, <1>1 DEF Handed, Held
  <2>2. added[t] # "no"
    BY <2>1 DEF HandedOnce, Held
  <2> QED BY <1>1, <1>5, <2>1, <2>2, StatusIs DEF Fresh
<1>7. \A v \in Worker : cur'[v] = IF v = w THEN n ELSE cur[v]
  BY <1>0, <1>3
<1>8. \A u \in Task \ {t, n} : Held(u)' <=> Held(u)
  BY <1>7 DEF Held
<1>9. n \in Task => Held(n)'
  BY <1>7 DEF Held
<1>t. added'[t] = added[t] => /\ left[t] > 1 => TaskStatus'[t] = "running"
                              /\ ~(left[t] > 1) => TaskStatus'[t] = "done"
  <2>1. ASSUME added'[t] = added[t], left[t] > 1 PROVE TaskStatus'[t] = "running"
    BY <1>1, <1>4, <1>5, <1>6, <1>9, <2>1, StatusWillBe
  <2>2. ASSUME added'[t] = added[t], ~(left[t] > 1) PROVE TaskStatus'[t] = "done"
    BY <1>1, <1>5, <1>6, <2>2, StatusWillBe
  <2> QED BY <2>1, <2>2
<1>10. CASE n \notin Fresh /\ UNCHANGED <<added, queues>>
  <2>1. \A u \in Task \ {t} : TaskSame(u)
    BY <1>0, <1>4, <1>5, <1>8, <1>10 DEF TaskSame, Queued
  <2>2. \A u \in Task \ {t} : TaskStatus'[u] = TaskStatus[u]
    BY <2>1, SameStatus
  <2>3. added'[t] = added[t]
    BY <1>10
  <2>4. CASE left[t] > 1
    <3>1. \A u \in Task : TaskStatus'[u] = TaskStatus[u]
      BY <1>6, <1>t, <2>2, <2>3, <2>4
    <3> QED BY <1>2, <3>1, StatusUnchanged
  <2>5. CASE ~(left[t] > 1)
    <3>1. TaskStatus' = [TaskStatus EXCEPT ![t] = "done"]
      BY <1>1, <1>t, <2>2, <2>3, <2>5, StatusExcept
    <3>2. Executor!Finish(t)
      BY <1>2, <1>6, <3>1 DEF Executor!Finish
    <3> QED BY <1>1, <3>2 DEF Executor!Next
  <2> QED BY <2>4, <2>5
<1>11. CASE n \notin Fresh /\ \E u \in Fresh, i \in DOMAIN queues : AddTask(u, i)
  <2>1. PICK u \in Fresh, i \in DOMAIN queues : AddTask(u, i)
    BY <1>11
  <2>2. u \in Task /\ u # t /\ n \in {t, NoTask} /\ u # n
    BY <1>0, <1>4, <1>6, <1>11, <2>1 DEF Fresh
  <2>3. /\ \A x \in Task : Queued(x)' <=> Queued(x) \/ x = u
        /\ \A x \in Task \ {u} : added'[x] = added[x]
    BY <1>0, <2>1, FreshQueued
  <2>4. ~Held(u)'
    <3>1. \A v \in Worker : cur[v] # u
      BY <1>0, <2>1 DEF Handed, HandedOnce, Fresh
    <3> QED BY <1>7, <2>2, <3>1 DEF Held
  <2>5. /\ TaskStatus[u] = "new"
        /\ main = "ready" => TaskStatus'[u] = "accepted"
        /\ main # "ready" => TaskStatus'[u] = "late"
    BY <1>2, <1>5, <2>1, <2>2, <2>4, Submitted
  <2>6. \A x \in Task \ {t, u} : TaskStatus'[x] = TaskStatus[x]
    <3>1. \A x \in Task \ {t, u} : TaskSame(x)
      BY <1>0, <1>5, <1>8, <2>2, <2>3 DEF TaskSame
    <3> QED BY <3>1, SameStatus
  <2>7. added'[t] = added[t]
    BY <1>1, <2>2, <2>3
  <2>8. CASE left[t] > 1
    <3>1. TaskStatus'[t] = TaskStatus[t]
      BY <1>6, <1>t, <2>7, <2>8
    <3>2. TaskStatus' = [TaskStatus EXCEPT ![u] = TaskStatus'[u]]
      BY <2>2, <2>6, <3>1, StatusExcept
    <3>3. Executor!Submit(u)
      BY <1>2, <2>5, <3>2, PhaseIs DEF Executor!Submit
    <3> QED BY <2>2, <3>3 DEF Executor!Next
  <2>9. CASE ~(left[t] > 1)
    <3>1. TaskStatus'[t] = "done"
      BY <1>t, <2>7, <2>9
    <3>2. TaskStatus' = [TaskStatus EXCEPT ![t] = "done", ![u] = TaskStatus'[u]]
      BY <1>1, <2>2, <2>6, <3>1, StatusExceptTwo
    <3>3. Executor!FinishSubmitting(t, u)
      <4>1. CASE main = "ready"
        BY <1>2, <1>6, <2>5, <3>2, <4>1, PhaseIs DEF Executor!FinishSubmitting
      <4>2. CASE main # "ready"
        BY <1>2, <1>6, <2>5, <3>2, <4>2, PhaseIs DEF Executor!FinishSubmitting
      <4> QED BY <4>1, <4>2
    <3> QED BY <1>1, <2>2, <3>3 DEF Executor!Next
  <2> QED BY <2>8, <2>9
<1>12. CASE n \in Fresh /\ UNCHANGED queues
            /\ added' = [added EXCEPT ![n] = IF main = "ready" THEN "up" ELSE "closing"]
  <2>1. n \in Task /\ n # t /\ added[n] = "no" /\ ~(left[t] > 1)
    BY <1>4, <1>6, <1>12 DEF Fresh
  <2>2. added'[n] # "no" /\ \A u \in Task \ {n} : added'[u] = added[u]
    <3> DEFINE a == IF main = "ready" THEN "up" ELSE "closing"
    <3>1. a # "no" /\ added' = [added EXCEPT ![n] = a]
      BY <1>12
    <3> HIDE DEF a
    <3> QED BY <1>0, <2>1, <3>1
  <2>3. TaskStatus'[t] = "done"
    BY <1>1, <1>t, <2>1, <2>2
  <2>4. TaskStatus[n] = "new" /\ TaskStatus'[n] = "running"
    <3>1. left[n] # 0 /\ left'[n] = left[n]
      BY <1>5, <2>1, StepsAssumption DEF Order
    <3> QED BY <1>9, <2>1, <2>2, <3>1, StatusIs, StatusWillBe
  <2>5. \A u \in Task \ {t, n} : TaskStatus'[u] = TaskStatus[u]
    <3>1. \A u \in Task \ {t, n} : TaskSame(u)
      BY <1>5, <1>8, <1>12, <2>2 DEF TaskSame, Queued
    <3> QED BY <3>1, SameStatus
  <2>6. TaskStatus' = [TaskStatus EXCEPT ![t] = "done", ![n] = "running"]
    BY <1>1, <2>1, <2>3, <2>4, <2>5, StatusExceptTwo
  <2>7. Executor!FinishInto(t, n)
    BY <1>2, <1>6, <2>4, <2>6 DEF Executor!FinishInto
  <2> QED BY <1>1, <2>1, <2>7 DEF Executor!Next
<1> QED BY <1>3, <1>10, <1>11, <1>12

LEMMA PopRefines ==
  ASSUME IInv, Order, NEW w \in Worker, PopTask(w)
  PROVE  [Executor!Next]_<<Phase, TaskStatus>>
<1> DEFINE i == QueueOf(w)
<1>x. PICK x : x = Front(queues[i])
  OBVIOUS
<1>0. /\ TypeOK /\ Handed /\ cur \in [Worker -> Task \cup {NoTask}] /\ NoTask \notin Task
  BY NoTaskAssumption DEF IInv, TypeOK
<1>1. /\ i \in DOMAIN queues /\ queues[i].items # <<>>
      /\ queues' = [queues EXCEPT ![i] = Take(@)]
      /\ cur' = [cur EXCEPT ![w] = x]
      /\ worker[w] = "pop"
      /\ UNCHANGED <<main, left, added>>
  BY <1>x DEF PopTask, HasQueue, CanTake, mainVars, taskVars
<1>2. /\ x \in Task \cup {NoTask} /\ Queued(x)
      /\ \A t : Queued(t)' => Queued(t)
      /\ \A t : Queued(t) => Queued(t)' \/ t = x
  BY <1>x, <1>0, <1>1, TakenItems
<1> HIDE DEF i
<1>3. cur[w] = NoTask /\ \A v \in Worker : cur'[v] = IF v = w THEN x ELSE cur[v]
  BY <1>0, <1>1 DEF Handed
<1>4. Phase' = Phase
  BY <1>1 DEF Phase
<1>5. \A u \in Task \ {x} : TaskSame(u)
  BY <1>0, <1>1, <1>2, <1>3 DEF TaskSame, Held
<1>6. CASE x = NoTask
  BY <1>0, <1>4, <1>5, <1>6, Stutters
<1>7. CASE x \in Task
  <2>1. HandedOnce(x)
    BY <1>0, <1>7 DEF Handed
  <2>2. added[x] # "no" /\ ~Held(x) /\ Held(x)'
    <3>1. added[x] # "no" /\ \A v \in Worker : cur[v] # x
      BY <1>2, <2>1 DEF HandedOnce
    <3>2. cur'[w] = x
      BY <1>3
    <3> QED BY <3>1, <3>2 DEF Held
  <2>3. \A u \in Task \ {x} : TaskStatus'[u] = TaskStatus[u]
    BY <1>5, SameStatus
  <2>4. CASE left[x] = 0
    <3>1. TaskStatus'[x] = TaskStatus[x]
      BY <1>1, <1>7, <2>2, <2>4, StatusIs, StatusWillBe
    <3> QED BY <1>4, <2>3, <3>1, StatusUnchanged
  <2>5. CASE left[x] # 0
    <3>1. TaskStatus[x] \in {"accepted", "late"} /\ TaskStatus'[x] = "running"
      <4>1. TaskStatus[x] \in {"accepted", "late"}
        BY <1>2, <1>7, <2>2, <2>5, StatusIs
      <4>2. left'[x] # 0 /\ added'[x] # "no"
        BY <1>1, <2>2, <2>5
      <4>3. TaskStatus'[x] = "running"
        BY <1>7, <2>2, <4>2, StatusWillBe
      <4> QED BY <4>1, <4>3
    <3>2. TaskStatus' = [TaskStatus EXCEPT ![x] = "running"]
      BY <1>7, <2>3, <3>1, StatusExcept
    <3>3. Executor!Start(x)
      BY <1>4, <3>1, <3>2 DEF Executor!Start
    <3> QED BY <1>7, <3>3 DEF Executor!Next
  <2> QED BY <2>4, <2>5
<1> QED BY <1>2, <1>6, <1>7
LEMMA ClientRefines ==
  ASSUME SoundInv, Order, Sound, ClientStep
  PROVE  [Executor!Next]_<<Phase, TaskStatus>>
<1>0. IInv /\ TypeOK /\ InPlace /\ Lifecycle /\ Handed /\ Accounted
  BY DEF SoundInv, IInv
<1>1. CASE BeginInit
  <2>1. PICK k \in Nat : queues' = [i \in 1..k |-> EmptyQueue]
    BY <1>1, WorkerFinite DEF BeginInit, Worker
  <2>2. \A t : ~Queued(t) /\ ~Queued(t)'
    BY <1>0, <1>1, <2>1 DEF BeginInit, InPlace, Queued, EmptyQueue
  <2>3. main = "down" /\ main' = "create" /\ UNCHANGED <<cur, left, added>>
    BY <1>1 DEF BeginInit, taskVars
  <2>4. \A t \in Task : TaskSame(t)
    BY <2>2, <2>3 DEF TaskSame, Held
  <2> QED BY <2>3, <2>4, PhaseIs, Stutters
<1>2. ASSUME UNCHANGED <<queues, cur, left, added>>
      PROVE  \A t \in Task : TaskSame(t)
  BY <1>2 DEF TaskSame, Held, Queued
<1>3. CASE CreateThread \/ WaitForInit \/ JoinWorker
  <2>1. /\ UNCHANGED <<queues, cur, left, added>>
        /\ \/ main \in {"create", "lock"} /\ main' \in {"create", "lock", "initwait"}
           \/ main = "join" /\ main' \in {"join", "free"}
    BY <1>3 DEF CreateThread, WaitForInit, JoinWorker, taskVars
  <2>2. Phase' = Phase
    BY <2>1, PhaseIs
  <2> QED BY <1>2, <2>1, <2>2, Stutters
<1>4. CASE CreateFails \/ SpuriousInitWakeup
  BY <1>4 DEF CreateFails, SpuriousInitWakeup, Sound
<1>5. CASE InitReturns \/ BeginDestroy
  <2>1. UNCHANGED <<queues, cur, left, added>>
    BY <1>5 DEF InitReturns, BeginDestroy, taskVars
  <2>2. UNCHANGED TaskStatus
    BY <1>2, <2>1, SameStatus, StatusUnchanged
  <2>3. \/ main = "woken" /\ main' = "ready"
        \/ main = "ready" /\ main' = "push"
    BY <1>0, <1>5 DEF InitReturns, BeginDestroy, Accounted
  <2>4. Executor!Open \/ Executor!Close
    BY <2>2, <2>3, PhaseIs DEF Executor!Open, Executor!Close
  <2> QED BY <2>4 DEF Executor!Next
<1>6. CASE ClientAddsTask
  <2>1. PICK t \in Fresh, i \in DOMAIN queues : AddTask(t, i)
    BY <1>6 DEF ClientAddsTask, AddTask
  <2>2. main = "ready" /\ UNCHANGED <<main, cur, left>> /\ t \in Task
    BY <1>6, <2>1 DEF ClientAddsTask, mainVars, Fresh
  <2>3. /\ \A u \in Task : Queued(u)' <=> Queued(u) \/ u = t
        /\ \A u \in Task \ {t} : added'[u] = added[u]
    BY <1>0, <2>1, FreshQueued
  <2>4. ~Held(t) /\ ~Held(t)'
    BY <1>0, <2>1, <2>2 DEF Handed, HandedOnce, Fresh, Held
  <2>5. TaskStatus[t] = "new" /\ TaskStatus'[t] = "accepted"
    BY <1>0, <2>1, <2>2, <2>4, Submitted
  <2>6. \A u \in Task \ {t} : TaskStatus'[u] = TaskStatus[u]
    <3>1. \A u \in Task \ {t} : TaskSame(u)
      BY <2>2, <2>3 DEF TaskSame, Held
    <3> QED BY <3>1, SameStatus
  <2>7. TaskStatus' = [TaskStatus EXCEPT ![t] = "accepted"]
    BY <2>2, <2>5, <2>6, StatusExcept
  <2>8. Executor!Submit(t)
    BY <2>2, <2>5, <2>7, PhaseIs DEF Executor!Submit
  <2> QED BY <2>2, <2>8 DEF Executor!Next
<1>7. CASE PushNull
  <2>1. KillQueue(idx) \in DOMAIN queues
    <3>1. /\ Len(queues) \in {1, threads} /\ idx <= threads
          /\ idx \in Nat /\ threads \in Nat /\ Len(queues) \in Nat /\ idx >= 1
      BY <1>0, <1>7, QueuesShape, WorkerFinite DEF PushNull, InPlace, TypeOK
    <3>2. KillQueue(idx) \in 1..Len(queues)
      BY <3>1 DEF KillQueue
    <3> QED BY <1>0, <3>2, QueuesShape
  <2>2. PICK q \in Push(queues[KillQueue(idx)], NoTask) :
          queues' = [queues EXCEPT ![KillQueue(idx)] = q]
    BY <1>7 DEF PushNull
  <2>3. \A t \in Task : Queued(t)' <=> Queued(t)
    BY <1>0, <2>1, <2>2, NoTaskAssumption, PushedItems
  <2>4. UNCHANGED <<cur, left, added>> /\ main = "push" /\ main' \in {"push", "join"}
    BY <1>7 DEF PushNull, taskVars
  <2>5. \A t \in Task : TaskSame(t)
    BY <2>3, <2>4 DEF TaskSame, Held
  <2> QED BY <2>4, <2>5, PhaseIs, Stutters
<1>8. CASE FreeQueues
  <2>1. /\ main = "free" /\ main' = "down" /\ queues' = <<>>
        /\ UNCHANGED <<cur, left, added>>
    BY <1>8 DEF FreeQueues, taskVars
  <2>2. \A w \in Worker : worker[w] \in {"none", "exited"}
    BY <1>0, <2>1 DEF Lifecycle, Accounted
  <2>3. \A t \in Task : ~Held(t) /\ ~Held(t)' /\ ~Queued(t)'
    BY <1>0, <2>1, <2>2, NoTaskAssumption DEF Handed, Held, Queued
  <2>4. \A t \in Task : added[t] = "up" => ~Queued(t)
    <3> SUFFICES ASSUME NEW t \in Task, added[t] = "up",
                        NEW i \in DOMAIN queues, Occurs(queues[i].items, t)
                 PROVE  FALSE
      BY QueuedOccurs
    <3>1. /\ threads \in 1..MaxThreads /\ Len(queues) \in {1, threads}
          /\ DOMAIN queues = 1..Len(queues)
      BY <1>0, <2>1, QueuesShape DEF InPlace
    <3>a. MaxThreads \in Nat /\ Worker = 1..MaxThreads
      BY WorkerFinite DEF Worker
    <3>b. threads \in Nat /\ threads >= 1 /\ threads <= MaxThreads
      <4>1. threads \in 1..MaxThreads
        BY <3>1
      <4> QED BY <3>a, <4>1
    <3>2. PICK w \in 1..threads : QueueOf(w) = i
      <4>1. CASE Len(queues) = threads
        BY <3>1, <4>1 DEF QueueOf
      <4>2. CASE Len(queues) # threads
        <5>1. Len(queues) = 1
          BY <3>1, <4>2
        <5>2. i \in 1..1
          BY <3>1, <5>1
        <5>3. i = 1 /\ 1 \in 1..threads
          BY <3>b, <5>2
        <5> QED BY <4>2, <5>3 DEF QueueOf
      <4> QED BY <4>1, <4>2
    <3>3. w \in Worker /\ w <= threads
      BY <3>a, <3>b, <3>2
    <3>4. worker[w] = "exited"
      BY <1>0, <2>1, <3>3 DEF Accounted
    <3> QED BY <3>2, <3>3, <3>4 DEF Order, NullsLast
  <2>5. ASSUME NEW t \in Task
        PROVE  /\ TaskStatus[t] \notin {"accepted", "running"}
               /\ TaskStatus'[t] = IF TaskStatus[t] = "late" THEN "dropped" ELSE TaskStatus[t]
    <3>1. CASE added[t] = "no"
      BY <2>1, <3>1, StatusIs, StatusWillBe
    <3>2. CASE added[t] # "no" /\ left[t] = 0
      BY <2>1, <3>2, StatusIs, StatusWillBe
    <3>3. CASE added[t] # "no" /\ left[t] # 0
      <4>1. TaskStatus'[t] = "dropped"
        BY <2>1, <2>3, <3>3, StatusWillBe
      <4>2. TaskStatus[t] \in {"late", "dropped"}
        BY <2>3, <2>4, <3>3, StatusIs
      <4> QED BY <4>1, <4>2
    <3> QED BY <3>1, <3>2, <3>3
  <2>6. TaskStatus' = [t \in Task |-> IF TaskStatus[t] = "late" THEN "dropped"
                                     ELSE TaskStatus[t]]
    BY <2>5, StatusFunction
  <2>7. Executor!Down
    BY <2>1, <2>5, <2>6, PhaseIs DEF Executor!Down
  <2> QED BY <2>7 DEF Executor!Next
<1> QED BY <1>1, <1>3, <1>4, <1>5, <1>6, <1>7, <1>8 DEF ClientStep

LEMMA StepRefines ==
  SoundInv /\ Order /\ [Next]_vars => (Sound => [Executor!Next]_<<Phase, TaskStatus>>)
<1> SUFFICES ASSUME SoundInv, Order, [Next]_vars, Sound
             PROVE  [Executor!Next]_<<Phase, TaskStatus>>
  OBVIOUS
<1>0. IInv /\ TypeOK /\ Handed /\ Accounted /\ cur \in [Worker -> Task \cup {NoTask}]
      /\ left \in [Task -> Nat]
  BY DEF SoundInv, IInv, TypeOK
<1>1. ASSUME UNCHANGED <<left, added, cur>>, \A t \in Task : Queued(t)' <=> Queued(t),
             \/ UNCHANGED main
             \/ main = "initwait" /\ main' = "woken"
      PROVE  UNCHANGED <<Phase, TaskStatus>>
  <2>1. \A t \in Task : TaskSame(t)
    BY <1>1 DEF TaskSame, Held
  <2>2. Phase' = Phase
    BY <1>1, PhaseIs DEF Phase
  <2> QED BY <2>1, <2>2, Stutters
<1>2. CASE \/ \E w \in Worker : WritePid(w) \/ Hello(w)
           \/ \E j \in Joiner : CallJoin(j) \/ JoinTests(j) \/ SpuriousJoinWakeup(j)
           \/ UNCHANGED vars
  <2>1. /\ UNCHANGED <<left, added, cur, queues>>
        /\ \/ UNCHANGED main
           \/ main = "initwait" /\ main' = "woken"
    BY <1>2 DEF WritePid, Hello, CallJoin, JoinTests, SpuriousJoinWakeup, mainVars, taskVars,
                vars
  <2> QED BY <1>1, <2>1 DEF Queued
<1>3. ASSUME NEW w \in Worker, PopWaits(w) \/ SpuriousPopWakeup(w)
      PROVE  UNCHANGED <<Phase, TaskStatus>>
  <2> DEFINE i == QueueOf(w)
  <2>1. i \in DOMAIN queues /\ queues[i] \in QType
    BY <1>0, <1>3, QueuesShape DEF PopWaits, SpuriousPopWakeup, HasQueue
  <2>2. /\ Wait(queues[i], w) \in QType /\ Wait(queues[i], w).items = queues[i].items
        /\ SpuriousWakeup(queues[i], w) \in QType
        /\ SpuriousWakeup(queues[i], w).items = queues[i].items
    BY <2>1 DEF Wait, SpuriousWakeup, QType, QueueType
  <2>3. PICK q \in QType : q.items = queues[i].items /\ queues' = [queues EXCEPT ![i] = q]
    BY <1>3, <2>1, <2>2 DEF PopWaits, SpuriousPopWakeup
  <2>4. \A t \in Task : Queued(t)' <=> Queued(t)
    BY <1>0, <2>1, <2>3, SameItems
  <2>5. UNCHANGED <<main, left, added, cur>>
    BY <1>3 DEF PopWaits, SpuriousPopWakeup, mainVars, taskVars
  <2> QED BY <1>1, <2>4, <2>5
<1>4. ASSUME NEW w \in Worker, RunTests(w) PROVE UNCHANGED <<Phase, TaskStatus>>
  <2>1. /\ cur[w] \in Task /\ UNCHANGED <<main, queues, left, added>>
        /\ \/ UNCHANGED cur
           \/ left[cur[w]] = 0 /\ cur' = [cur EXCEPT ![w] = NoTask]
    BY <1>0, <1>4 DEF RunTests, RunSkips, Handed, mainVars, taskVars
  <2>2. ASSUME NEW t \in Task PROVE TaskStatus'[t] = TaskStatus[t]
    <3>1. CASE added[t] # "no" /\ left[t] = 0
      BY <2>1, <3>1, StatusIs, StatusWillBe
    <3>2. CASE added[t] = "no"
      BY <2>1, <3>2, StatusIs, StatusWillBe
    <3>3. CASE left[t] # 0
      <4>1. \A v \in Worker : cur'[v] = t <=> cur[v] = t
        BY <1>0, <2>1, <3>3, NoTaskAssumption
      <4>2. TaskSame(t)
        BY <2>1, <4>1 DEF TaskSame, Held, Queued
      <4> QED BY <4>2, SameStatus
    <3> QED BY <3>1, <3>2, <3>3
  <2>3. Phase' = Phase
    BY <2>1 DEF Phase
  <2> QED BY <2>2, <2>3, StatusUnchanged
<1>5. ASSUME NEW w \in Worker, PopTask(w) \/ Process(w)
      PROVE  [Executor!Next]_<<Phase, TaskStatus>>
  BY <1>0, <1>5, PopRefines, ProcessRefines
<1> QED BY <1>1, <1>2, <1>3, <1>4, <1>5, ClientRefines DEF Next, WorkerStep

LEMMA InitRefines == Init => Order /\ Executor!Init
<1> SUFFICES ASSUME Init PROVE Order /\ Executor!Init
  OBVIOUS
<1>1. Order
  BY DEF Init, Order, NullsLast
<1>2. Phase = "down"
  BY PhaseIs DEF Init
<1>3. TaskStatus = [t \in Task |-> "new"]
  <2>1. \A t \in Task : TaskStatus[t] = "new"
    BY StatusIs DEF Init
  <2> QED BY <2>1, StatusFunction
<1> QED BY <1>1, <1>2, <1>3 DEF Executor!Init

(***************************************************************************)
(* The pool implements TaskExecutor: each accepted task is run once to its *)
(* end, and Destroy returns after all of them.                             *)
(***************************************************************************)
THEOREM Refinement == Spec => ImplementsExecutor
<1> DEFINE Inv == SoundInv /\ Order
<1>1. Init => Inv /\ Executor!Init
  BY InitSound, InitRefines
<1>2. Inv /\ [Next]_vars => Inv'
  BY SoundKept, OrderKept DEF SoundInv
<1>3. Inv /\ [Next]_vars => [Sound => [Executor!Next]_<<Phase, TaskStatus>>]_vars
  BY StepRefines
<1> HIDE DEF Inv
<1> QED BY <1>1, <1>2, <1>3, PTL DEF Spec, ImplementsExecutor

-----------------------------------------------------------------------------
(***************************************************************************)
(* The message queue in itself.  No wakeup of a MessageQueue is ever lost  *)
(* and its items keep their order, for every finite set of consumers and   *)
(* every number of pushes.                                                 *)
(***************************************************************************)

(***************************************************************************)
(* The variables of the queue and its clients keep their types.            *)
(***************************************************************************)
THEOREM ClientsTypeCorrect == ClientsSpec => []ClientsTypeOK
<1>1. ClientsInit => ClientsTypeOK
  BY MaxPushesAssumption DEF ClientsInit, ClientsTypeOK, EmptyQueue, QueueType
<1>2. ClientsTypeOK /\ [ClientsNext]_clientVars => ClientsTypeOK'
  <2> SUFFICES ASSUME ClientsTypeOK, [ClientsNext]_clientVars
               PROVE  ClientsTypeOK'
    OBVIOUS
  <2> USE MaxPushesAssumption DEF ClientsTypeOK
  <2>0. queue.items \in Seq(1..MaxPushes) /\ Len(queue.items) \in Nat /\ Len(popped) \in Nat
    BY DEF QueueType
  <2>1. CASE Produce
    <3>1. pushed + 1 \in 1..MaxPushes
      BY <2>1 DEF Produce
    <3>2. /\ queue' \in QueueType(1..MaxPushes, Consumer)
          /\ queue'.items = Append(queue.items, pushed + 1)
      BY <2>1, <3>1, PushEffect DEF Produce
    <3>3. Len(queue'.items) = Len(queue.items) + 1
      BY <2>0, <3>1, <3>2, AppendProperties
    <3> QED BY <2>0, <2>1, <3>2, <3>3 DEF Produce
  <2>2. ASSUME NEW c \in Consumer, CallPop(c)
        PROVE  ClientsTypeOK'
    BY <2>2 DEF CallPop
  <2>3. ASSUME NEW c \in Consumer, PopTakes(c)
        PROVE  ClientsTypeOK'
    <3>1. queue.items \in Seq(1..MaxPushes) /\ queue.items # <<>>
      BY <2>3 DEF PopTakes, CanTake, QueueType
    <3>2. /\ Head(queue.items) \in 1..MaxPushes
          /\ Tail(queue.items) \in Seq(1..MaxPushes)
          /\ Len(Tail(queue.items)) = Len(queue.items) - 1
      BY <3>1, HeadTailProperties
    <3>3. /\ queue' \in QueueType(1..MaxPushes, Consumer)
          /\ Len(queue'.items) = Len(queue.items) - 1
      BY <2>3, <3>2 DEF PopTakes, Take, QueueType
    <3>4. /\ popped' \in Seq(1..MaxPushes)
          /\ Len(popped') = Len(popped) + 1
      BY <2>3, <3>2, AppendProperties DEF PopTakes, Front
    <3>5. Len(popped') + Len(queue'.items) = pushed'
      <4>1. pushed' = pushed /\ Len(popped) + Len(queue.items) = pushed
        BY <2>3 DEF PopTakes
      <4>2. Len(popped') + Len(queue'.items) = (Len(popped) + 1) + (Len(queue.items) - 1)
        BY <3>3, <3>4
      <4>3. \A a, b \in Nat : (a + 1) + (b - 1) = a + b
        OBVIOUS
      <4> QED BY <2>0, <4>1, <4>2, <4>3
    <3>6. popping' \in SUBSET Consumer /\ pushed' \in 0..MaxPushes
      BY <2>3 DEF PopTakes
    <3> QED BY <3>3, <3>4, <3>5, <3>6
  <2>4. ASSUME NEW c \in Consumer, WaitsInPop(c)
        PROVE  ClientsTypeOK'
    BY <2>4 DEF WaitsInPop, Wait, QueueType
  <2>5. ASSUME NEW c \in Consumer, WakeSpuriously(c)
        PROVE  ClientsTypeOK'
    BY <2>5 DEF WakeSpuriously, SpuriousWakeup, QueueType
  <2>6. CASE UNCHANGED clientVars
    BY <2>6 DEF clientVars
  <2> QED BY <2>1, <2>2, <2>3, <2>4, <2>5, <2>6 DEF ClientsNext, Consume
<1> QED BY <1>1, <1>2, PTL DEF ClientsSpec

(***************************************************************************)
(* Only threads inside Pop wait, and no wakeup is lost.  The conjunction   *)
(* is inductive; NoLostWakeup alone is not, because a waiter outside Pop   *)
(* would leave the wait without becoming Awake.                            *)
(***************************************************************************)
WaitersArePopping == queue.waiting \subseteq popping

WakeupInv == WaitersArePopping /\ NoLostWakeup

(* Awake is finite, and adding or removing one thread counts for one. *)
LEMMA AwakeFinite ==
  ASSUME ClientsTypeOK
  PROVE  /\ IsFiniteSet(Awake)
         /\ Cardinality(Awake) \in Nat
<1>1. Awake \subseteq Consumer
  BY DEF ClientsTypeOK, Awake
<1> QED BY <1>1, ConsumerAssumption, FS_Subset, FS_CardinalityType

(***************************************************************************)
(* While a consumer is blocked in Pop (message_queue.h:33-35), every item  *)
(* in the queue has a consumer on its way to take it.                      *)
(***************************************************************************)
THEOREM WakeupsKept == ClientsSpec => []NoLostWakeup
<1>1. ClientsInit => WakeupInv
  BY DEF ClientsInit, WakeupInv, WaitersArePopping, NoLostWakeup, EmptyQueue
<1>2. ClientsTypeOK /\ ClientsTypeOK' /\ WakeupInv /\ [ClientsNext]_clientVars => WakeupInv'
  <2> SUFFICES ASSUME ClientsTypeOK, ClientsTypeOK', WakeupInv, [ClientsNext]_clientVars
               PROVE  WakeupInv'
    OBVIOUS
  <2> USE DEF WakeupInv, WaitersArePopping
  <2>a. /\ IsFiniteSet(Awake) /\ Cardinality(Awake) \in Nat
        /\ IsFiniteSet(Awake') /\ Cardinality(Awake') \in Nat
    <3>1. ClientsTypeOK => IsFiniteSet(Awake) /\ Cardinality(Awake) \in Nat
      BY AwakeFinite
    <3>2. (ClientsTypeOK => IsFiniteSet(Awake) /\ Cardinality(Awake) \in Nat)'
      BY <3>1, ConsumerAssumption, FS_Subset, FS_CardinalityType DEF ClientsTypeOK, Awake
    <3> QED BY <3>1, <3>2
  <2>b. queue.items \in Seq(1..MaxPushes) /\ queue.waiting \subseteq Consumer
    BY DEF ClientsTypeOK, QueueType
  <2>1. CASE Produce
    <3>1. pushed + 1 \in 1..MaxPushes
      BY <2>1, MaxPushesAssumption DEF Produce, ClientsTypeOK
    <3>2. /\ queue'.items = Append(queue.items, pushed + 1)
          /\ \/ queue.waiting = {} /\ queue'.waiting = {}
             \/ \E t \in queue.waiting : queue'.waiting = queue.waiting \ {t}
      <4>1. queue \in QueueType(1..MaxPushes, Consumer)
        BY DEF ClientsTypeOK
      <4>2. queue' \in Push(queue, pushed + 1)
        BY <2>1 DEF Produce
      <4>3. PICK w \in Signal(queue.waiting) :
               queue' = [items |-> Append(queue.items, pushed + 1), waiting |-> w]
        BY <4>2 DEF Push
      <4> QED BY <4>1, <4>3 DEF Signal, QueueType
    <3>3. CASE queue.waiting = {} /\ queue'.waiting = {}
      BY <2>1, <3>3 DEF Produce, NoLostWakeup
    <3>4. ASSUME NEW t \in queue.waiting,
                 queue'.waiting = queue.waiting \ {t}
          PROVE  WakeupInv'
      <4>1. popping' = popping
        BY <2>1 DEF Produce
      <4>2. Awake' = Awake \cup {t} /\ t \notin Awake
        BY <3>4, <4>1 DEF Awake
      <4>3. Cardinality(Awake') = Cardinality(Awake) + 1
        BY <2>a, <4>2, FS_AddElement
      <4>4. Len(queue'.items) = Len(queue.items) + 1
        BY <3>2, <2>b
      <4> QED BY <3>4, <4>1, <4>3, <4>4, <2>a, <2>b DEF NoLostWakeup
    <3> QED BY <3>2, <3>3, <3>4
  <2>2. ASSUME NEW c \in Consumer, CallPop(c)
        PROVE  WakeupInv'
    <3>1. Awake' = Awake \cup {c} /\ c \notin Awake
      BY <2>2 DEF CallPop, Awake
    <3>2. Cardinality(Awake') = Cardinality(Awake) + 1
      BY <2>a, <3>1, FS_AddElement
    <3> QED BY <2>2, <3>2, <2>a, <2>b DEF CallPop, NoLostWakeup
  <2>3. ASSUME NEW c \in Consumer, PopTakes(c)
        PROVE  WakeupInv'
    <3>1. /\ queue'.waiting = queue.waiting
          /\ queue'.items = Tail(queue.items)
          /\ queue.items # <<>>
          /\ c \notin queue.waiting
          /\ c \in popping
          /\ popping' = popping \ {c}
      BY <2>3 DEF PopTakes, CanTake, Take, ClientsTypeOK, QueueType
    <3>2. Awake' = Awake \ {c} /\ c \in Awake
      BY <3>1 DEF Awake
    <3>3. Cardinality(Awake') = Cardinality(Awake) - 1
      BY <2>a, <3>2, FS_RemoveElement
    <3>4. Len(queue'.items) = Len(queue.items) - 1
      BY <3>1, <2>b
    <3> QED BY <3>1, <3>3, <3>4, <2>a, <2>b DEF NoLostWakeup
  <2>4. ASSUME NEW c \in Consumer, WaitsInPop(c)
        PROVE  WakeupInv'
    <3>1. /\ queue'.waiting = queue.waiting \cup {c}
          /\ queue'.items = <<>>
          /\ popping' = popping
          /\ c \in popping
      BY <2>4 DEF WaitsInPop, MustWait, Wait, ClientsTypeOK, QueueType
    <3> QED BY <3>1, <2>a DEF NoLostWakeup
  <2>5. ASSUME NEW c \in Consumer, WakeSpuriously(c)
        PROVE  WakeupInv'
    <3>1. /\ queue'.waiting = queue.waiting \ {c}
          /\ queue'.items = queue.items
          /\ popping' = popping
          /\ c \in queue.waiting
      BY <2>5 DEF WakeSpuriously, SpuriousWakeup, ClientsTypeOK, QueueType
    <3>2. Awake' = Awake \cup {c} /\ c \notin Awake
      BY <3>1 DEF Awake
    <3>3. Cardinality(Awake') = Cardinality(Awake) + 1
      BY <2>a, <3>2, FS_AddElement
    <3> QED BY <3>1, <3>3, <2>a, <2>b DEF NoLostWakeup
  <2>6. CASE UNCHANGED clientVars
    BY <2>6 DEF clientVars, NoLostWakeup, Awake
  <2> QED BY <2>1, <2>2, <2>3, <2>4, <2>5, <2>6 DEF ClientsNext, Consume
<1>3. WakeupInv => NoLostWakeup
  BY DEF WakeupInv
<1> QED BY <1>1, <1>2, <1>3, ClientsTypeCorrect, PTL DEF ClientsSpec

-----------------------------------------------------------------------------
(* Order *)

(* FIFO, index by index *)
NumbersInOrder ==
  /\ \A i \in 1..Len(popped) : popped[i] = i
  /\ \A i \in 1..Len(queue.items) : queue.items[i] = Len(popped) + i

LEMMA NumbersInOrderIsFIFO == ClientsTypeOK /\ NumbersInOrder => FIFO
<1> SUFFICES ASSUME ClientsTypeOK, NumbersInOrder PROVE FIFO
  OBVIOUS
<1> DEFINE numbers == [i \in 1..pushed |-> i]
<1>1. /\ popped \in Seq(Nat) /\ queue.items \in Seq(Nat)
      /\ Len(popped) \in Nat /\ Len(queue.items) \in Nat /\ pushed \in Nat
      /\ Len(popped) + Len(queue.items) = pushed
  <2>1. popped \in Seq(1..MaxPushes) /\ queue.items \in Seq(1..MaxPushes)
        /\ 1..MaxPushes \subseteq Nat
    BY DEF ClientsTypeOK, QueueType
  <2> QED BY <2>1, SeqMonotonic, LenProperties, MaxPushesAssumption DEF ClientsTypeOK
<1>2. /\ popped \o queue.items \in Seq(Nat)
      /\ Len(popped \o queue.items) = pushed
      /\ \A i \in 1..pushed : (popped \o queue.items)[i] =
           IF i <= Len(popped) THEN popped[i] ELSE queue.items[i - Len(popped)]
  BY <1>1, ConcatProperties
<1>3. numbers \in Seq(Nat) /\ Len(numbers) = pushed
  <2>1. numbers \in [1..pushed -> Nat]
    OBVIOUS
  <2> QED BY <1>1, <2>1, IsASeq, LenProperties
<1>4. ASSUME NEW i \in 1..pushed PROVE (popped \o queue.items)[i] = i
  <2>1. CASE i <= Len(popped)
    BY <1>1, <1>2, <2>1 DEF NumbersInOrder
  <2>2. CASE ~(i <= Len(popped))
    <3>1. i - Len(popped) \in 1..Len(queue.items) /\ Len(popped) + (i - Len(popped)) = i
      BY <1>1, <2>2
    <3> QED BY <1>2, <2>2, <3>1 DEF NumbersInOrder
  <2> QED BY <2>1, <2>2
<1>5. popped \o queue.items = numbers
  BY <1>2, <1>3, <1>4, SeqEqual
<1> QED BY <1>5 DEF FIFO

(***************************************************************************)
(* Pop returns the items in the order in which the calls of Push held the  *)
(* mutex, each once and none left out (message_queue.h:25-41).             *)
(***************************************************************************)
THEOREM QueueOrderKept == ClientsSpec => []FIFO
<1>1. ClientsInit => NumbersInOrder
  BY DEF ClientsInit, NumbersInOrder, EmptyQueue
<1>2. ClientsTypeOK /\ ClientsTypeOK' /\ NumbersInOrder /\ [ClientsNext]_clientVars => NumbersInOrder'
  <2> SUFFICES ASSUME ClientsTypeOK, NumbersInOrder, [ClientsNext]_clientVars
               PROVE  NumbersInOrder'
    OBVIOUS
  <2>0. /\ queue.items \in Seq(1..MaxPushes) /\ popped \in Seq(1..MaxPushes)
        /\ queue \in QueueType(1..MaxPushes, Consumer)
        /\ Len(queue.items) \in Nat /\ Len(popped) \in Nat /\ pushed \in Nat
        /\ pushed = Len(popped) + Len(queue.items)
    BY LenProperties, MaxPushesAssumption DEF ClientsTypeOK, QueueType
  <2>1. CASE Produce
    <3>1. pushed + 1 \in 1..MaxPushes /\ popped' = popped
      BY <2>0, <2>1, MaxPushesAssumption DEF Produce, ClientsTypeOK
    <3>2. queue'.items = Append(queue.items, pushed + 1)
      <4>1. queue' \in Push(queue, pushed + 1)
        BY <2>1 DEF Produce
      <4>2. PICK w \in Signal(queue.waiting) :
               queue' = [items |-> Append(queue.items, pushed + 1), waiting |-> w]
        BY <4>1 DEF Push
      <4> QED BY <4>2
    <3>3. /\ Len(queue'.items) = Len(queue.items) + 1
          /\ \A i \in 1..Len(queue.items) : queue'.items[i] = queue.items[i]
          /\ queue'.items[Len(queue.items) + 1] = pushed + 1
      BY <2>0, <3>1, <3>2, AppendProperties
    <3>4. \A i \in 1..(Len(queue.items) + 1) :
            i \in 1..Len(queue.items) \/ i = Len(queue.items) + 1
      BY <2>0
    <3>5. Len(popped) + (Len(queue.items) + 1) = pushed + 1
      BY <2>0
    <3> QED BY <3>1, <3>3, <3>4, <3>5 DEF NumbersInOrder
  <2>2. ASSUME NEW c \in Consumer, PopTakes(c)
        PROVE  NumbersInOrder'
    <3>1. queue.items # <<>> /\ popped' = Append(popped, Front(queue)) /\ queue' = Take(queue)
      BY <2>2 DEF PopTakes, CanTake
    <3>2. Front(queue) \in 1..MaxPushes /\ queue'.items = Tail(queue.items)
      BY <2>0, <3>1, TakeEffect
    <3>3. /\ Len(queue'.items) = Len(queue.items) - 1
          /\ \A i \in 1..Len(queue'.items) : queue'.items[i] = queue.items[i + 1]
          /\ Front(queue) = queue.items[1] /\ Len(queue.items) >= 1
      BY <2>0, <3>1, <3>2, HeadTailProperties, EmptySeq DEF Front
    <3>4. /\ Len(popped') = Len(popped) + 1
          /\ \A i \in 1..Len(popped) : popped'[i] = popped[i]
          /\ popped'[Len(popped) + 1] = Front(queue)
      BY <2>0, <3>1, <3>2, AppendProperties
    <3>5. Front(queue) = Len(popped) + 1
      BY <2>0, <3>3 DEF NumbersInOrder
    <3>6. \A i \in 1..(Len(popped) + 1) : i \in 1..Len(popped) \/ i = Len(popped) + 1
      BY <2>0
    <3>7. \A i \in 1..(Len(queue.items) - 1) :
            i + 1 \in 1..Len(queue.items) /\ Len(popped) + (i + 1) = (Len(popped) + 1) + i
      BY <2>0
    <3>8. \A i \in 1..Len(popped') : popped'[i] = i
      BY <3>4, <3>5, <3>6 DEF NumbersInOrder
    <3>9. \A i \in 1..Len(queue'.items) : queue'.items[i] = Len(popped') + i
      BY <3>3, <3>4, <3>7 DEF NumbersInOrder
    <3> QED BY <3>8, <3>9 DEF NumbersInOrder
  <2>3. ASSUME NEW c \in Consumer,
               CallPop(c) \/ WaitsInPop(c) \/ WakeSpuriously(c)
        PROVE  NumbersInOrder'
    <3>1. queue'.items = queue.items /\ popped' = popped
      BY <2>0, <2>3 DEF CallPop, WaitsInPop, WakeSpuriously, Wait, SpuriousWakeup, QueueType
    <3> QED BY <3>1 DEF NumbersInOrder
  <2>4. CASE UNCHANGED clientVars
    BY <2>4 DEF clientVars, NumbersInOrder
  <2> QED BY <2>1, <2>2, <2>3, <2>4 DEF ClientsNext, Consume
<1> QED BY <1>1, <1>2, NumbersInOrderIsFIFO, ClientsTypeCorrect, PTL DEF ClientsSpec
=============================================================================
