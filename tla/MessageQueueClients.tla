------------------------ MODULE MessageQueueClients ------------------------
(***************************************************************************)
(* One MessageQueue shared by threads that push and threads that pop in a  *)
(* loop, as the workers of a ThreadPool do.  The items are numbered in the *)
(* order in which their Push holds the mutex.                              *)
(***************************************************************************)
EXTENDS MessageQueue, Naturals, FiniteSets

CONSTANTS Consumer,    \* the threads that call Pop in a loop
          MaxPushes    \* bound on the number of calls of Push

ASSUME ConsumerAssumption == IsFiniteSet(Consumer)
ASSUME MaxPushesAssumption == MaxPushes \in Nat

VARIABLES queue,       \* the MessageQueue
          popping,     \* the consumers that are inside Pop
          pushed,      \* number of calls of Push so far
          popped       \* history: what the calls of Pop returned, in order

clientVars == <<queue, popping, pushed, popped>>

ClientsTypeOK ==
  /\ queue \in QueueType(1..MaxPushes, Consumer)
  /\ popping \in SUBSET Consumer
  /\ pushed \in 0..MaxPushes
  /\ popped \in Seq(1..MaxPushes)
  /\ Len(popped) + Len(queue.items) = pushed

ClientsInit ==
  /\ queue = EmptyQueue
  /\ popping = {}
  /\ pushed = 0
  /\ popped = <<>>

Produce ==
  /\ pushed < MaxPushes
  /\ pushed' = pushed + 1
  /\ queue' \in Push(queue, pushed + 1)
  /\ UNCHANGED <<popping, popped>>

CallPop(c) ==
  /\ c \notin popping
  /\ popping' = popping \cup {c}
  /\ UNCHANGED <<queue, pushed, popped>>

PopTakes(c) ==
  /\ c \in popping
  /\ CanTake(queue, c)
  /\ queue' = Take(queue)
  /\ popped' = Append(popped, Front(queue))
  /\ popping' = popping \ {c}
  /\ UNCHANGED pushed

WaitsInPop(c) ==
  /\ c \in popping
  /\ MustWait(queue, c)
  /\ queue' = Wait(queue, c)
  /\ UNCHANGED <<popping, pushed, popped>>

WakeSpuriously(c) ==
  /\ c \in queue.waiting
  /\ queue' = SpuriousWakeup(queue, c)
  /\ UNCHANGED <<popping, pushed, popped>>

Consume(c) == CallPop(c) \/ PopTakes(c) \/ WaitsInPop(c)

ClientsNext == Produce \/ \E c \in Consumer : Consume(c) \/ WakeSpuriously(c)

(***************************************************************************)
(* Each consumer thread is scheduled again and again, and a thread that    *)
(* asks for the mutex gets it.  Producers owe nothing.                     *)
(***************************************************************************)
ClientsFairness == \A c \in Consumer : WF_clientVars(Consume(c))

ClientsSpec == ClientsInit /\ [][ClientsNext]_clientVars
FairClientsSpec == ClientsSpec /\ ClientsFairness

-----------------------------------------------------------------------------
(* The consumers that compete for the mutex inside Pop. *)
Awake == popping \ queue.waiting

(***************************************************************************)
(* Push signals one waiter per item, so while some consumer is blocked     *)
(* there is, for every item in the queue, a consumer on its way to take    *)
(* it: no wakeup is lost, even though a consumer that never waited may     *)
(* take the item a woken one was signalled for.                            *)
(***************************************************************************)
NoLostWakeup ==
  queue.waiting # {} => Len(queue.items) <= Cardinality(Awake)

(***************************************************************************)
(* Items leave the queue in the order of the pushes, each exactly once:    *)
(* what was popped followed by what is queued is 1, 2, ..., pushed.        *)
(***************************************************************************)
FIFO == popped \o queue.items = [i \in 1..pushed |-> i]

(***************************************************************************)
(* Whatever was pushed is eventually popped.                               *)
(***************************************************************************)
Delivered ==
  \A i \in 1..MaxPushes : (pushed >= i) ~> (Len(popped) >= i)
=============================================================================
