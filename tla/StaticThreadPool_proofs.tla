----------------------- MODULE StaticThreadPool_proofs -----------------------
(***************************************************************************)
(* For every number of threads, runs and sessions: while no wait in the    *)
(* barrier has ended without a signal, nobody reads func_ when it is       *)
(* assigned, and the pool implements ForkJoin.                             *)
(*                                                                         *)
(* The barrier keeps a count and not who has arrived, so the invariant     *)
(* says where everyone may be between two of its rounds: a thread that has *)
(* been released but has not left Wait yet counts as gone on.              *)
(***************************************************************************)
EXTENDS StaticThreadPool, FiniteSetTheorems, SequenceTheorems, TLAPS

Waiting == barrier.waiting
Gone(w) == worker[w] \in {"none", "exited"}

(* The workers that Init has yet to create, or Destroy to join *)
LoopsInRange ==
  /\ main = "create" => idx <= threads
  /\ main = "join" => idx <= threads
  /\ main = "down" => threads = 0

(* The count is right, and workers that are not in threads_ are no more. *)
Agree ==
  /\ barrier.counter = Cardinality(Waiting)
  /\ Waiting \subseteq 0..threads
  /\ \A w \in Worker : w > threads => Gone(w)

(* Workers in ThreadWorker's first Wait, in the function's run or the      *)
(* second Wait, and after the last first Wait                              *)
AtStart(w) == \/ worker[w] = "start" /\ w \notin Waiting
              \/ worker[w] = "starting" /\ w \in Waiting

BackAtStart(w) == AtStart(w) \/ (worker[w] = "finishing" /\ w \notin Waiting)

InRun(w) == \/ worker[w] \in {"starting", "test", "run", "finish"} /\ w \notin Waiting
            \/ worker[w] = "finishing" /\ w \in Waiting

Leaving(w) == worker[w] \in {"starting", "test", "exited"} /\ w \notin Waiting

(* The phases of a pool *)
Empty ==
  /\ main \in {"down", "quit", "quitting"}
  /\ threads = 0
  /\ Client \in Waiting => main = "quitting"

Creating ==
  /\ main = "create"
  /\ runs = 0
  /\ Client \notin Waiting
  /\ \A w \in 1..threads : /\ calls[w] = <<>>
                           /\ IF w < idx THEN AtStart(w)
                                         ELSE Gone(w) /\ w \notin Waiting

Launching == main \in {"begin", "beginning"}

BetweenRuns ==
  /\ main \in {"ready", "begin", "beginning", "ending", "quit", "quitting"}
  /\ Client \in Waiting <=> main \in {"beginning", "quitting"}
  /\ Launching => runs >= 1 /\ func = runs
  /\ main \in {"quit", "quitting"} => func = NullFunc
  /\ \A w \in 1..threads :
       /\ BackAtStart(w)
       /\ Len(calls[w]) = IF Launching THEN runs - 1 ELSE runs

Running ==
  /\ main \in {"beginning", "between", "end", "ending"}
  /\ Client \in Waiting <=> main = "ending"
  /\ runs >= 1 /\ func = runs
  /\ \A w \in 1..threads :
       /\ InRun(w)
       /\ Len(calls[w]) = IF worker[w] \in {"finish", "finishing"} THEN runs ELSE runs - 1

Ended ==
  /\ main \in {"quitting", "join"}
  /\ Client \notin Waiting
  /\ func = NullFunc
  /\ \A w \in 1..threads : /\ Leaving(w)
                           /\ main = "join" /\ w < idx => worker[w] = "exited"

Phases ==
  /\ Agree
  /\ \/ Empty
     \/ barrier.max = threads + 1 /\ (Creating \/ BetweenRuns \/ Running \/ Ended)

Typed == TypeOK /\ LoopsInRange
IInv == Typed /\ (Signalled => Phases)

-----------------------------------------------------------------------------
(* The operations of a barrier, field by field *)

LEMMA ArriveFields ==
  ASSUME NEW T, NEW M \in Nat, NEW b \in BarrierType(T, M), NEW t \in T
  PROVE  /\ Arrive(b, t) \in BarrierType(T, M)
         /\ Arrive(b, t).max = b.max
         /\ IsLast(b) => Arrive(b, t).counter = 0 /\ Arrive(b, t).waiting = {}
         /\ ~IsLast(b) => /\ Arrive(b, t).counter = b.counter + 1
                          /\ Arrive(b, t).waiting = b.waiting \cup {t}
<1> USE DEF BarrierType
<1>1. /\ b.counter \in 0..M /\ b.max \in 0..M /\ b.waiting \in SUBSET T
      /\ b = [counter |-> b.counter, max |-> b.max, waiting |-> b.waiting]
  OBVIOUS
<1>2. CASE IsLast(b)
  <2>1. 0 \in 0..M /\ {} \in SUBSET T
    OBVIOUS
  <2> DEFINE nobody == {}
  <2>2. Broadcast(b) = [b EXCEPT !.counter = 0, !.waiting = nobody] /\ nobody \in SUBSET T
    BY <2>1 DEF Broadcast
  <2>3. nobody = {}
    OBVIOUS
  <2> HIDE DEF nobody
  <2>4. Arrive(b, t) = [b EXCEPT !.counter = 0, !.waiting = nobody]
    BY <1>2, <2>2 DEF Arrive
  <2> QED BY <1>1, <1>2, <2>1, <2>2, <2>3, <2>4
<1>3. CASE ~IsLast(b)
  <2>1. b.counter + 1 \in 0..M
    BY <1>1, <1>3 DEF IsLast
  <2> QED BY <1>1, <1>3, <2>1 DEF Arrive
<1> QED BY <1>2, <1>3

LEMMA ResetFields ==
  ASSUME NEW T, NEW M \in Nat, NEW b \in BarrierType(T, M), NEW m \in 0..M
  PROVE  /\ Reset(b, m) \in BarrierType(T, M)
         /\ Reset(b, m).max = m
         /\ Reset(b, m).counter = b.counter
         /\ Reset(b, m).waiting = b.waiting
BY DEF BarrierType, Reset

LEMMA SpuriousFields ==
  ASSUME NEW T, NEW M \in Nat, NEW b \in BarrierType(T, M), NEW t \in T
  PROVE  LeaveSpuriously(b, t) \in BarrierType(T, M)
BY DEF BarrierType, LeaveSpuriously

-----------------------------------------------------------------------------
(* Types *)

LEMMA InitTyped == Init => Typed
<1> SUFFICES ASSUME Init PROVE Typed
  OBVIOUS
<1>1. barrier \in BarrierType(Worker \cup {Client}, MaxThreads + 1)
  BY MaxThreadsAssumption DEF Init, NewBarrier, BarrierType
<1>2. calls \in [Worker -> Seq(1..MaxRuns)]
  BY DEF Init
<1>3. faults \in FaultSets /\ worker \in [Worker -> WorkerState]
  BY DEF Init, WorkerState
<1>4. /\ main \in MainState /\ idx \in 1..(MaxThreads + 1) /\ threads \in 0..MaxThreads
      /\ sessions \in 0..MaxSessions /\ runs \in 0..MaxRuns /\ func \in 0..MaxRuns
  BY MaxThreadsAssumption, MaxRunsAssumption, MaxSessionsAssumption
     DEF Init, MainState, NullFunc
<1>5. woken \in BOOLEAN /\ LoopsInRange
  BY DEF Init, LoopsInRange
<1> QED
  BY <1>1, <1>2, <1>3, <1>4, <1>5 DEF Typed, TypeOK

LEMMA TypedKept == Typed /\ [Next]_vars => Typed'
<1> SUFFICES ASSUME TypeOK, LoopsInRange, [Next]_vars
             PROVE  TypeOK' /\ LoopsInRange'
  BY DEF Typed
<1> USE DEF TypeOK, LoopsInRange
<1> DEFINE T == Worker \cup {Client}
           M == MaxThreads + 1
<1>0. /\ MaxThreads \in Nat \ {0} /\ MaxRuns \in Nat /\ MaxSessions \in Nat
      /\ M \in Nat /\ Worker \subseteq T /\ Client \in T
      /\ barrier \in BarrierType(T, M)
      /\ threads \in 0..MaxThreads /\ idx \in 1..(MaxThreads + 1)
  BY MaxThreadsAssumption, MaxRunsAssumption, MaxSessionsAssumption
<1> HIDE DEF T, M
<1>1. CASE BeginInit
  <2>1. PICK n \in Worker : barrier' = Reset(barrier, n + 1) /\ threads' = n
    BY <1>1 DEF BeginInit, Parties
  <2>2. barrier' \in BarrierType(T, M) /\ threads' \in 1..MaxThreads
    BY <1>0, <2>1, ResetFields, n + 1 \in 0..M DEF Worker, M
  <2>3. calls' \in [Worker -> Seq(1..MaxRuns)]
    BY <1>1 DEF BeginInit
  <2> QED BY <1>0, <1>1, <2>2, <2>3 DEF BeginInit, MainState, T, M
<1>2. CASE CreateThread
  <2>1. idx' \in 1..(MaxThreads + 1) /\ (main' = "create" => idx' <= threads)
    BY <1>0, <1>2 DEF CreateThread
  <2>2. worker' \in [Worker -> WorkerState]
    BY <1>2 DEF CreateThread, WorkerState
  <2> QED BY <1>2, <2>1, <2>2 DEF CreateThread, MainState
<1>3. CASE CreateFails
  <2>1. idx - 1 \in 0..MaxThreads /\ idx \in 0..M
    BY <1>0 DEF M
  <2>2. barrier' \in BarrierType(T, M) /\ threads' \in 0..MaxThreads
    BY <1>0, <1>3, <2>1, ResetFields, (idx - 1) + 1 = idx DEF CreateFails, ShrinkTo, Parties
  <2> QED BY <1>0, <1>3, <2>2 DEF CreateFails, MainState, T, M
<1>4. CASE RunAsync
  BY <1>0, <1>4 DEF RunAsync, MainState
<1>5. CASE NotifyStart \/ WaitForEnd \/ NotifyQuit
  <2>1. barrier' \in BarrierType(T, M)
    BY <1>0, <1>5, ArriveFields DEF NotifyStart, WaitForEnd, NotifyQuit, ClientArrives, ClientLeaves
  <2> QED
    BY <1>0, <1>5, <2>1
       DEF NotifyStart, WaitForEnd, NotifyQuit, ClientArrives, ClientLeaves, AfterQuit, MainState, T, M
<1>6. CASE CallWait
  BY <1>0, <1>6 DEF CallWait, MainState, poolVars
<1>7. CASE BeginDestroy
  BY <1>0, <1>7 DEF BeginDestroy, Stop, NullFunc, MainState
<1>8. CASE JoinWorker
  BY <1>0, <1>8 DEF JoinWorker, MainState
<1>9. ASSUME NEW w \in Worker, WaitForStart(w) \/ NotifyEnd(w)
      PROVE  TypeOK' /\ LoopsInRange'
  <2>1. barrier' \in BarrierType(T, M)
    BY <1>0, <1>9, ArriveFields DEF WaitForStart, NotifyEnd, WorkerArrives, WorkerLeaves
  <2>2. worker' \in [Worker -> WorkerState]
    BY <1>9 DEF WaitForStart, NotifyEnd, WorkerArrives, WorkerLeaves, WorkerState
  <2> QED
    BY <1>9, <2>1, <2>2 DEF WaitForStart, NotifyEnd, WorkerArrives, WorkerLeaves, poolVars, T, M
<1>10. ASSUME NEW w \in Worker, TestFunc(w) PROVE TypeOK' /\ LoopsInRange'
  BY <1>10 DEF TestFunc, WorkerState, poolVars
<1>11. ASSUME NEW w \in Worker, CallFunc(w) PROVE TypeOK' /\ LoopsInRange'
  <2>1. func \in 1..MaxRuns
    BY <1>0, <1>11 DEF CallFunc, NullFunc
  <2>2. Append(calls[w], func) \in Seq(1..MaxRuns)
    BY <2>1, AppendProperties
  <2>3. calls' \in [Worker -> Seq(1..MaxRuns)]
    BY <1>11, <2>2 DEF CallFunc
  <2> QED BY <1>11, <2>3 DEF CallFunc, WorkerState, poolVars
<1>12. CASE SpuriousWakeup
  <2>1. barrier.waiting \in SUBSET T
    BY <1>0 DEF BarrierType
  <2>2. barrier' \in BarrierType(T, M)
    BY <1>0, <1>12, <2>1, SpuriousFields DEF SpuriousWakeup
  <2>3. faults' \in FaultSets \cup {f \ {"wait"} : f \in FaultSets}
    BY <1>12 DEF SpuriousWakeup
  <2> QED BY <1>12, <2>2, <2>3 DEF SpuriousWakeup, T, M
<1>13. CASE UNCHANGED vars
  BY <1>13 DEF vars
<1> QED
  BY <1>1, <1>2, <1>3, <1>4, <1>5, <1>6, <1>7, <1>8, <1>9, <1>10, <1>11, <1>12, <1>13
     DEF Next, WorkerStep

-----------------------------------------------------------------------------
(* Phases *)

(* The last one to arrive has been waited for by all others. *)
LEMMA Meet ==
  ASSUME Typed, Agree, NEW t \in 0..threads, t \notin Waiting,
         barrier' = Arrive(barrier, t), threads' = threads
  PROVE  /\ barrier'.max = barrier.max
         /\ barrier'.counter = Cardinality(Waiting')
         /\ Waiting' \subseteq 0..threads
         /\ IsLast(barrier) => Waiting' = {}
         /\ ~IsLast(barrier) => Waiting' = Waiting \cup {t}
         /\ IsLast(barrier) /\ barrier.max = threads + 1 =>
              \A u \in 0..threads : u # t => u \in Waiting
<1> DEFINE B == BarrierType(Worker \cup {Client}, MaxThreads + 1)
<1>1. barrier \in B /\ threads \in 0..MaxThreads /\ MaxThreads \in Nat
  BY MaxThreadsAssumption DEF Typed, TypeOK
<1>2. t \in Worker \cup {Client}
  BY <1>1 DEF Worker, Client
<1>3. /\ barrier'.max = barrier.max
      /\ IsLast(barrier) => barrier'.counter = 0 /\ Waiting' = {}
      /\ ~IsLast(barrier) => /\ barrier'.counter = barrier.counter + 1
                             /\ Waiting' = Waiting \cup {t}
  BY <1>1, <1>2, ArriveFields, MaxThreads + 1 \in Nat DEF Waiting
<1>4. /\ IsFiniteSet(0..threads) /\ Cardinality(0..threads) = threads + 1
      /\ threads \in Nat
  BY <1>1, FS_Interval
<1>5. /\ IsFiniteSet(Waiting) /\ Waiting \subseteq 0..threads
      /\ barrier.counter = Cardinality(Waiting) /\ Cardinality(Waiting) \in Nat
  BY <1>4, FS_Subset, FS_CardinalityType DEF Agree
<1>6. Cardinality(Waiting \cup {t}) = Cardinality(Waiting) + 1
  BY <1>5, FS_AddElement
<1>7. Cardinality({}) = 0
  BY FS_EmptySet
<1>8. ASSUME IsLast(barrier), barrier.max = threads + 1
      PROVE  \A u \in 0..threads : u # t => u \in Waiting
  <2>1. Cardinality(Waiting \cup {t}) >= threads + 1
    BY <1>5, <1>6, <1>8 DEF IsLast
  <2>2. Waiting \cup {t} \in SUBSET (0..threads)
    BY <1>5
  <2>3. Cardinality(Waiting \cup {t}) <= Cardinality(0..threads)
        /\ (Cardinality(0..threads) = Cardinality(Waiting \cup {t}) =>
              0..threads = Waiting \cup {t})
    BY <1>4, <2>2, FS_Subset
  <2> QED BY <1>4, <1>5, <1>6, <2>1, <2>3
<1> QED BY <1>3, <1>5, <1>6, <1>7, <1>8

LEMMA InitPhases == Init => Phases
<1> SUFFICES ASSUME Init PROVE Phases
  OBVIOUS
<1>1. barrier.counter = 0 /\ Waiting = {} /\ Cardinality({}) = 0
  BY FS_EmptySet DEF Init, NewBarrier, Waiting
<1>2. Agree
  BY <1>1 DEF Init, Agree, Gone
<1>3. Empty
  BY <1>1 DEF Init, Empty
<1> QED BY <1>2, <1>3 DEF Phases

(* Outside of a run: the client sets up, starts and stops. *)
LEMMA ClientPhases ==
  ASSUME Typed, Phases,
         BeginInit \/ CreateThread \/ CreateFails \/ RunAsync \/ CallWait
         \/ BeginDestroy \/ JoinWorker
  PROVE  Phases'
<1> USE DEF Client
<1>0. /\ threads \in 0..MaxThreads /\ MaxThreads \in Nat /\ threads \in Nat
      /\ idx \in Nat /\ idx >= 1 /\ runs \in Nat
      /\ worker \in [Worker -> WorkerState]
      /\ barrier \in BarrierType(Worker \cup {Client}, MaxThreads + 1)
  BY MaxThreadsAssumption, MaxRunsAssumption DEF Typed, TypeOK
<1>1. CASE BeginInit
  <2>1. PICK n \in Worker : barrier' = Reset(barrier, n + 1) /\ threads' = n
    BY <1>1 DEF BeginInit, Parties
  <2>2. n \in Nat /\ n + 1 \in 0..(MaxThreads + 1)
    BY <1>0 DEF Worker
  <2>3. /\ barrier'.max = threads' + 1 /\ Waiting' = Waiting
        /\ barrier'.counter = barrier.counter
    BY <1>0, <2>1, <2>2, ResetFields, MaxThreads + 1 \in Nat DEF Waiting
  <2>4. Waiting = {} /\ threads = 0
    BY <1>0, <1>1 DEF BeginInit, Phases, Agree, Empty, Creating, BetweenRuns, Running, Ended
  <2>5. \A w \in Worker : Gone(w) /\ Gone(w)'
    BY <1>1, <2>4 DEF BeginInit, Phases, Agree, Gone, Worker
  <2>6. Agree'
    BY <2>1, <2>2, <2>3, <2>4, <2>5, Waiting' \subseteq 0..threads' DEF Phases, Agree
  <2>7. Creating'
    BY <1>0, <1>1, <2>1, <2>3, <2>4, <2>5 DEF BeginInit, Creating, AtStart, Worker
  <2> QED BY <2>3, <2>6, <2>7 DEF Phases
<1>2. CASE CreateThread
  <2>1. Agree /\ Creating /\ barrier.max = threads + 1 /\ idx <= threads
    BY <1>2 DEF CreateThread, Typed, LoopsInRange, Phases, Empty, BetweenRuns, Running, Ended
  <2>2. /\ \A w \in Worker : worker'[w] = IF w = idx THEN "start" ELSE worker[w]
        /\ UNCHANGED <<barrier, threads, runs, calls>> /\ Waiting' = Waiting
        /\ idx' = idx + 1
        /\ main' = IF idx = threads THEN "ready" ELSE "create"
    BY <1>0, <1>2 DEF CreateThread, Waiting
  <2>3. \A w \in 1..threads :
          /\ calls'[w] = <<>> /\ w \in Worker
          /\ IF w < idx + 1 THEN AtStart(w)' ELSE Gone(w)' /\ w \notin Waiting'
    BY <1>0, <2>1, <2>2 DEF Creating, AtStart, Gone, Worker
  <2>4. Agree'
    BY <1>0, <2>1, <2>2 DEF Agree, Gone
  <2>5. CASE idx = threads
    <3>1. \A w \in 1..threads : w < idx + 1 /\ Len(calls'[w]) = 0
      BY <1>0, <2>3, <2>5
    <3>2. BetweenRuns'
      BY <2>1, <2>2, <2>3, <2>5, <3>1 DEF BetweenRuns, Creating, Launching, BackAtStart
    <3> QED BY <2>1, <2>2, <2>4, <3>2 DEF Phases
  <2>6. CASE idx # threads
    <3>1. Creating'
      BY <2>1, <2>2, <2>3, <2>6 DEF Creating
    <3> QED BY <2>1, <2>2, <2>4, <3>1 DEF Phases
  <2> QED BY <2>5, <2>6
<1>3. CASE CreateFails
  <2>1. Agree /\ Creating /\ idx <= threads
    BY <1>3 DEF CreateFails, Typed, LoopsInRange, Phases, Empty, BetweenRuns, Running, Ended
  <2>2. /\ UNCHANGED <<worker, runs, calls>> /\ threads' = idx - 1 /\ main' = "ready"
        /\ barrier' = Reset(barrier, idx)
    BY <1>0, <1>3, (idx - 1) + 1 = idx DEF CreateFails, ShrinkTo, Parties
  <2>3. /\ barrier'.max = threads' + 1 /\ Waiting' = Waiting
        /\ barrier'.counter = barrier.counter
    BY <1>0, <2>1, <2>2, ResetFields, MaxThreads + 1 \in Nat, idx \in 0..(MaxThreads + 1)
       DEF Waiting
  <2>4. Agree'
    <3>1. Waiting \subseteq 0..(idx - 1)
      BY <1>0, <2>1 DEF Agree, Creating
    <3>2. \A w \in Worker : w > idx - 1 => Gone(w)
      BY <1>0, <2>1 DEF Agree, Creating, Worker
    <3> QED BY <2>1, <2>2, <2>3, <3>1, <3>2 DEF Agree, Gone
  <2>5. \A w \in 1..(idx - 1) : calls[w] = <<>> /\ AtStart(w)
    BY <1>0, <2>1 DEF Creating
  <2>6. BetweenRuns'
    BY <2>1, <2>2, <2>3, <2>5, Len(<<>>) = 0
       DEF BetweenRuns, Creating, Launching, BackAtStart, AtStart
  <2> QED BY <2>3, <2>4, <2>6 DEF Phases
<1>4. CASE RunAsync
  <2>1. Agree /\ BetweenRuns /\ barrier.max = threads + 1
    BY <1>4 DEF RunAsync, Phases, Empty, Creating, Running, Ended
  <2>2. Agree' /\ BetweenRuns'
    BY <1>0, <1>4, <2>1
       DEF RunAsync, Agree, Gone, BetweenRuns, Launching, BackAtStart, AtStart, Waiting
  <2> QED BY <1>4, <2>1, <2>2 DEF RunAsync, Phases
<1>5. CASE CallWait
  <2>1. Agree /\ Running /\ barrier.max = threads + 1
    BY <1>5 DEF CallWait, Phases, Empty, Creating, BetweenRuns, Ended
  <2>2. Agree' /\ Running'
    BY <1>5, <2>1 DEF CallWait, poolVars, Agree, Gone, Running, InRun, Waiting
  <2> QED BY <1>5, <2>1, <2>2 DEF CallWait, poolVars, Phases
<1>6. CASE BeginDestroy
  <2>1. Agree /\ (Empty \/ (BetweenRuns /\ barrier.max = threads + 1))
    BY <1>6 DEF BeginDestroy, Phases, Creating, Running, Ended
  <2>2. Agree'
    BY <1>6, <2>1 DEF BeginDestroy, Agree, Gone, Waiting
  <2>3. CASE Empty
    BY <1>6, <2>1, <2>2, <2>3 DEF BeginDestroy, Empty, Phases, Waiting, BetweenRuns
  <2>4. CASE BetweenRuns /\ barrier.max = threads + 1 /\ main = "ready"
    <3>1. BetweenRuns'
      BY <1>6, <2>4
         DEF BeginDestroy, Stop, BetweenRuns, Launching, BackAtStart, AtStart, Waiting
    <3> QED BY <1>6, <2>2, <2>4, <3>1 DEF BeginDestroy, Phases
  <2> QED BY <1>6, <2>1, <2>3, <2>4 DEF BeginDestroy, BetweenRuns
<1>7. CASE JoinWorker
  <2>1. Agree /\ Ended /\ barrier.max = threads + 1 /\ idx <= threads
    BY <1>7 DEF JoinWorker, Typed, LoopsInRange, Phases, Empty, Creating, BetweenRuns, Running
  <2>2. \A w \in 1..threads : w < idx + 1 => worker[w] = "exited"
    BY <1>0, <1>7, <2>1 DEF JoinWorker, Ended
  <2>3. CASE idx = threads
    <3>1. Waiting = {}
      BY <2>1 DEF Agree, Ended, Leaving
    <3>2. \A w \in Worker : Gone(w)
      BY <1>0, <2>1, <2>2, <2>3 DEF Agree, Gone, Worker
    <3> QED BY <1>7, <2>1, <2>3, <3>1, <3>2 DEF JoinWorker, Phases, Agree, Gone, Empty, Waiting
  <2>4. CASE idx # threads
    <3>1. Agree' /\ Ended'
      BY <1>0, <1>7, <2>1, <2>2, <2>4 DEF JoinWorker, Agree, Gone, Ended, Leaving, Waiting
    <3> QED BY <1>7, <2>1, <2>4, <3>1 DEF JoinWorker, Phases
  <2> QED BY <2>3, <2>4
<1> QED BY <1>1, <1>2, <1>3, <1>4, <1>5, <1>6, <1>7

(* The client in the barrier: it ends a round or waits for its end. *)
LEMMA ClientMeets ==
  ASSUME Typed, Phases, NotifyStart \/ WaitForEnd \/ NotifyQuit
  PROVE  Phases'
<1> USE DEF Client
<1>0. /\ threads \in Nat /\ runs \in Nat /\ 0 \in 0..threads
      /\ UNCHANGED <<threads, runs, func, worker, calls>>
  BY MaxThreadsAssumption
     DEF Typed, TypeOK, NotifyStart, WaitForEnd, NotifyQuit, ClientArrives, ClientLeaves
<1>a. Agree
  BY DEF Phases
<1>1. ASSUME barrier' = Arrive(barrier, Client), Client \notin Waiting
      PROVE  /\ Agree' /\ barrier'.max = barrier.max
             /\ IsLast(barrier) => Waiting' = {}
             /\ ~IsLast(barrier) => Waiting' = Waiting \cup {Client}
             /\ IsLast(barrier) /\ barrier.max = threads + 1 =>
                  \A w \in 1..threads : w \in Waiting
  <2>1. /\ barrier'.max = barrier.max
        /\ barrier'.counter = Cardinality(Waiting')
        /\ Waiting' \subseteq 0..threads
        /\ IsLast(barrier) => Waiting' = {}
        /\ ~IsLast(barrier) => Waiting' = Waiting \cup {Client}
        /\ IsLast(barrier) /\ barrier.max = threads + 1 =>
             \A u \in 0..threads : u # Client => u \in Waiting
    BY <1>0, <1>a, <1>1, Meet
  <2>2. Agree'
    BY <1>0, <1>a, <2>1 DEF Agree, Gone
  <2>3. \A w \in 1..threads : w \in 0..threads /\ w # 0
    BY <1>0
  <2> QED BY <2>1, <2>2, <2>3
<1>2. ASSUME UNCHANGED barrier PROVE Agree' /\ Waiting' = Waiting
  BY <1>0, <1>a, <1>2 DEF Agree, Gone, Waiting
<1>3. CASE ClientArrives("begin", "beginning", "between")
  <2>1. BetweenRuns /\ barrier.max = threads + 1 /\ Client \notin Waiting
    BY <1>3 DEF ClientArrives, Phases, Empty, Creating, BetweenRuns, Running, Ended
  <2>2. barrier' = Arrive(barrier, Client)
    BY <1>3 DEF ClientArrives
  <2>3. CASE IsLast(barrier)
    <3>1. \A w \in 1..threads : w \in Waiting /\ w \notin Waiting' /\ worker[w] = "starting"
      BY <1>1, <2>1, <2>2, <2>3 DEF BetweenRuns, BackAtStart, AtStart
    <3>2. Running'
      BY <1>0, <1>1, <1>3, <2>1, <2>2, <2>3, <3>1
         DEF ClientArrives, BetweenRuns, Launching, Running, InRun
    <3> QED BY <1>0, <1>1, <2>1, <2>2, <3>2 DEF Phases
  <2>4. CASE ~IsLast(barrier)
    <3>1. Waiting' = Waiting \cup {Client} /\ \A w \in 1..threads : w # Client
      BY <1>0, <1>1, <2>1, <2>2, <2>4
    <3>2. BetweenRuns'
      BY <1>0, <1>3, <2>1, <2>4, <3>1
         DEF ClientArrives, BetweenRuns, Launching, BackAtStart, AtStart
    <3> QED BY <1>0, <1>1, <2>1, <2>2, <3>2 DEF Phases
  <2> QED BY <2>3, <2>4
<1>4. CASE ClientLeaves("beginning", "between")
  <2>1. Running /\ barrier.max = threads + 1
    BY <1>4 DEF ClientLeaves, Waiting, Phases, Empty, Creating, BetweenRuns, Running, Ended
  <2>2. UNCHANGED barrier /\ main' = "between" /\ Client \notin Waiting
    BY <1>4 DEF ClientLeaves, Waiting
  <2>3. Running'
    BY <1>0, <1>2, <2>1, <2>2 DEF Running, InRun
  <2> QED BY <1>0, <1>2, <2>1, <2>2, <2>3 DEF Phases
<1>5. CASE ClientArrives("end", "ending", "ready")
  <2>1. Running /\ barrier.max = threads + 1 /\ Client \notin Waiting
    BY <1>5 DEF ClientArrives, Phases, Empty, Creating, BetweenRuns, Running, Ended
  <2>2. barrier' = Arrive(barrier, Client)
    BY <1>5 DEF ClientArrives
  <2>3. CASE IsLast(barrier)
    <3>1. \A w \in 1..threads : w \in Waiting /\ w \notin Waiting' /\ worker[w] = "finishing"
      BY <1>1, <2>1, <2>2, <2>3 DEF Running, InRun
    <3>2. BetweenRuns'
      BY <1>0, <1>1, <1>5, <2>1, <2>2, <2>3, <3>1
         DEF ClientArrives, Running, BetweenRuns, Launching, BackAtStart
    <3> QED BY <1>0, <1>1, <2>1, <2>2, <3>2 DEF Phases
  <2>4. CASE ~IsLast(barrier)
    <3>1. Waiting' = Waiting \cup {Client} /\ \A w \in 1..threads : w # Client
      BY <1>0, <1>1, <2>1, <2>2, <2>4
    <3>2. Running'
      BY <1>0, <1>5, <2>1, <2>4, <3>1 DEF ClientArrives, Running, InRun
    <3> QED BY <1>0, <1>1, <2>1, <2>2, <3>2 DEF Phases
  <2> QED BY <2>3, <2>4
<1>6. CASE ClientLeaves("ending", "ready")
  <2>1. BetweenRuns /\ barrier.max = threads + 1
    BY <1>6 DEF ClientLeaves, Waiting, Phases, Empty, Creating, BetweenRuns, Running, Ended
  <2>2. UNCHANGED barrier /\ main = "ending" /\ main' = "ready" /\ Client \notin Waiting
    BY <1>6 DEF ClientLeaves, Waiting
  <2>3. BetweenRuns'
    BY <1>0, <1>2, <2>1, <2>2 DEF BetweenRuns, Launching, BackAtStart, AtStart
  <2> QED BY <1>0, <1>2, <2>1, <2>2, <2>3 DEF Phases
<1>7. CASE NotifyQuit /\ ClientArrives("quit", "quitting", AfterQuit)
  <2>1. /\ Empty \/ (BetweenRuns /\ barrier.max = threads + 1)
        /\ Client \notin Waiting
    BY <1>7 DEF ClientArrives, Phases, Empty, Creating, BetweenRuns, Running, Ended
  <2>2. /\ barrier' = Arrive(barrier, Client) /\ idx' = 1 /\ main = "quit"
        /\ main' = IF IsLast(barrier) THEN AfterQuit ELSE "quitting"
    BY <1>7 DEF ClientArrives, NotifyQuit
  <2>3. CASE Empty
    BY <1>0, <1>1, <2>1, <2>2, <2>3 DEF Empty, AfterQuit, Phases
  <2>4. CASE BetweenRuns /\ barrier.max = threads + 1 /\ IsLast(barrier)
    <3>1. \A w \in 1..threads : w \in Waiting /\ w \notin Waiting' /\ worker[w] = "starting"
      BY <1>1, <2>1, <2>2, <2>4 DEF BetweenRuns, BackAtStart, AtStart
    <3>2. CASE threads = 0
      <4>1. Empty'
        BY <1>0, <1>1, <2>1, <2>2, <2>4, <3>2 DEF Empty, AfterQuit
      <4> QED BY <1>1, <2>1, <2>2, <4>1 DEF Phases
    <3>3. CASE threads # 0
      <4>1. \A w \in 1..threads : ~(w < 1)
        BY <1>0
      <4>2. Ended'
        BY <1>0, <1>1, <2>1, <2>2, <2>4, <3>1, <3>3, <4>1
           DEF BetweenRuns, Ended, Leaving, AfterQuit
      <4> QED BY <1>0, <1>1, <2>1, <2>2, <2>4, <4>2 DEF Phases
    <3> QED BY <3>2, <3>3
  <2>5. CASE BetweenRuns /\ barrier.max = threads + 1 /\ ~IsLast(barrier)
    <3>1. Waiting' = Waiting \cup {Client} /\ \A w \in 1..threads : w # Client
      BY <1>0, <1>1, <2>1, <2>2, <2>5
    <3>2. BetweenRuns'
      BY <1>0, <2>2, <2>5, <3>1 DEF BetweenRuns, Launching, BackAtStart, AtStart
    <3> QED BY <1>0, <1>1, <2>1, <2>2, <2>5, <3>2 DEF Phases
  <2> QED BY <2>1, <2>3, <2>4, <2>5
<1>8. CASE NotifyQuit /\ ClientLeaves("quitting", AfterQuit)
  <2>1. Empty \/ (Ended /\ barrier.max = threads + 1)
    BY <1>8 DEF ClientLeaves, Waiting, Phases, Empty, Creating, BetweenRuns, Running, Ended
  <2>2. /\ UNCHANGED barrier /\ main' = AfterQuit /\ idx' = 1 /\ Client \notin Waiting
        /\ Agree' /\ Waiting' = Waiting
    BY <1>2, <1>8 DEF ClientLeaves, Waiting, NotifyQuit
  <2>3. CASE threads = 0
    BY <1>0, <2>2, <2>3 DEF Empty, AfterQuit, Phases
  <2>4. CASE threads # 0
    <3>1. \A w \in 1..threads : ~(w < 1)
      BY <1>0
    <3>2. Ended'
      BY <1>0, <2>1, <2>2, <2>4, <3>1 DEF Empty, Ended, Leaving, AfterQuit
    <3> QED BY <1>0, <2>1, <2>2, <2>4, <3>2 DEF Empty, Phases
  <2> QED BY <2>3, <2>4
<1> QED BY <1>3, <1>4, <1>5, <1>6, <1>7, <1>8 DEF NotifyStart, WaitForEnd, NotifyQuit

(* A worker's step *)
LEMMA WorkerPhases ==
  ASSUME Typed, Phases, NEW w \in Worker, WorkerStep(w)
  PROVE  Phases'
<1> USE DEF Client
<1>0. /\ threads \in Nat /\ runs \in Nat /\ w \in Nat /\ w # 0
      /\ worker \in [Worker -> WorkerState] /\ calls \in [Worker -> Seq(1..MaxRuns)]
      /\ 1..threads \subseteq Worker
      /\ UNCHANGED <<main, threads, runs, func, idx>>
  BY MaxThreadsAssumption
     DEF Typed, TypeOK, Worker, WorkerStep, WaitForStart, TestFunc, CallFunc, NotifyEnd,
         WorkerArrives, WorkerLeaves, poolVars
<1>a. Agree
  BY DEF Phases
<1>b. worker[w] \notin {"none", "exited"}
  BY DEF WorkerStep, WaitForStart, TestFunc, CallFunc, NotifyEnd, WorkerArrives, WorkerLeaves
<1>c. w \in 1..threads /\ ~Empty /\ barrier.max = threads + 1
  BY <1>0, <1>a, <1>b DEF Agree, Gone, Empty, Phases
<1>1. ASSUME NEW s, worker' = [worker EXCEPT ![w] = s],
             barrier'.max = barrier.max, barrier'.counter = Cardinality(Waiting'),
             Waiting' \subseteq 0..threads
      PROVE  /\ \A v \in Worker : worker'[v] = IF v = w THEN s ELSE worker[v]
             /\ Agree' /\ barrier'.max = threads' + 1
  BY <1>0, <1>a, <1>c, <1>1 DEF Agree, Gone
<1>2. ASSUME NEW at, NEW waits, NEW next, WorkerArrives(w, at, waits, next), w \notin Waiting
      PROVE  /\ Agree' /\ barrier'.max = threads' + 1 /\ worker[w] = at /\ UNCHANGED calls
             /\ \A v \in Worker : worker'[v] =
                  IF v = w THEN IF IsLast(barrier) THEN next ELSE waits ELSE worker[v]
             /\ IsLast(barrier) => Waiting' = {} /\ \A u \in 0..threads : u # w => u \in Waiting
             /\ ~IsLast(barrier) => Waiting' = Waiting \cup {w}
  <2>1. barrier' = Arrive(barrier, w) /\ w \in 0..threads
    BY <1>0, <1>c, <1>2 DEF WorkerArrives
  <2>2. /\ barrier'.max = barrier.max
        /\ barrier'.counter = Cardinality(Waiting')
        /\ Waiting' \subseteq 0..threads
        /\ IsLast(barrier) => Waiting' = {} /\ \A u \in 0..threads : u # w => u \in Waiting
        /\ ~IsLast(barrier) => Waiting' = Waiting \cup {w}
    BY <1>0, <1>a, <1>c, <1>2, <2>1, Meet
  <2> QED BY <1>1, <1>2, <2>2 DEF WorkerArrives
<1>3. ASSUME NEW s, worker' = [worker EXCEPT ![w] = s], UNCHANGED barrier
      PROVE  /\ \A v \in Worker : worker'[v] = IF v = w THEN s ELSE worker[v]
             /\ Agree' /\ barrier'.max = threads' + 1 /\ Waiting' = Waiting
  BY <1>1, <1>a, <1>0, <1>3 DEF Agree, Waiting
<1>d. \A v \in 1..threads : v \in Worker /\ v \in 0..threads /\ v # 0
  BY <1>0
<1>4. CASE WorkerArrives(w, "start", "starting", "test")
  <2>1. worker[w] = "start" /\ w \notin Waiting /\ (Creating \/ BetweenRuns)
    BY <1>4, <1>c DEF WorkerArrives, Phases, Creating, BetweenRuns, Running, Ended,
                      AtStart, BackAtStart, InRun, Leaving, Gone
  <2>2. CASE IsLast(barrier)
    <3>1. /\ Waiting' = {} /\ Client \in Waiting /\ BetweenRuns
          /\ \A v \in 1..threads : v # w => v \in Waiting
      BY <1>0, <1>2, <1>4, <1>d, <2>1, <2>2, 0 \in 0..threads DEF Creating
    <3>2. \A v \in 1..threads : worker'[v] = IF v = w THEN "test" ELSE "starting"
      BY <1>2, <1>4, <1>d, <2>1, <2>2, <3>1 DEF BetweenRuns, BackAtStart, AtStart
    <3>3. CASE main = "beginning"
      <4>1. Running'
        BY <1>0, <1>2, <1>4, <1>d, <2>1, <3>1, <3>2, <3>3
           DEF BetweenRuns, Launching, Running, InRun
      <4> QED BY <1>2, <1>4, <2>1, <4>1 DEF Phases
    <3>4. CASE main = "quitting"
      <4>1. Ended'
        BY <1>0, <1>2, <1>4, <1>d, <2>1, <3>1, <3>2, <3>4 DEF BetweenRuns, Ended, Leaving
      <4> QED BY <1>2, <1>4, <2>1, <4>1 DEF Phases
    <3> QED BY <3>1, <3>3, <3>4 DEF BetweenRuns
  <2>3. CASE ~IsLast(barrier)
    <3>1. /\ Waiting' = Waiting \cup {w} /\ UNCHANGED calls
          /\ \A v \in 1..threads : worker'[v] = IF v = w THEN "starting" ELSE worker[v]
      BY <1>2, <1>4, <1>d, <2>1, <2>3
    <3>2. CASE Creating
      <4>1. Creating'
        BY <1>0, <2>1, <3>1, <3>2 DEF Creating, AtStart, Gone
      <4> QED BY <1>2, <1>4, <2>1, <4>1 DEF Phases
    <3>3. CASE BetweenRuns
      <4>1. BetweenRuns'
        BY <1>0, <2>1, <3>1, <3>3 DEF BetweenRuns, Launching, BackAtStart, AtStart
      <4> QED BY <1>2, <1>4, <2>1, <4>1 DEF Phases
    <3> QED BY <2>1, <3>2, <3>3
  <2> QED BY <2>2, <2>3
<1>5. CASE WorkerLeaves(w, "starting", "test")
  <2>1. worker[w] = "starting" /\ w \notin Waiting /\ (Running \/ Ended)
    BY <1>5, <1>c DEF WorkerLeaves, Waiting, Phases, Creating, BetweenRuns, Running, Ended,
                      AtStart, BackAtStart, InRun, Leaving, Gone
  <2>2. /\ \A v \in 1..threads : worker'[v] = IF v = w THEN "test" ELSE worker[v]
        /\ Agree' /\ barrier'.max = threads' + 1 /\ Waiting' = Waiting /\ UNCHANGED calls
    BY <1>3, <1>5, <1>d DEF WorkerLeaves
  <2>3. Running => Running'
    BY <1>0, <2>1, <2>2 DEF Running, InRun
  <2>4. Ended => Ended'
    BY <1>0, <2>1, <2>2 DEF Ended, Leaving
  <2> QED BY <2>1, <2>2, <2>3, <2>4 DEF Phases
<1>6. CASE TestFunc(w)
  <2>1. worker[w] = "test" /\ w \notin Waiting /\ (Running \/ Ended)
    BY <1>6, <1>c DEF TestFunc, Waiting, Phases, Creating, BetweenRuns, Running, Ended,
                      AtStart, BackAtStart, InRun, Leaving, Gone
  <2>2. /\ \A v \in 1..threads : worker'[v] =
               IF v = w THEN IF func = NullFunc THEN "exited" ELSE "run" ELSE worker[v]
        /\ Agree' /\ barrier'.max = threads' + 1 /\ Waiting' = Waiting /\ UNCHANGED calls
    BY <1>3, <1>6, <1>d DEF TestFunc
  <2>3. Running => Running'
    <3>1. Running => func # NullFunc
      BY <1>0 DEF Running, NullFunc
    <3> QED BY <1>0, <2>1, <2>2, <3>1 DEF Running, InRun
  <2>4. Ended => Ended'
    BY <1>0, <2>1, <2>2 DEF Ended, Leaving
  <2> QED BY <2>1, <2>2, <2>3, <2>4 DEF Phases
<1>7. CASE CallFunc(w)
  <2>1. worker[w] = "run" /\ w \notin Waiting /\ Running
    BY <1>7, <1>c DEF CallFunc, Waiting, Phases, Creating, BetweenRuns, Running, Ended,
                      AtStart, BackAtStart, InRun, Leaving, Gone
  <2>2. /\ \A v \in 1..threads : worker'[v] = IF v = w THEN "finish" ELSE worker[v]
        /\ Agree' /\ barrier'.max = threads' + 1 /\ Waiting' = Waiting
    BY <1>3, <1>7, <1>d DEF CallFunc
  <2>3. func \in 1..MaxRuns /\ calls[w] \in Seq(1..MaxRuns)
    BY <1>0, <1>7, MaxRunsAssumption DEF CallFunc, NullFunc, Typed, TypeOK
  <2>4. Len(Append(calls[w], func)) = Len(calls[w]) + 1 /\ Len(calls[w]) = runs - 1
    BY <1>c, <2>1, <2>3, AppendProperties DEF Running
  <2>5. \A v \in 1..threads : calls'[v] = IF v = w THEN Append(calls[w], func) ELSE calls[v]
    BY <1>0, <1>7, <1>d DEF CallFunc
  <2>6. \A v \in 1..threads : InRun(v)'
    BY <2>1, <2>2 DEF Running, InRun
  <2>7. \A v \in 1..threads :
          Len(calls'[v]) = IF worker'[v] \in {"finish", "finishing"} THEN runs ELSE runs - 1
    BY <1>0, <2>1, <2>2, <2>4, <2>5, (runs - 1) + 1 = runs DEF Running
  <2>8. Running'
    BY <1>0, <2>1, <2>2, <2>6, <2>7 DEF Running
  <2> QED BY <2>2, <2>8 DEF Phases
<1>8. CASE WorkerArrives(w, "finish", "finishing", "start")
  <2>1. worker[w] = "finish" /\ w \notin Waiting /\ Running
    BY <1>8, <1>c DEF WorkerArrives, Phases, Creating, BetweenRuns, Running, Ended,
                      AtStart, BackAtStart, InRun, Leaving, Gone
  <2>2. CASE IsLast(barrier)
    <3>1. /\ Waiting' = {} /\ Client \in Waiting
          /\ \A v \in 1..threads : v # w => v \in Waiting
      BY <1>0, <1>2, <1>8, <1>d, <2>1, <2>2, 0 \in 0..threads
    <3>2. \A v \in 1..threads :
            /\ v # w => worker[v] = "finishing"
            /\ worker'[v] = IF v = w THEN "start" ELSE "finishing"
      BY <1>2, <1>8, <1>d, <2>1, <2>2, <3>1 DEF Running, InRun
    <3>3. \A v \in 1..threads : BackAtStart(v)' /\ Len(calls'[v]) = runs
      BY <1>2, <1>8, <2>1, <3>1, <3>2 DEF Running, BackAtStart, AtStart
    <3>4. BetweenRuns'
      BY <1>0, <2>1, <3>1, <3>3 DEF Running, BetweenRuns, Launching
    <3> QED BY <1>2, <1>8, <2>1, <3>4 DEF Phases
  <2>3. CASE ~IsLast(barrier)
    <3>1. /\ Waiting' = Waiting \cup {w} /\ UNCHANGED calls
          /\ \A v \in 1..threads : worker'[v] = IF v = w THEN "finishing" ELSE worker[v]
      BY <1>2, <1>8, <1>d, <2>1, <2>3
    <3>2. Running'
      BY <1>0, <2>1, <3>1 DEF Running, InRun
    <3> QED BY <1>2, <1>8, <2>1, <3>2 DEF Phases
  <2> QED BY <2>2, <2>3
<1>9. CASE WorkerLeaves(w, "finishing", "start")
  <2>1. worker[w] = "finishing" /\ w \notin Waiting /\ BetweenRuns
    BY <1>9, <1>c DEF WorkerLeaves, Waiting, Phases, Creating, BetweenRuns, Running, Ended,
                      AtStart, BackAtStart, InRun, Leaving, Gone
  <2>2. /\ \A v \in 1..threads : worker'[v] = IF v = w THEN "start" ELSE worker[v]
        /\ Agree' /\ barrier'.max = threads' + 1 /\ Waiting' = Waiting /\ UNCHANGED calls
    BY <1>3, <1>9, <1>d DEF WorkerLeaves
  <2>3. BetweenRuns'
    BY <1>0, <2>1, <2>2 DEF BetweenRuns, Launching, BackAtStart, AtStart
  <2> QED BY <2>2, <2>3 DEF Phases
<1> QED BY <1>4, <1>5, <1>6, <1>7, <1>8, <1>9 DEF WorkerStep, WaitForStart, NotifyEnd

LEMMA Invariance == Spec => []IInv
<1>1. Init => IInv
  BY InitTyped, InitPhases DEF IInv
<1>2. IInv /\ [Next]_vars => IInv'
  <2> SUFFICES ASSUME Typed, Signalled => Phases, [Next]_vars, Signalled'
               PROVE  Phases'
    BY TypedKept DEF IInv
  <2>1. CASE UNCHANGED vars
    BY <2>1 DEF vars, Signalled, Phases, Agree, Gone, Empty, Creating, BetweenRuns, Running,
                Ended, AtStart, BackAtStart, InRun, Leaving, Launching, Waiting
  <2>2. CASE Next
    <3>1. Signalled
      BY <2>2 DEF Next, BeginInit, CreateThread, CreateFails, RunAsync, NotifyStart, CallWait,
                  WaitForEnd, BeginDestroy, NotifyQuit, JoinWorker, WorkerStep, WaitForStart,
                  TestFunc, CallFunc, NotifyEnd, ClientArrives, ClientLeaves, WorkerArrives,
                  WorkerLeaves, SpuriousWakeup, poolVars, Signalled
    <3>2. ~SpuriousWakeup
      BY DEF SpuriousWakeup, Signalled
    <3> QED BY <2>2, <3>1, <3>2, ClientPhases, ClientMeets, WorkerPhases DEF Next
  <2> QED BY <2>1, <2>2
<1> QED BY <1>1, <1>2, PTL DEF Spec

(* The state of the pool and of its barrier keeps its types, also when a   *)
(* wait has ended without a signal: the count stays within the parties.    *)
THEOREM TypeCorrect == Spec => []TypeOK
BY Invariance, PTL DEF IInv, Typed

(* No worker tests or calls func_ while RunAsync or Destroy assigns it     *)
(* without a lock (threadpool.cc:283, 345), for every number of threads.   *)
THEOREM FuncSafe == Spec => FuncUnusedWhenAssigned
<1>1. IInv /\ [Next]_vars =>
        [Signalled /\ func' # func =>
           \A w \in Worker : worker[w] \notin {"test", "run"}]_vars
  <2> SUFFICES ASSUME IInv, Next, Signalled, func' # func, NEW w \in Worker
               PROVE  worker[w] \notin {"test", "run"}
    OBVIOUS
  <2>1. RunAsync \/ BeginDestroy
    BY DEF Next, BeginInit, CreateThread, CreateFails, NotifyStart, CallWait, WaitForEnd,
           NotifyQuit, JoinWorker, WorkerStep, WaitForStart, TestFunc, CallFunc, NotifyEnd,
           ClientArrives, ClientLeaves, WorkerArrives, WorkerLeaves, SpuriousWakeup, poolVars
  <2>2. main \in {"ready", "down"} /\ Phases
    BY <2>1 DEF RunAsync, BeginDestroy, IInv
  <2>a. (Empty /\ threads = 0) \/ BetweenRuns
    BY <2>2 DEF Phases, Empty, Creating, BetweenRuns, Running, Ended
  <2>b. \A v \in 1..threads : worker[v] \notin {"test", "run"}
    BY <2>a DEF BetweenRuns, BackAtStart, AtStart
  <2>3. threads \in Nat /\ w \in Nat /\ \A v \in 1..threads : worker[v] \notin {"test", "run"}
    BY <2>b DEF IInv, Typed, TypeOK, Worker
  <2>4. w > threads => worker[w] \in {"none", "exited"}
    BY <2>2 DEF Phases, Agree, Gone
  <2> QED BY <2>3, <2>4 DEF Worker
<1> QED BY <1>1, Invariance, PTL DEF Spec, FuncUnusedWhenAssigned

-----------------------------------------------------------------------------
(* Refinement *)

(* Who still has to call the function during a run *)
LEMMA TodoIs ==
  ASSUME Typed, Running
  PROVE  Todo = {w \in 1..threads : worker[w] \notin {"finish", "finishing"}}
<1>1. runs \in Nat /\ Busy
  BY MaxRunsAssumption DEF Typed, TypeOK, Running, Busy
<1>2. \A w \in 1..threads : Len(calls[w]) < runs <=> worker[w] \notin {"finish", "finishing"}
  BY <1>1 DEF Running
<1> QED BY <1>1, <1>2 DEF Todo

(* A step of the pool is a start, a call or the end of a run, or no step. *)
LEMMA StepSimulation ==
  ASSUME IInv, IInv', [Next]_vars, Signalled
  PROVE  [FJ!Next]_<<Busy, Todo>>
<1> USE DEF Client
<1>0. Typed /\ Phases /\ Typed' /\ (Signalled' => Phases')
  BY DEF IInv
<1>1. CASE UNCHANGED vars \/ SpuriousWakeup
  BY <1>1 DEF vars, SpuriousWakeup, Busy, Todo
<1>2. CASE BeginInit \/ CreateThread \/ CreateFails \/ BeginDestroy \/ NotifyQuit \/ JoinWorker
  <2>1. ~Busy /\ ~Busy'
    BY <1>2 DEF BeginInit, CreateThread, CreateFails, BeginDestroy, NotifyQuit, JoinWorker,
                ClientArrives, ClientLeaves, AfterQuit, Busy
  <2>2. Busy = FALSE /\ Busy' = FALSE /\ Todo = {} /\ Todo' = {}
    BY <2>1 DEF Todo, Busy
  <2> QED BY <2>2
<1>3. CASE RunAsync
  <2>1. Busy = FALSE /\ Busy' = TRUE /\ Signalled'
    BY <1>3 DEF RunAsync, Busy, Signalled
  <2>2. Todo' \subseteq Worker
    <3>1. 1..threads \subseteq Worker
      BY <1>0, MaxThreadsAssumption DEF Typed, TypeOK, Worker
    <3> QED BY <1>3, <3>1 DEF Todo, RunAsync
  <2> QED BY <2>1, <2>2 DEF FJ!Next, FJ!Start
<1>4. CASE NotifyStart \/ CallWait
  <2>1. UNCHANGED <<threads, runs, calls>>
    BY <1>4 DEF NotifyStart, CallWait, ClientArrives, ClientLeaves, poolVars
  <2>2. Busy = TRUE /\ Busy' = TRUE
    BY <1>4 DEF NotifyStart, CallWait, ClientArrives, ClientLeaves, Busy
  <2> QED BY <2>1, <2>2 DEF Todo
<1>5. CASE WaitForEnd
  <2>1. main \in {"end", "ending"} /\ main' \in {"ending", "ready"}
        /\ UNCHANGED <<threads, runs, calls, worker>>
    BY <1>5 DEF WaitForEnd, ClientArrives, ClientLeaves
  <2>2. CASE main' = "ending"
    BY <2>1, <2>2 DEF Busy, Todo
  <2>3. CASE main' = "ready"
    <3>1. Signalled' /\ Phases'
      BY <1>0, <1>5 DEF WaitForEnd, ClientArrives, ClientLeaves, Signalled
    <3>2. BetweenRuns' /\ ~Launching'
      BY <2>3, <3>1 DEF Phases, Empty, Creating, BetweenRuns, Running, Ended, Launching
    <3>3. \A w \in 1..threads : Len(calls[w]) = runs
      BY <2>1, <3>2 DEF BetweenRuns
    <3>4. Todo = {}
      BY <1>0, <3>3, MaxRunsAssumption DEF Todo, Typed, TypeOK
    <3>5. Busy = TRUE /\ Busy' = FALSE /\ Todo' = {}
      BY <2>1, <2>3 DEF Busy, Todo
    <3> QED BY <3>4, <3>5 DEF FJ!Next, FJ!Finish
  <2> QED BY <2>1, <2>2, <2>3
<1>6. ASSUME NEW w \in Worker, WaitForStart(w) \/ TestFunc(w) \/ NotifyEnd(w)
      PROVE  UNCHANGED <<Busy, Todo>>
  BY <1>6 DEF WaitForStart, TestFunc, NotifyEnd, WorkerArrives, WorkerLeaves, poolVars,
              Busy, Todo
<1>7. ASSUME NEW w \in Worker, CallFunc(w) PROVE FJ!Next
  <2>1. Running /\ w \in 1..threads
    <3>1. threads \in Nat /\ w \in Nat /\ w # 0 /\ worker[w] = "run"
      BY <1>0, <1>7 DEF CallFunc, Typed, TypeOK, Worker
    <3>2. w \in 1..threads
      BY <1>0, <3>1 DEF Phases, Agree, Gone
    <3> QED BY <1>0, <3>1, <3>2 DEF Phases, Empty, Creating, BetweenRuns, Ended, AtStart,
                                    BackAtStart, Leaving, Gone
  <2>2. /\ UNCHANGED <<main, threads, runs, barrier>> /\ Signalled'
        /\ \A v \in Worker : worker'[v] = IF v = w THEN "finish" ELSE worker[v]
        /\ worker[w] = "run"
    BY <1>0, <1>7 DEF CallFunc, poolVars, Signalled, Typed, TypeOK
  <2>3. Busy = TRUE /\ Busy' = TRUE
    BY <2>1, <2>2 DEF Running, Busy
  <2>4. Running'
    <3>1. worker'[w] = "finish" /\ w \in 1..threads' /\ Phases'
      BY <1>0, <2>1, <2>2
    <3> QED BY <3>1 DEF Phases, Empty, Creating, BetweenRuns, Ended, AtStart, BackAtStart,
                        Leaving, Gone
  <2>5. Todo = {v \in 1..threads : worker[v] \notin {"finish", "finishing"}}
    BY <1>0, <2>1, TodoIs
  <2>6. Todo' = {v \in 1..threads' : worker'[v] \notin {"finish", "finishing"}}
    <3>1. /\ \A v \in 1..threads' : Len(calls'[v]) =
               IF worker'[v] \in {"finish", "finishing"} THEN runs' ELSE runs' - 1
          /\ runs' \in Nat
      BY <1>0, <2>4, MaxRunsAssumption DEF Running, Typed, TypeOK
    <3> QED BY <2>3, <3>1 DEF Todo, Busy
  <2>7. 1..threads \subseteq Worker
    BY <1>0, MaxThreadsAssumption DEF Typed, TypeOK, Worker
  <2>8. w \in Todo /\ Todo' = Todo \ {w}
    BY <2>1, <2>2, <2>5, <2>6, <2>7
  <2> QED BY <2>3, <2>8 DEF FJ!Next, FJ!Call
<1> QED BY <1>1, <1>2, <1>3, <1>4, <1>5, <1>6, <1>7 DEF Next, WorkerStep

(* For every number of threads a run calls its function once for each      *)
(* index, and Wait returns after all of the calls (threadpool.cc:344-351). *)
THEOREM Refinement == Spec => ImplementsForkJoin
<1>1. Init => FJ!Init
  BY DEF Init, FJ!Init, Busy, Todo
<1>2. IInv /\ IInv' /\ [Next]_vars => [Signalled => [FJ!Next]_<<Busy, Todo>>]_vars
  BY StepSimulation
<1> QED BY <1>1, <1>2, Invariance, PTL DEF Spec, ImplementsForkJoin
=============================================================================
