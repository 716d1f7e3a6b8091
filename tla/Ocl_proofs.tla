----------------------------- MODULE Ocl_proofs -----------------------------
(***************************************************************************)
(* What is proved of the OpenCL parts.  Each part has an inductive         *)
(* invariant over its own variables, with a lemma for its initial states,  *)
(* one for its steps and one for what follows from it; the whole has their *)
(* conjunction.                                                            *)
(***************************************************************************)
EXTENDS Ocl, Lemmas

-----------------------------------------------------------------------------
(***************************************************************************)
(* The running of kernels.  Nobody but the thread that made it holds a     *)
(* kernel that is not in the pool yet, so each handle in the pool is there *)
(* once; no kernel is released while a thread has its handle.              *)
(***************************************************************************)
State ==
  [pc : {"idle", "find", "create", "build", "names", "insert", "args", "enqueue"},
   asked : Name, binary : {"none", "copy", "client's", "freed"},
   todo : Seq(Name), temp : Kernel, kernel : Kernel]

(* What a thread has, with these options, depends on where it is.          *)
Local(r, o) ==
  /\ r.pc # "insert" => r.temp = NoKernel
  /\ r.pc = "insert" => /\ r.temp # NoKernel
                        /\ r.todo # <<>> /\ r.temp.of = <<Head(r.todo), o>>
  /\ r.pc = "idle" => r.kernel = NoKernel
  /\ r.pc \in {"args", "enqueue"} => r.kernel # NoKernel
  /\ r.kernel # NoKernel => r.kernel.of = <<r.asked, o>>
  /\ Careful => r.binary # "freed"

Unpooled(k) == \A j \in DOMAIN pool : pool[j].handle # k.handle

Alone(t) ==
  run[t].temp # NoKernel =>
    /\ Unpooled(run[t].temp)
    /\ \A u \in Runner : /\ run[u].kernel.handle # run[t].temp.handle
                         /\ u # t => run[u].temp.handle # run[t].temp.handle

PoolInv ==
  /\ DOMAIN pool \subseteq Key
  /\ \A k \in DOMAIN pool : pool[k] \in Kernel \ {NoKernel} /\ pool[k].of = k
  /\ \A k, l \in DOMAIN pool : pool[k].handle = pool[l].handle => k = l

RunnerInv ==
  /\ PoolInv /\ dangling = {}
  /\ groups \in Seq(Group) /\ Len(groups) <= MaxGroups
  /\ options \in [Runner -> Options] /\ source \in [Runner -> BOOLEAN]
  /\ run \in [Runner -> State]
  /\ \A t \in Runner : Local(run[t], options[t]) /\ Alone(t)

LEMMA IdleState == Idle \in State /\ \A o : Local(Idle, o)
<1>1. 1 \in DOMAIN Names /\ <<>> \in Seq(Name)
  BY NamesAssumption, LenProperties, EmptySeq
<1>2. Names[1] \in Name
  BY <1>1 DEF Name, ToSet
<1>3. Idle \in State
  BY <1>1, <1>2 DEF Idle, State, Kernel
<1> QED BY <1>3 DEF Idle, Local

LEMMA Handles ==
  /\ NoKernel \in Kernel /\ NoKernel.handle = 0
  /\ \A k \in Kernel : /\ k # NoKernel => k.handle \in 1..MaxKernels /\ k.of \in Key
                       /\ k.handle = 0 => k = NoKernel
                       /\ k.handle \in 0..MaxKernels
BY RunnerBoundsAssumption DEF Kernel, NoKernel

LEMMA RunnerInit == Init => RunnerInv
<1> SUFFICES ASSUME Init PROVE RunnerInv
  OBVIOUS
<1>1. DOMAIN <<>> = {} /\ <<>> \in Seq(Group) /\ Len(<<>>) = 0
  BY EmptySeq
<1>2. PoolInv
  BY <1>1 DEF Init, PoolInv
<1>3. run \in [Runner -> State] /\ \A t \in Runner : run[t] = Idle
  BY IdleState DEF Init
<1>4. \A t \in Runner : Alone(t)
  BY <1>3 DEF Alone, Idle
<1> QED BY <1>1, <1>2, <1>3, <1>4, IdleState, RunnerBoundsAssumption DEF Init, RunnerInv

(* A step of a thread that leaves the pool alone                           *)
LEMMA Goes ==
  ASSUME RunnerInv, NEW t \in Runner, NEW r \in State, Local(r, options[t]),
         Becomes(t, r), UNCHANGED <<pool, dangling, groups, options, source>>,
         r.temp # NoKernel =>
           /\ Unpooled(r.temp) /\ r.kernel.handle # r.temp.handle
           /\ \A u \in Runner \ {t} : /\ run[u].kernel.handle # r.temp.handle
                                      /\ run[u].temp.handle # r.temp.handle,
         \A u \in Runner \ {t} :
           run[u].temp # NoKernel => r.kernel.handle # run[u].temp.handle
  PROVE  RunnerInv'
<1>0. /\ PoolInv /\ run \in [Runner -> State]
      /\ \A u \in Runner : Local(run[u], options[u]) /\ Alone(u)
  BY DEF RunnerInv
<1>1. /\ run' \in [Runner -> State] /\ run'[t] = r
      /\ \A u \in Runner \ {t} : run'[u] = run[u]
  BY <1>0 DEF Becomes
<1>2. PoolInv'
  BY <1>0 DEF PoolInv
<1>3. \A u \in Runner : Local(run'[u], options'[u])
  BY <1>0, <1>1
<1>4. ASSUME NEW u \in Runner PROVE Alone(u)'
  <2>1. \A k : Unpooled(k)' <=> Unpooled(k)
    BY DEF Unpooled
  <2>2. CASE u = t
    BY <1>1, <2>1, <2>2 DEF Alone
  <2>3. CASE u # t
    <3>1. run'[u].temp = run[u].temp
      BY <1>1, <2>3
    <3>2. SUFFICES ASSUME run[u].temp # NoKernel
                   PROVE  /\ Unpooled(run[u].temp)
                          /\ \A v \in Runner : /\ run'[v].kernel.handle # run[u].temp.handle
                                               /\ v # u => run'[v].temp.handle # run[u].temp.handle
      BY <2>1, <3>1 DEF Alone
    <3>3. /\ Unpooled(run[u].temp)
          /\ \A v \in Runner : /\ run[v].kernel.handle # run[u].temp.handle
                               /\ v # u => run[v].temp.handle # run[u].temp.handle
      BY <1>0, <3>2 DEF Alone
    <3>4. r.kernel.handle # run[u].temp.handle
      BY <2>3, <3>2
    <3>5. r.temp.handle # run[u].temp.handle
      <4>1. CASE r.temp = NoKernel
        <5>1. run[u].temp \in Kernel
          BY <1>0 DEF State
        <5> QED BY <3>2, <4>1, <5>1, Handles
      <4>2. CASE r.temp # NoKernel
        BY <2>3, <4>2
      <4> QED BY <4>1, <4>2
    <3> QED BY <1>1, <3>3, <3>4, <3>5
  <2> QED BY <2>2, <2>3
<1> QED BY <1>1, <1>2, <1>3, <1>4 DEF RunnerInv

(* One that makes no kernel, and whose kernel is its old one or none       *)
LEMMA GoesOn ==
  ASSUME RunnerInv, NEW t \in Runner, NEW r \in State, Local(r, options[t]),
         Becomes(t, r), UNCHANGED <<pool, dangling, groups, chainVars>>,
         r.temp = NoKernel, r.kernel \in {run[t].kernel, NoKernel}
  PROVE  RunnerInv'
<1>1. ASSUME NEW u \in Runner \ {t}, run[u].temp # NoKernel
      PROVE  r.kernel.handle # run[u].temp.handle
  <2>1. run[u].temp \in Kernel /\ run[t].kernel.handle # run[u].temp.handle
    BY <1>1 DEF RunnerInv, State, Alone
  <2> QED BY <1>1, <2>1, Handles
<1>2. UNCHANGED <<pool, dangling, groups, options, source>>
  BY DEF chainVars
<1> QED BY <1>1, <1>2, Goes

LEMMA Returns ==
  ASSUME RunnerInv, NEW t \in Runner, Return(t), UNCHANGED <<pool, dangling, groups, chainVars>>
  PROVE  RunnerInv'
<1>1. Idle.temp = NoKernel /\ Idle.kernel = NoKernel /\ Becomes(t, Idle)
  BY DEF Idle, Return
<1> QED BY <1>1, IdleState, GoesOn

LEMMA RunnerCalls ==
  ASSUME RunnerInv, NEW t \in Runner, NEW n \in Name, Call(t, n)
  PROVE  RunnerInv'
<1> DEFINE k == Pooled(KeyOf(n, options[t]))
           r == [Idle EXCEPT !.pc = IF k = NoKernel THEN "find" ELSE "args",
                             !.asked = n, !.kernel = k]
<1>1. /\ Becomes(t, r) /\ UNCHANGED <<pool, dangling, groups, options, source>>
  BY DEF Call, chainVars
<1>2. /\ k \in Kernel
      /\ k # NoKernel => /\ k.of = <<n, options[t]>>
                         /\ \E j \in DOMAIN pool : pool[j].handle = k.handle
  BY Handles DEF Pooled, KeyOf, RunnerInv, PoolInv
<1> HIDE DEF k
<1>3. /\ r.pc = (IF k = NoKernel THEN "find" ELSE "args") /\ r.asked = n /\ r.kernel = k
      /\ r.temp = NoKernel /\ r.binary = "none"
  BY DEF Idle
<1>4. r \in State
  BY <1>2, IdleState DEF State
<1> HIDE DEF r
<1>5. Local(r, options[t])
  BY <1>2, <1>3 DEF Local
<1>6. ASSUME NEW u \in Runner \ {t}, run[u].temp # NoKernel
      PROVE  r.kernel.handle # run[u].temp.handle
  <2>1. run[u].temp \in Kernel /\ Unpooled(run[u].temp)
    BY <1>6 DEF RunnerInv, State, Alone
  <2> QED BY <1>2, <1>3, <1>6, <2>1, Handles DEF Unpooled
<1> QED BY <1>1, <1>3, <1>4, <1>5, <1>6, Goes

LEMMA RunnerSteps ==
  ASSUME RunnerInv, NEW t \in Runner,
         \/ FindBinary(t) \/ CreateWithBinary(t) \/ CreateWithSource(t) \/ Build(t)
         \/ NamesDone(t) \/ SetArgs(t) \/ Enqueue(t)
  PROVE  RunnerInv'
<1>0. UNCHANGED <<pool, dangling, groups, chainVars>>
  BY DEF FindBinary, CreateWithBinary, CreateWithSource, Build, NamesDone, SetArgs, Enqueue
<1>1. CASE Return(t)
  BY <1>0, <1>1, Returns
<1> DEFINE s == run[t]
<1>2. s \in State /\ Local(s, options[t]) /\ options[t] \in Options
  BY DEF RunnerInv
<1>3. ASSUME ~Return(t)
      PROVE  \E r \in State :
               /\ Becomes(t, r) /\ Local(r, options[t])
               /\ r.temp = NoKernel /\ r.kernel = s.kernel
  <2>1. CASE FindBinary(t)
    <3>1. PICK b \in {"copy", "client's"} :
            s.pc = "find" /\ Becomes(t, [s EXCEPT !.pc = "create", !.binary = b])
      BY <1>3, <2>1, Zenon DEF FindBinary
    <3>2. [s EXCEPT !.pc = "create", !.binary = b] \in State
      BY <1>2 DEF State
    <3>3. Local([s EXCEPT !.pc = "create", !.binary = b], options[t])
      BY <1>2, <3>1 DEF Local, State
    <3> QED BY <1>2, <3>1, <3>2, <3>3 DEF Local, State
  <2>2. CASE CreateWithBinary(t)
    <3> DEFINE r == [s EXCEPT !.pc = "build", !.binary = "none"]
    <3>1. s.pc = "create" /\ Becomes(t, r)
      BY <1>3, <2>2 DEF CreateWithBinary
    <3>2. r \in State
      BY <1>2 DEF State
    <3>3. Local(r, options[t]) /\ r.temp = NoKernel /\ r.kernel = s.kernel
      BY <1>2, <3>1 DEF Local, State
    <3> QED BY <3>1, <3>2, <3>3
  <2>3. CASE CreateWithSource(t)
    <3> DEFINE r == [s EXCEPT !.pc = "build"]
    <3>1. s.pc = "find" /\ Becomes(t, r)
      BY <1>3, <2>3 DEF CreateWithSource
    <3>2. r \in State
      BY <1>2 DEF State
    <3>3. Local(r, options[t]) /\ r.temp = NoKernel /\ r.kernel = s.kernel
      BY <1>2, <3>1 DEF Local, State
    <3> QED BY <3>1, <3>2, <3>3
  <2>4. CASE Build(t)
    <3>1. PICK names \in {<<>>, Names} :
            s.pc = "build" /\ Becomes(t, [s EXCEPT !.pc = "names", !.todo = names])
      BY <1>3, <2>4 DEF Build
    <3> DEFINE r == [s EXCEPT !.pc = "names", !.todo = names]
    <3>2. r \in State
      <4>1. names \in Seq(Name)
        BY <3>1, NamesAssumption, EmptySeq DEF Name
      <4> QED BY <1>2, <4>1 DEF State
    <3>3. Local(r, options[t]) /\ r.temp = NoKernel /\ r.kernel = s.kernel
      BY <1>2, <3>1 DEF Local, State
    <3> QED BY <3>1, <3>2, <3>3
  <2>5. CASE NamesDone(t)
    <3> DEFINE r == [s EXCEPT !.pc = "args"]
    <3>1. s.pc = "names" /\ s.kernel # NoKernel /\ Becomes(t, r)
      BY <1>3, <2>5 DEF NamesDone
    <3>2. r \in State
      BY <1>2 DEF State
    <3>3. Local(r, options[t]) /\ r.temp = NoKernel /\ r.kernel = s.kernel
      BY <1>2, <3>1 DEF Local, State
    <3> QED BY <3>1, <3>2, <3>3
  <2>6. CASE SetArgs(t)
    <3> DEFINE r == [s EXCEPT !.pc = "enqueue"]
    <3>1. s.pc = "args" /\ Becomes(t, r)
      BY <1>3, <2>6 DEF SetArgs
    <3>2. r \in State
      BY <1>2 DEF State
    <3>3. Local(r, options[t]) /\ r.temp = NoKernel /\ r.kernel = s.kernel
      BY <1>2, <3>1 DEF Local, State
    <3> QED BY <3>1, <3>2, <3>3
  <2>7. CASE Enqueue(t)
    BY <1>3, <2>7 DEF Enqueue
  <2> QED BY <2>1, <2>2, <2>3, <2>4, <2>5, <2>6, <2>7
<1> QED BY <1>0, <1>1, <1>3, GoesOn

LEMMA RunnerCreates ==
  ASSUME RunnerInv, NEW t \in Runner, CreateKernel(t)
  PROVE  RunnerInv'
<1> DEFINE s == run[t]
           fresh == (1..MaxKernels) \ Held
<1>0. /\ UNCHANGED <<pool, dangling, groups, chainVars>>
      /\ UNCHANGED <<pool, dangling, groups, options, source>>
      /\ s.pc = "names" /\ s.todo # <<>>
  BY DEF CreateKernel, chainVars
<1>1. CASE Return(t)
  BY <1>0, <1>1, Returns
<1>2. CASE ~Return(t)
  <2>1. PICK h \in fresh :
          Becomes(t, [s EXCEPT !.pc = "insert",
                        !.temp = [handle |-> h, of |-> <<Head(s.todo), options[t]>>]])
    BY <1>2 DEF CreateKernel
  <2> DEFINE k == [handle |-> h, of |-> <<Head(s.todo), options[t]>>]
             r == [s EXCEPT !.pc = "insert", !.temp = k]
  <2>2. s \in State /\ Local(s, options[t]) /\ options[t] \in Options
    BY DEF RunnerInv
  <2>3. Head(s.todo) \in Name
    <3>1. s.todo \in Seq(Name)
      BY <2>2 DEF State
    <3> QED BY <1>0, <3>1, HeadTailProperties
  <2>4. k \in Kernel /\ k # NoKernel /\ k.handle = h /\ k.of = <<Head(s.todo), options[t]>>
    <3>1. <<Head(s.todo), options[t]>> \in Key
      BY <2>2, <2>3 DEF Key
    <3> QED BY <3>1 DEF Kernel, NoKernel
  <2>5. Becomes(t, r)
    BY <2>1
  <2> HIDE DEF k
  <2>6. /\ r \in State /\ r.temp = k /\ r.pc = "insert" /\ r.kernel = s.kernel
        /\ r.todo = s.todo /\ r.asked = s.asked /\ r.binary = s.binary
    BY <2>2, <2>4 DEF State
  <2> HIDE DEF r
  <2>7. Local(r, options[t])
    BY <1>0, <2>2, <2>4, <2>6 DEF Local
  <2>8. h \notin Held
    BY <2>1
  <2>9. Unpooled(k) /\ \A u \in Runner : run[u].kernel.handle # h /\ run[u].temp.handle # h
    BY <2>4, <2>8 DEF Held, Unpooled
  <2>10. ASSUME NEW u \in Runner \ {t}, run[u].temp # NoKernel
         PROVE  r.kernel.handle # run[u].temp.handle
    BY <2>6, <2>10 DEF RunnerInv, Alone
  <2> QED BY <1>0, <2>4, <2>5, <2>6, <2>7, <2>9, <2>10, Goes
<1> QED BY <1>1, <1>2

LEMMA RunnerInserts ==
  ASSUME RunnerInv, NEW t \in Runner, Insert(t)
  PROVE  RunnerInv'
<1> DEFINE s == run[t]
           n == Head(s.todo)
           key == <<n, options[t]>>
           r == [s EXCEPT !.pc = "names", !.todo = Tail(@), !.temp = NoKernel,
                          !.kernel = IF n = s.asked THEN s.temp ELSE @]
<1>1. /\ s.pc = "insert" /\ Becomes(t, r)
      /\ pool' = [j \in DOMAIN pool \cup {key} |-> IF j \in DOMAIN pool THEN pool[j] ELSE s.temp]
      /\ UNCHANGED <<dangling, groups, options, source>>
  BY DEF Insert, InsertKernel, KeyOf, chainVars
<1>2. /\ s \in State /\ Local(s, options[t]) /\ options[t] \in Options /\ PoolInv
      /\ run \in [Runner -> State] /\ Alone(t)
      /\ \A u \in Runner : Local(run[u], options[u]) /\ Alone(u)
  BY DEF RunnerInv
<1>3. s.temp \in Kernel /\ s.temp # NoKernel /\ s.todo # <<>> /\ s.temp.of = key
  BY <1>1, <1>2 DEF Local, State
<1>4. n \in Name /\ Tail(s.todo) \in Seq(Name)
  <2>1. s.todo \in Seq(Name)
    BY <1>2 DEF State
  <2> QED BY <1>3, <2>1, HeadTailProperties
<1>5. key \in Key
  BY <1>2, <1>4 DEF Key
<1>6. r \in State
  BY <1>2, <1>3, <1>4, Handles DEF State
<1>7. /\ r.pc = "names" /\ r.temp = NoKernel /\ r.asked = s.asked /\ r.binary = s.binary
      /\ r.kernel = IF n = s.asked THEN s.temp ELSE s.kernel
  BY <1>2 DEF State
<1> HIDE DEF r
<1>8. Local(r, options[t])
  BY <1>1, <1>2, <1>3, <1>7 DEF Local
<1>9. run' \in [Runner -> State] /\ run'[t] = r /\ \A u \in Runner \ {t} : run'[u] = run[u]
  BY <1>1, <1>2, <1>6 DEF Becomes
<1> HIDE DEF n
<1> DEFINE k == key
<1>10. /\ DOMAIN pool' = DOMAIN pool \cup {k}
       /\ \A j \in DOMAIN pool : pool'[j] = pool[j]
       /\ k \notin DOMAIN pool => pool'[k] = s.temp
  BY <1>1
<1>11. Unpooled(s.temp)
  BY <1>2, <1>3 DEF Alone
<1>12. PoolInv'
  <2> HIDE DEF k
  <2>1. s.temp.of = k /\ k \in Key
    BY <1>3, <1>5 DEF k
  <2> QED BY <1>2, <1>3, <1>10, <1>11, <2>1 DEF PoolInv, Unpooled
<1>13. \A u \in Runner : Local(run'[u], options'[u])
  BY <1>1, <1>2, <1>8, <1>9
<1>14. ASSUME NEW u \in Runner PROVE Alone(u)'
  <2>1. CASE u = t
    BY <1>7, <1>9, <2>1 DEF Alone
  <2>2. CASE u # t
    <3>1. run'[u].temp = run[u].temp
      BY <1>9, <2>2
    <3> DEFINE m == run[u].temp
    <3>2. SUFFICES ASSUME m # NoKernel
                   PROVE  /\ Unpooled(m)'
                          /\ \A v \in Runner : /\ run'[v].kernel.handle # m.handle
                                               /\ v # u => run'[v].temp.handle # m.handle
      BY <3>1 DEF Alone, Unpooled
    <3>3. /\ Unpooled(m) /\ m \in Kernel
          /\ \A v \in Runner : /\ run[v].kernel.handle # m.handle
                               /\ v # u => run[v].temp.handle # m.handle
      BY <1>2, <3>2 DEF Alone, State
    <3>4. s.temp.handle # m.handle /\ s.kernel.handle # m.handle
      BY <2>2, <3>3
    <3>5. \A j \in DOMAIN pool' : pool'[j].handle # m.handle
      BY <1>10, <3>3, <3>4 DEF Unpooled
    <3>6. r.kernel.handle # m.handle /\ r.temp.handle # m.handle
      BY <1>7, <3>2, <3>3, <3>4, Handles
    <3>7. Unpooled(m)'
      BY <3>1, <3>5 DEF Unpooled
    <3> QED BY <1>9, <3>3, <3>6, <3>7
  <2> QED BY <2>1, <2>2
<1> QED BY <1>1, <1>9, <1>12, <1>13, <1>14 DEF RunnerInv

LEMMA RunnerReleases ==
  ASSUME RunnerInv, NEW keys \in SUBSET DOMAIN pool, ReleaseKernels(keys)
  PROVE  RunnerInv'
<1> DEFINE released == {pool[k].handle : k \in keys}
<1>1. /\ released \cap InUse = {} /\ pool' = [k \in DOMAIN pool \ keys |-> pool[k]]
      /\ UNCHANGED <<groups, options, source, run>>
      /\ dangling' = (dangling \cup released) \cap Held'
  BY DEF ReleaseKernels, Without, chainVars
<1>2. PoolInv /\ dangling = {} /\ run \in [Runner -> State] /\ \A t \in Runner : Alone(t)
  BY DEF RunnerInv
<1>3. PoolInv'
  BY <1>1, <1>2 DEF PoolInv
<1>4. ASSUME NEW k \in keys, pool[k].handle \in Held' PROVE FALSE
  <2>1. pool[k] \in Kernel /\ pool[k] # NoKernel /\ k \in DOMAIN pool
    BY <1>2 DEF PoolInv
  <2>2. CASE \E j \in DOMAIN pool' : pool'[j].handle = pool[k].handle
    BY <1>1, <1>2, <2>1, <2>2 DEF PoolInv
  <2>3. CASE \E t \in Runner : run[t].temp.handle = pool[k].handle
    <3>1. PICK t \in Runner : run[t].temp.handle = pool[k].handle
      BY <2>3
    <3>2. run[t].temp # NoKernel
      BY <2>1, <3>1, Handles
    <3> QED BY <1>2, <2>1, <3>1, <3>2 DEF Alone, Unpooled
  <2>4. CASE \E t \in Runner : run[t].kernel.handle = pool[k].handle
    BY <1>1, <2>4 DEF InUse
  <2> QED BY <1>1, <1>4, <2>2, <2>3, <2>4 DEF Held
<1>5. dangling' = {}
  BY <1>1, <1>2, <1>4
<1>6. \A t \in Runner : Alone(t)'
  BY <1>1, <1>2 DEF Alone, Unpooled
<1> QED BY <1>1, <1>3, <1>5, <1>6 DEF RunnerInv

LEMMA RunnerNext == RunnerInv /\ Next => RunnerInv'
<1> SUFFICES ASSUME RunnerInv, Next PROVE RunnerInv'
  OBVIOUS
<1>0. /\ PoolInv /\ dangling = {} /\ run \in [Runner -> State]
      /\ groups \in Seq(Group) /\ Len(groups) <= MaxGroups
      /\ options \in [Runner -> Options] /\ source \in [Runner -> BOOLEAN]
      /\ \A t \in Runner : Local(run[t], options[t]) /\ Alone(t)
  BY DEF RunnerInv
<1>1. ASSUME NEW t \in Runner, Run(t) PROVE RunnerInv'
  BY <1>1, RunnerCalls, RunnerSteps, RunnerCreates, RunnerInserts DEF Run
<1>2. ASSUME NEW t \in Runner, SetCompileOptions(t) PROVE RunnerInv'
  <2>1. /\ run[t].pc = "idle" /\ options' \in [Runner -> Options]
        /\ \A u \in Runner \ {t} : options'[u] = options[u]
        /\ UNCHANGED <<pool, dangling, groups, source, run>>
    BY <1>0, <1>2 DEF SetCompileOptions
  <2>2. \A u \in Runner : Local(run[u], options'[u])
    BY <1>0, <2>1 DEF Local
  <2>3. PoolInv' /\ \A u \in Runner : Alone(u)'
    BY <1>0, <2>1 DEF PoolInv, Alone, Unpooled
  <2> QED BY <1>0, <2>1, <2>2, <2>3 DEF RunnerInv
<1>3. CASE RemoveKernel
  <2>1. PICK k \in DOMAIN pool : ReleaseKernels({k})
    BY <1>3 DEF RemoveKernel
  <2>2. {k} \in SUBSET DOMAIN pool
    BY <2>1
  <2> QED BY <2>1, <2>2, RunnerReleases
<1>4. CASE RemoveAllKernels
  BY <1>4, RunnerReleases DEF RemoveAllKernels
<1>5. CASE InsertGroup
  <2>1. PICK has \in SUBSET Options, copied \in BOOLEAN :
          groups' = Append(groups, [has |-> has, copied |-> copied])
    BY <1>5 DEF InsertGroup
  <2>2. Len(groups) < MaxGroups /\ UNCHANGED <<pool, dangling, options, source, run>>
    BY <1>5 DEF InsertGroup, chainVars
  <2>3. groups' \in Seq(Group) /\ Len(groups') = Len(groups) + 1
    <3>1. [has |-> has, copied |-> copied] \in Group
      BY DEF Group
    <3> QED BY <1>0, <2>1, <3>1, AppendProperties
  <2>4. Len(groups') <= MaxGroups
    BY <1>0, <2>2, <2>3, LenProperties, RunnerBoundsAssumption
  <2>5. PoolInv' /\ \A u \in Runner : Alone(u)'
    BY <1>0, <2>2 DEF PoolInv, Alone, Unpooled
  <2> QED BY <1>0, <2>2, <2>3, <2>4, <2>5 DEF RunnerInv
<1>6. CASE ReleaseAllGroups
  <2>1. /\ Careful => \A t \in Runner : run[t].binary = "none"
        /\ groups' = <<>>
        /\ run' = [t \in Runner |->
             IF run[t].binary = "copy" THEN [run[t] EXCEPT !.binary = "freed"] ELSE run[t]]
        /\ UNCHANGED <<pool, dangling, options, source>>
    BY <1>6 DEF ReleaseAllGroups, chainVars
  <2>2. ASSUME NEW t \in Runner
        PROVE  /\ run'[t] \in State /\ Local(run'[t], options[t])
               /\ run'[t].temp = run[t].temp /\ run'[t].kernel = run[t].kernel
    <3>1. run[t] \in State /\ Local(run[t], options[t])
      BY <1>0
    <3>2. CASE run[t].binary = "copy"
      <4>1. ~Careful /\ run'[t] = [run[t] EXCEPT !.binary = "freed"]
        BY <2>1, <3>2
      <4>2. run'[t] \in State
        BY <3>1, <4>1 DEF State
      <4> QED BY <3>1, <4>1, <4>2 DEF State, Local
    <3>3. CASE run[t].binary # "copy"
      <4>1. run'[t] = run[t]
        BY <2>1, <3>3
      <4> QED BY <3>1, <4>1
    <3> QED BY <3>2, <3>3
  <2>3. run' \in [Runner -> State]
    <3>1. DOMAIN run' = Runner /\ run' = [t \in Runner |-> run'[t]]
      BY <2>1
    <3> QED BY <2>2, <3>1
  <2>4. PoolInv' /\ \A u \in Runner : Alone(u)'
    BY <1>0, <2>1, <2>2 DEF PoolInv, Alone, Unpooled
  <2>5. groups' \in Seq(Group) /\ Len(groups') <= MaxGroups
    BY <2>1, EmptySeq, RunnerBoundsAssumption
  <2> QED BY <1>0, <2>1, <2>2, <2>3, <2>4, <2>5 DEF RunnerInv
<1> QED BY <1>1, <1>2, <1>3, <1>4, <1>5, <1>6 DEF Next

LEMMA RunnerSafe ==
  RunnerInv => /\ TypeOK /\ PoolSound /\ RunsWhatWasAsked
               /\ Careful => BinaryThereWhenUsed
<1> SUFFICES ASSUME RunnerInv
             PROVE  /\ TypeOK /\ PoolSound /\ RunsWhatWasAsked
                    /\ Careful => BinaryThereWhenUsed
  OBVIOUS
<1>1. TypeOK
  BY DEF RunnerInv, PoolInv, State, TypeOK
<1>2. PoolSound
  BY DEF RunnerInv, PoolInv, PoolSound
<1>3. RunsWhatWasAsked
  BY DEF RunnerInv, Local, RunsWhatWasAsked
<1>4. Careful => BinaryThereWhenUsed
  BY DEF RunnerInv, Local, BinaryThereWhenUsed
<1> QED BY <1>1, <1>2, <1>3, <1>4

-----------------------------------------------------------------------------
(***************************************************************************)
(* The frame chain.  What it has is what it has a reference to.  During    *)
(* the tests the temporary objects come from calls that were made.  While  *)
(* no event is unset, those that exist are listed, each once, or lost.     *)
(***************************************************************************)
Calls == F!Tests(kind)
CallName == {"context", "queue", "buffer", "program", "build", "kernel",
         "args", "enqueue", "read", "query"}

(* The calls of either kind of GPU *)
MobileCalls == <<"program", "build", "kernel", "query">>
OtherCalls ==
  <<"context", "queue", "buffer", "program", "build", "kernel", "args", "enqueue", "read">>

TestsInv ==
  IF pc = "test"
  THEN \E i \in 1..Len(Calls) :
         /\ todo = SubSeq(Calls, i, Len(Calls))
         /\ temps \subseteq {Calls[j] : j \in 1..(i - 1)} \cap F!Temporary
  ELSE todo = <<>> /\ temps = {}

ListedOnce ==
  \A i, j \in DOMAIN events : events[i] = events[j] /\ events[i] # 0 => i = j

EventsInv ==
  /\ events \in Seq(0..MaxEvents) /\ Len(events) <= MaxListed
  /\ live \subseteq 1..MaxEvents /\ lost \subseteq 1..MaxEvents
  /\ unset \in BOOLEAN /\ dead \in BOOLEAN
  /\ pc # "open" \/ ~kind.profiling => events = <<>>
  /\ unset = FALSE =>
       /\ dead = FALSE
       /\ live = F!Released \cup lost /\ F!Released \cap lost = {}
       /\ ListedOnce

FrameInv ==
  /\ pc \in {"none", "test", "make queue", "open"}
  /\ kind \in F!Kind
  /\ handles \subseteq F!Handle /\ handles = refs
  /\ pc = "none" => handles = {}
  /\ TestsInv /\ EventsInv

LEMMA TestsAre ==
  ASSUME NEW k \in F!Kind
  PROVE  /\ F!Tests(k) \in Seq(CallName)
         /\ k.mobile => F!Tests(k) = MobileCalls /\ Len(F!Tests(k)) = 4
         /\ ~k.mobile => F!Tests(k) = OtherCalls /\ Len(F!Tests(k)) = 9
<1>1. k.mobile \in BOOLEAN /\ F!Tests(k) = IF k.mobile THEN MobileCalls ELSE OtherCalls
  BY DEF F!Kind, F!Tests, MobileCalls, OtherCalls
<1>2. MobileCalls \in Seq(CallName) /\ Len(MobileCalls) = 4
  BY DEF MobileCalls, CallName
<1>3. OtherCalls \in Seq(CallName) /\ Len(OtherCalls) = 9
  BY DEF OtherCalls, CallName
<1> QED BY <1>1, <1>2, <1>3

LEMMA CallsAre ==
  ASSUME kind \in F!Kind
  PROVE  /\ Calls \in Seq(CallName)
         /\ kind.mobile => Calls = MobileCalls /\ Len(Calls) = 4
         /\ ~kind.mobile => Calls = OtherCalls /\ Len(Calls) = 9
BY TestsAre DEF Calls

(* What is left of the calls *)
LEMMA Rest ==
  ASSUME NEW S, NEW s \in Seq(S), NEW i \in 1..Len(s)
  PROVE  /\ SubSeq(s, i, Len(s)) # <<>> /\ Head(SubSeq(s, i, Len(s))) = s[i]
         /\ Len(SubSeq(s, i, Len(s))) = Len(s) - i + 1
         /\ Tail(SubSeq(s, i, Len(s))) = SubSeq(s, i + 1, Len(s))
<1>1. Len(s) \in Nat /\ Len(s) \in i..Len(s) /\ i \in Int /\ \A j \in i..Len(s) : s[j] \in S
  BY LenProperties, ElementOfSeq
<1>2. Len(SubSeq(s, i, Len(s))) = Len(s) - i + 1
  BY <1>1, SubSeqProperties
<1>3. SubSeq(s, i, Len(s)) # <<>>
  <2>1. Len(<<>>) = 0
    BY EmptySeq
  <2> QED BY <1>1, <1>2, <2>1
<1> QED BY <1>1, <1>2, <1>3, HeadTailOfSubSeq

LEMMA FrameInit == F!Init => FrameInv
<1> SUFFICES ASSUME F!Init PROVE FrameInv
  OBVIOUS
<1>1. <<>> \in Seq(0..MaxEvents) /\ Len(<<>>) = 0 /\ DOMAIN <<>> = {}
  BY EmptySeq
<1>2. F!Released = {}
  BY <1>1 DEF F!Init, F!Released, F!Range
<1>a. ListedOnce
  BY <1>1 DEF F!Init, ListedOnce
<1>b. events \in Seq(0..MaxEvents) /\ Len(events) <= MaxListed
  BY <1>1, ListedAssumption DEF F!Init
<1>c. live = {} /\ lost = {} /\ unset = FALSE /\ dead = FALSE /\ events = <<>>
  BY DEF F!Init
<1>3. EventsInv
  BY <1>2, <1>a, <1>b, <1>c DEF EventsInv
<1> QED BY <1>3 DEF F!Init, FrameInv, F!Kind, TestsInv

(* The call that comes next *)
LEMMA NextCall ==
  ASSUME FrameInv, pc = "test"
  PROVE  \E i \in 1..Len(Calls) :
           /\ todo # <<>> /\ Head(todo) = Calls[i] /\ Len(todo) = Len(Calls) - i + 1
           /\ Tail(todo) = SubSeq(Calls, i + 1, Len(Calls))
           /\ temps \subseteq {Calls[j] : j \in 1..(i - 1)} \cap F!Temporary
<1>1. kind \in F!Kind /\ TestsInv
  BY DEF FrameInv
<1>2. PICK i \in 1..Len(Calls) :
        /\ todo = SubSeq(Calls, i, Len(Calls))
        /\ temps \subseteq {Calls[j] : j \in 1..(i - 1)} \cap F!Temporary
  BY <1>1 DEF TestsInv
<1>3. Calls \in Seq(CallName)
  BY <1>1, CallsAre
<1>4. /\ todo # <<>> /\ Head(todo) = Calls[i] /\ Len(todo) = Len(Calls) - i + 1
      /\ Tail(todo) = SubSeq(Calls, i + 1, Len(Calls))
  BY <1>2, <1>3, Rest
<1> QED BY <1>2, <1>4

(* Whichever call is the last, it gives back all that there is. *)
LEMMA GivesBack ==
  ASSUME kind \in F!Kind, NEW i \in 1..Len(Calls), NEW c, c = Calls[i],
         temps \subseteq {Calls[j] : j \in 1..(i - 1)} \cap F!Temporary
  PROVE  temps \subseteq F!GivenBack(c)
<1>1. CASE kind.mobile
  <2>0. Calls = <<"program", "build", "kernel", "query">> /\ Len(Calls) = 4
    BY <1>1, CallsAre DEF MobileCalls
  <2>1. i \in 1..4
    BY <2>0
  <2>2. CASE i \in 1..2
    <3>1. c \in {"program", "build"} /\ temps \subseteq {"program"}
      BY <2>0, <2>2 DEF F!Temporary
    <3> QED BY <1>1, <3>1 DEF F!GivenBack
  <2>3. CASE i \in 3..4
    <3>1. c \in {"kernel", "query"} /\ temps \subseteq {"program", "kernel"}
      BY <2>0, <2>3 DEF F!Temporary
    <3> QED BY <1>1, <3>1 DEF F!GivenBack
  <2> QED BY <2>1, <2>2, <2>3
<1>2. CASE ~kind.mobile
  <2>0. /\ Calls = <<"context", "queue", "buffer", "program", "build", "kernel",
                     "args", "enqueue", "read">>
        /\ Len(Calls) = 9
    BY <1>2, CallsAre DEF OtherCalls
  <2>1. CASE c = "build"
    <3>1. i = 5
      <4>1. \/ i = 1 \/ i = 2 \/ i = 3 \/ i = 4 \/ i = 5
            \/ i = 6 \/ i = 7 \/ i = 8 \/ i = 9
        BY <2>0
      <4>2. \A j \in {1, 2, 3, 4, 6, 7, 8, 9} : Calls[j] # "build"
        BY <2>0
      <4> QED BY <2>1, <4>1, <4>2
    <3>2. temps \subseteq F!Temporary \ {"kernel"}
      <4>1. \A j \in 1..(i - 1) : j = 1 \/ j = 2 \/ j = 3 \/ j = 4
        BY <3>1
      <4>2. \A j \in 1..(i - 1) : Calls[j] # "kernel"
        BY <2>0, <4>1
      <4> QED BY <4>2
    <3> QED BY <1>2, <2>1, <3>2 DEF F!GivenBack
  <2>2. CASE c # "build"
    BY <1>2, <2>2 DEF F!GivenBack
  <2> QED BY <2>1, <2>2
<1> QED BY <1>1, <1>2

LEMMA FrameTest ==
  ASSUME FrameInv, F!Test
  PROVE  FrameInv'
<1>1. /\ pc = "test"
      /\ UNCHANGED <<handles, kind, refs, events, live, lost, unset, dead>>
      /\ F!Succeeds(Head(todo)) \/ F!Fails(Head(todo))
  BY DEF F!Test, F!eventVars
<1>2. kind \in F!Kind /\ handles = refs /\ handles \subseteq F!Handle /\ EventsInv
  BY DEF FrameInv
<1>3. PICK i \in 1..Len(Calls) :
        /\ todo # <<>> /\ Head(todo) = Calls[i] /\ Len(todo) = Len(Calls) - i + 1
        /\ Tail(todo) = SubSeq(Calls, i + 1, Len(Calls))
        /\ temps \subseteq {Calls[j] : j \in 1..(i - 1)} \cap F!Temporary
  BY <1>1, NextCall
<1>4. Calls' = Calls
  BY <1>1 DEF Calls, F!Tests
<1> DEFINE c == Head(todo)
<1>5. ASSUME F!EndTests(c) PROVE FrameInv'
  <2>1. temps' = {} /\ todo' = <<>> /\ pc' \in {"open", "make queue"}
    BY <1>2, <1>3, <1>5, GivesBack DEF F!EndTests
  <2>2. TestsInv'
    BY <2>1 DEF TestsInv
  <2>3. EventsInv'
    BY <1>1, <1>2, <2>1 DEF EventsInv, ListedOnce, F!Released, F!Range
  <2> QED BY <1>1, <1>2, <2>1, <2>2, <2>3 DEF FrameInv
<1>6. ASSUME i # Len(Calls), temps' \subseteq temps \cup ({c} \cap F!Temporary),
             todo' = Tail(todo), pc' = pc
      PROVE  FrameInv'
  <2>1. i + 1 \in 1..Len(Calls) /\ (i + 1) - 1 = i /\ i \in 1..i /\ 1..(i - 1) \subseteq 1..i
    BY <1>6, <1>2, CallsAre
  <2>2. temps' \subseteq {Calls[j] : j \in 1..i} \cap F!Temporary
    BY <1>3, <1>6, <2>1
  <2>3. TestsInv'
    BY <1>1, <1>3, <1>4, <1>6, <2>1, <2>2 DEF TestsInv
  <2>4. EventsInv'
    BY <1>1, <1>2, <1>6 DEF EventsInv, ListedOnce, F!Released, F!Range
  <2> QED BY <1>1, <1>2, <1>6, <2>3, <2>4 DEF FrameInv
<1>7. CASE F!Succeeds(c)
  <2>1. CASE Len(todo) = 1
    BY <1>5, <1>7, <2>1 DEF F!Succeeds
  <2>2. CASE Len(todo) # 1
    <3>1. i # Len(Calls)
      BY <1>2, <1>3, <2>2, CallsAre
    <3>2. temps' \subseteq temps \cup ({c} \cap F!Temporary) /\ todo' = Tail(todo) /\ pc' = pc
      BY <1>7, <2>2 DEF F!Succeeds
    <3> QED BY <1>6, <3>1, <3>2
  <2> QED BY <2>1, <2>2
<1>8. CASE F!Fails(c)
  <2>1. CASE F!Checked(c)
    BY <1>5, <1>8, <2>1 DEF F!Fails
  <2>2. CASE ~F!Checked(c)
    <3>1. ~kind.mobile /\ c \in F!Temporary
      BY <2>2 DEF F!Checked
    <3>2. i # Len(Calls)
      <4>1. Len(Calls) = 9 /\ Calls[9] = "read"
        BY <1>2, <3>1, CallsAre DEF OtherCalls
      <4> QED BY <1>3, <3>1, <4>1 DEF F!Temporary
    <3>3. temps' \subseteq temps \cup ({c} \cap F!Temporary) /\ todo' = Tail(todo) /\ pc' = pc
      BY <1>8, <2>2 DEF F!Fails
    <3> QED BY <1>6, <3>2, <3>3
  <2> QED BY <2>1, <2>2
<1> QED BY <1>1, <1>7, <1>8

(* Events that are added to the list, and all of them released *)
LEMMA EventAdded ==
  ASSUME EventsInv, NEW e \in 0..MaxEvents, events' = Append(events, e)
  PROVE  /\ events' \in Seq(0..MaxEvents) /\ Len(events') = Len(events) + 1
         /\ F!Released' = F!Released \cup ({e} \ {0})
         /\ ListedOnce /\ e \notin F!Released => ListedOnce'
<1>1. events \in Seq(0..MaxEvents)
  BY DEF EventsInv
<1>2. /\ events' \in Seq(0..MaxEvents) /\ Len(events') = Len(events) + 1
      /\ Elements(events') = Elements(events) \cup {e}
  <2>1. Append(events, e) \in Seq(0..MaxEvents) /\ Elements(Append(events, e)) = Elements(events) \cup {e}
    <3> DEFINE Event == 0..MaxEvents
    <3>1. events \in Seq(Event) /\ e \in Event
      BY <1>1
    <3> HIDE DEF Event
    <3>2. Append(events, e) \in Seq(Event) /\ Elements(Append(events, e)) = Elements(events) \cup {e}
      BY <3>1, Pushed
    <3> QED BY <3>2 DEF Event
  <2>2. Len(Append(events, e)) = Len(events) + 1
    BY <1>1, AppendProperties
  <2> QED BY <2>1, <2>2
<1>3. F!Released' = F!Released \cup ({e} \ {0}) /\ F!Released = Elements(events) \ {0}
  BY <1>2 DEF F!Released, F!Range, Elements
<1>4. /\ \A i \in 1..Len(events) : events'[i] = events[i]
      /\ events'[Len(events) + 1] = e
      /\ DOMAIN events = 1..Len(events) /\ DOMAIN events' = 1..(Len(events) + 1)
      /\ Len(events) \in Nat
  BY <1>1, <1>2, AppendProperties, LenProperties
<1>5. ASSUME ListedOnce,
             e \notin F!Released,
             NEW i \in DOMAIN events', NEW j \in DOMAIN events',
             events'[i] = events'[j], events'[i] # 0
      PROVE  i = j
  <2>1. \A k \in DOMAIN events' : k = Len(events) + 1 \/ k \in DOMAIN events
    BY <1>4
  <2>2. \A k \in DOMAIN events : events[k] # e \/ e = 0
    BY <1>3, <1>5 DEF Elements
  <2> QED BY <1>4, <1>5, <2>1, <2>2 DEF ListedOnce
<1> QED BY <1>2, <1>3, <1>5 DEF ListedOnce

LEMMA FreshEvent ==
  ASSUME live \subseteq 1..MaxEvents, live # 1..MaxEvents
  PROVE  F!Fresh \in (1..MaxEvents) \ live
<1>1. \E e \in 1..MaxEvents : e \notin live
  OBVIOUS
<1> QED BY <1>1 DEF F!Fresh

LEMMA FrameEnqueue ==
  ASSUME FrameInv, F!Enqueue
  PROVE  FrameInv'
<1>1. /\ pc = "open" /\ kind.profiling /\ Len(events) < MaxListed
      /\ UNCHANGED <<pc, todo, handles, kind, refs, temps, lost, dead>>
  BY DEF F!Enqueue
<1>2. EventsInv /\ kind \in F!Kind /\ handles = refs /\ handles \subseteq F!Handle /\ TestsInv
  BY DEF FrameInv
<1>3. TestsInv'
  BY <1>1, <1>2 DEF TestsInv
<1>a. live \subseteq 1..MaxEvents /\ lost \subseteq 1..MaxEvents /\ unset \in BOOLEAN
  BY <1>2 DEF EventsInv
<1>b. Len(events) \in Nat
  BY <1>2, LenProperties DEF EventsInv
<1>4. CASE live # 1..MaxEvents /\ events' = Append(events, F!Fresh)
           /\ live' = live \cup {F!Fresh} /\ unset' = unset
  <2> DEFINE e == F!Fresh
  <2>1. e \in (1..MaxEvents) \ live /\ e \in 0..MaxEvents /\ e # 0
    BY <1>a, <1>4, FreshEvent
  <2> HIDE DEF e
  <2>2. events' = Append(events, e) /\ live' = live \cup {e}
    BY <1>4 DEF e
  <2>3. /\ events' \in Seq(0..MaxEvents) /\ Len(events') = Len(events) + 1
        /\ F!Released' = F!Released \cup {e}
        /\ ListedOnce /\ e \notin F!Released => ListedOnce'
    BY <1>2, <2>1, <2>2, EventAdded
  <2>4. EventsInv'
    <3>1. Len(events') <= MaxListed
      BY <1>1, <1>b, <2>3, ListedAssumption
    <3>2. live' \subseteq 1..MaxEvents /\ lost' \subseteq 1..MaxEvents
      BY <1>1, <1>a, <2>1, <2>2
    <3>3. unset' \in BOOLEAN /\ dead' \in BOOLEAN /\ ~(pc' # "open" \/ ~kind'.profiling)
      BY <1>1, <1>2, <1>4 DEF EventsInv
    <3>4. ASSUME unset' = FALSE
          PROVE  /\ dead' = FALSE /\ ListedOnce'
                 /\ live' = F!Released' \cup lost' /\ F!Released' \cap lost' = {}
      <4>1. dead = FALSE /\ live = F!Released \cup lost /\ F!Released \cap lost = {} /\ ListedOnce
        BY <1>2, <1>4, <3>4 DEF EventsInv
      <4> QED BY <1>1, <2>1, <2>2, <2>3, <4>1
    <3> QED BY <2>3, <3>1, <3>2, <3>3, <3>4 DEF EventsInv
  <2> QED BY <1>1, <1>2, <1>3, <2>4 DEF FrameInv
<1>5. ASSUME NEW e \in 0..MaxEvents, events' = Append(events, e),
             unset' = (unset \/ e # 0), live' = live
      PROVE  FrameInv'
  <2>1. /\ events' \in Seq(0..MaxEvents) /\ Len(events') = Len(events) + 1
        /\ F!Released' = F!Released \cup ({e} \ {0})
        /\ ListedOnce /\ e \notin F!Released => ListedOnce'
    BY <1>2, <1>5, EventAdded
  <2>2. unset' \in BOOLEAN /\ (unset' = FALSE => unset = FALSE /\ e = 0)
    BY <1>a, <1>5, Zenon
  <2>3. 0 \notin F!Released
    BY DEF F!Released
  <2>4. EventsInv'
    BY <1>1, <1>2, <1>5, <1>b, <2>1, <2>2, <2>3, ListedAssumption DEF EventsInv
  <2> QED BY <1>1, <1>2, <1>3, <2>4 DEF FrameInv
<1> QED BY <1>4, <1>5 DEF F!Enqueue

(* Releasing all that are listed *)
LEMMA ListReleased ==
  ASSUME EventsInv, events' = <<>>, live' = live \ F!Released, lost' = lost,
         unset' = unset, dead' \in BOOLEAN,
         unset = FALSE /\ ~F!ReleasedInVain => dead' = FALSE
  PROVE  EventsInv'
<1>1. <<>> \in Seq(0..MaxEvents) /\ Len(<<>>) = 0 /\ DOMAIN <<>> = {}
  BY EmptySeq
<1>2. F!Released' = {}
  BY <1>1 DEF F!Released, F!Range
<1>3. unset = FALSE => ~F!ReleasedInVain
  BY DEF EventsInv, ListedOnce, F!ReleasedInVain
<1>4. ListedOnce'
  BY <1>1 DEF ListedOnce
<1>5. /\ live \subseteq 1..MaxEvents /\ lost \subseteq 1..MaxEvents /\ unset \in BOOLEAN
      /\ unset = FALSE => live = F!Released \cup lost /\ F!Released \cap lost = {}
  BY DEF EventsInv
<1>6. unset' = FALSE => dead' = FALSE /\ live' = F!Released' \cup lost' /\ F!Released' \cap lost' = {}
  BY <1>2, <1>3, <1>5
<1>7. events' \in Seq(0..MaxEvents) /\ Len(events') <= MaxListed
  BY <1>1, ListedAssumption
<1>8. /\ live' \subseteq 1..MaxEvents /\ lost' \subseteq 1..MaxEvents
  BY <1>5
<1>9. /\ unset' \in BOOLEAN /\ dead' \in BOOLEAN
      /\ pc' # "open" \/ ~kind'.profiling => events' = <<>>
  BY <1>5
<1> QED BY <1>4, <1>6, <1>7, <1>8, <1>9 DEF EventsInv

LEMMA FrameNext == FrameInv /\ F!Next => FrameInv'
<1> SUFFICES ASSUME FrameInv, F!Next PROVE FrameInv'
  OBVIOUS
<1>0. /\ kind \in F!Kind /\ handles \subseteq F!Handle /\ handles = refs
      /\ TestsInv /\ EventsInv
      /\ live \subseteq 1..MaxEvents /\ lost \subseteq 1..MaxEvents
      /\ unset \in BOOLEAN /\ dead \in BOOLEAN
  BY DEF FrameInv, EventsInv
<1>1. ASSUME NEW k \in F!Kind, NEW at \in {"test", "open"}, NEW S \in SUBSET F!Handle,
             F!Begins(k, at, S, S)
      PROVE  FrameInv'
  <2>1. /\ pc = "none" /\ pc' = at /\ kind' = k /\ handles' = S /\ refs' = S
        /\ todo' = IF at = "test" THEN F!Tests(k) ELSE <<>>
        /\ UNCHANGED <<temps, events, live, lost, unset, dead>>
    BY <1>1 DEF F!Begins, F!eventVars
  <2>2. temps = {} /\ events = <<>>
    BY <1>0, <2>1 DEF TestsInv, EventsInv
  <2>3. TestsInv'
    <3>1. CASE at = "open"
      BY <2>1, <2>2, <3>1 DEF TestsInv
    <3>2. CASE at = "test"
      <4>1. Calls' \in Seq(CallName) /\ Len(Calls') >= 1 /\ kind' \in F!Kind
        <5>1. k.mobile \in BOOLEAN /\ Calls' = F!Tests(k)
          BY <2>1 DEF F!Kind, Calls, F!Tests
        <5>2. Len(F!Tests(k)) \in {4, 9} /\ F!Tests(k) \in Seq(CallName)
          BY <5>1, TestsAre
        <5> QED BY <2>1, <5>1, <5>2
      <4>2. todo' = Calls' /\ Calls' = SubSeq(Calls', 1, Len(Calls'))
        BY <2>1, <3>2, <4>1, SubSeqFull DEF Calls, F!Tests
      <4>3. 1 \in 1..Len(Calls')
        BY <4>1, LenProperties
      <4> QED BY <2>1, <2>2, <3>2, <4>2, <4>3 DEF TestsInv
    <3> QED BY <3>1, <3>2
  <2>4. EventsInv'
    BY <1>0, <2>1, <2>2 DEF EventsInv, ListedOnce, F!Released, F!Range
  <2> QED BY <2>1, <2>3, <2>4 DEF FrameInv
<1>2. CASE F!CreateDefault
  <2>1. {} \in SUBSET F!Handle /\ {"context"} \in SUBSET F!Handle
    BY DEF F!Handle
  <2> QED BY <1>1, <1>2, <2>1 DEF F!CreateDefault
<1>3. CASE F!CreateFromQueue
  <2>1. {"queue"} \in SUBSET F!Handle /\ {"queue", "context"} \in SUBSET F!Handle
    BY DEF F!Handle
  <2> QED BY <1>1, <1>3, <2>1 DEF F!CreateFromQueue
<1>4. CASE F!MakeQueue
  <2>1. /\ pc = "make queue" /\ pc' = "open"
        /\ handles' = refs' /\ handles' \subseteq F!Handle
        /\ UNCHANGED <<todo, kind, temps, events, live, lost, unset, dead>>
    BY <1>0, <1>4 DEF F!MakeQueue, F!eventVars, F!Handle
  <2>2. TestsInv'
    BY <1>0, <2>1 DEF TestsInv
  <2>3. EventsInv'
    BY <1>0, <2>1 DEF EventsInv, ListedOnce, F!Released, F!Range
  <2> QED BY <1>0, <2>1, <2>2, <2>3 DEF FrameInv
<1>5. CASE F!Test
  BY <1>5, FrameTest
<1>6. CASE F!GetTuningQueue
  <2>1. /\ pc = "open" /\ pc' = pc
        /\ handles' = refs' /\ handles' \subseteq F!Handle
        /\ UNCHANGED <<todo, kind, temps, events, live, lost, unset, dead>>
    BY <1>0, <1>6 DEF F!GetTuningQueue, F!eventVars, F!Handle
  <2>2. TestsInv'
    BY <1>0, <2>1 DEF TestsInv
  <2>3. EventsInv'
    BY <1>0, <2>1 DEF EventsInv, ListedOnce, F!Released, F!Range
  <2> QED BY <1>0, <2>1, <2>2, <2>3 DEF FrameInv
<1>7. CASE F!Enqueue
  BY <1>7, FrameEnqueue
<1>8. CASE F!EnqueueTuning
  <2> DEFINE e == F!Fresh
  <2>1. e \in (1..MaxEvents) \ live
    BY <1>0, <1>8, FreshEvent DEF F!EnqueueTuning
  <2> HIDE DEF e
  <2>2. /\ pc = "open" /\ live' = live \cup {e} /\ lost' = lost \cup {e}
        /\ UNCHANGED <<pc, todo, handles, kind, events, refs, temps, unset, dead>>
    BY <1>8 DEF F!EnqueueTuning, e
  <2>3. TestsInv'
    BY <1>0, <2>2 DEF TestsInv
  <2>4. F!Released' = F!Released
    BY <2>2 DEF F!Released, F!Range
  <2>5. EventsInv'
    <3>1. live' \subseteq 1..MaxEvents /\ lost' \subseteq 1..MaxEvents
      BY <1>0, <2>1, <2>2
    <3>2. unset = FALSE =>
            /\ dead = FALSE /\ ListedOnce'
            /\ live' = F!Released' \cup lost' /\ F!Released' \cap lost' = {}
      <4>1. ListedOnce' <=> ListedOnce
        BY <2>2 DEF ListedOnce
      <4> QED BY <1>0, <2>1, <2>2, <2>4, <4>1 DEF EventsInv
    <3> QED BY <1>0, <2>2, <3>1, <3>2 DEF EventsInv
  <2> QED BY <1>0, <2>2, <2>3, <2>5 DEF FrameInv
<1>9. CASE F!ReleaseEventList
  <2>1. /\ pc = "open" /\ events' = <<>> /\ live' = live \ F!Released
        /\ dead' = (dead \/ F!ReleasedInVain)
        /\ UNCHANGED <<pc, todo, handles, kind, refs, temps, lost, unset>>
    BY <1>9 DEF F!ReleaseEventList
  <2>2. dead' \in BOOLEAN /\ (unset = FALSE /\ ~F!ReleasedInVain => dead' = FALSE)
    <3>1. unset = FALSE => dead = FALSE
      BY <1>0 DEF EventsInv
    <3> QED BY <1>0, <2>1, <3>1, Zenon
  <2>3. EventsInv'
    BY <1>0, <2>1, <2>2, ListReleased
  <2>4. TestsInv'
    BY <1>0, <2>1 DEF TestsInv
  <2> QED BY <1>0, <2>1, <2>3, <2>4 DEF FrameInv
<1>10. CASE F!Destroy
  <2>1. /\ pc = "open" /\ pc' = "none" /\ handles' = {} /\ events' = <<>>
        /\ refs' = refs \ handles
        /\ live' = IF kind.profiling THEN live \ F!Released ELSE live
        /\ dead' = (dead \/ ~(handles \subseteq refs) \/ (kind.profiling /\ F!ReleasedInVain))
        /\ UNCHANGED <<todo, kind, temps, lost, unset>>
    BY <1>10 DEF F!Destroy, F!Owned
  <2>2. live' = live \ F!Released
    <3>1. ~kind.profiling => F!Released = {}
      BY <1>0 DEF EventsInv, ListedOnce, F!Released, F!Range
    <3> QED BY <2>1, <3>1
  <2>3. dead' \in BOOLEAN /\ (unset = FALSE /\ ~F!ReleasedInVain => dead' = FALSE)
    <3>1. unset = FALSE => dead = FALSE
      BY <1>0 DEF EventsInv
    <3>2. handles \subseteq refs
      BY <1>0
    <3> QED BY <1>0, <2>1, <3>1, <3>2, Zenon
  <2>4. EventsInv'
    BY <1>0, <2>1, <2>2, <2>3, ListReleased
  <2>5. TestsInv'
    BY <1>0, <2>1 DEF TestsInv
  <2> QED BY <1>0, <2>1, <2>4, <2>5 DEF FrameInv
<1> QED BY <1>2, <1>3, <1>4, <1>5, <1>6, <1>7, <1>8, <1>9, <1>10 DEF F!Next

LEMMA FrameSafe == FrameInv => F!TypeOK /\ F!AllReleased /\ F!HandedOutExists
<1> SUFFICES ASSUME FrameInv PROVE F!TypeOK /\ F!AllReleased /\ F!HandedOutExists
  OBVIOUS
<1>0. kind \in F!Kind /\ TestsInv /\ EventsInv /\ handles = refs
  BY DEF FrameInv
<1>1. \E i \in 1..10 : i <= Len(Calls) + 1 /\ todo = SubSeq(Calls, i, Len(Calls))
  <2>1. Len(Calls) = 4 \/ Len(Calls) = 9
    BY <1>0, CallsAre
  <2>2. CASE pc = "test"
    <3>1. PICK i \in 1..Len(Calls) : todo = SubSeq(Calls, i, Len(Calls))
      BY <1>0, <2>2 DEF TestsInv
    <3>2. i \in 1..10 /\ i <= Len(Calls) + 1
      BY <2>1, <3>1
    <3> QED BY <3>1, <3>2
  <2>3. CASE pc # "test"
    <3>1. todo = <<>> /\ SubSeq(Calls, Len(Calls) + 1, Len(Calls)) = <<>>
      BY <1>0, <2>1, <2>3, SubSeqEmpty DEF TestsInv
    <3>2. CASE Len(Calls) = 4
      <4>1. 5 \in 1..10 /\ 5 <= Len(Calls) + 1 /\ todo = SubSeq(Calls, 5, Len(Calls))
        BY <3>1, <3>2
      <4> QED BY <4>1
    <3>3. CASE Len(Calls) = 9
      <4>1. 10 \in 1..10 /\ 10 <= Len(Calls) + 1 /\ todo = SubSeq(Calls, 10, Len(Calls))
        BY <3>1, <3>3
      <4> QED BY <4>1
    <3> QED BY <2>1, <3>2, <3>3
  <2> QED BY <2>2, <2>3
<1>2. temps \subseteq F!Temporary
  BY <1>0 DEF TestsInv
<1>3. F!TypeOK
  BY <1>0, <1>1, <1>2 DEF FrameInv, EventsInv, F!TypeOK, Calls
<1>4. F!AllReleased
  <2>1. pc = "none" => F!Released = {}
    BY <1>0 DEF EventsInv, ListedOnce, F!Released, F!Range
  <2> QED BY <1>0, <2>1 DEF FrameInv, TestsInv, EventsInv, F!AllReleased
<1>5. F!HandedOutExists
  BY <1>0 DEF EventsInv, F!HandedOutExists
<1> QED BY <1>3, <1>4, <1>5

-----------------------------------------------------------------------------
(***************************************************************************)
(* The OpenCL library.  The static objects that need the table of OpenCL's *)
(* functions come after it, and the table, if the functions of             *)
(* libvndksupport opened the library, after libvndksupport; so each is     *)
(* destroyed before what it needs.  What is open is known at each stage.   *)
(***************************************************************************)
Api == "OpenCLAPI" \in Elements(statics)
Vndk == "libvndksupport" \in Elements(statics)
SharedChain == {"frame chain", "frame chain of a queue"}

(* Each y in s comes after an x. *)
Behind(s, x, y) == \A i \in DOMAIN s : s[i] = y => \E j \in DOMAIN s : j < i /\ s[j] = x

LEMMA BehindPushed ==
  ASSUME NEW S, NEW s \in Seq(S), NEW z \in S, NEW x, NEW y, Behind(s, x, y),
         z = y => x \in Elements(s)
  PROVE  Behind(Append(s, z), x, y)
<1>1. /\ Len(Append(s, z)) = Len(s) + 1 /\ Append(s, z)[Len(s) + 1] = z
      /\ \A i \in 1..Len(s) : Append(s, z)[i] = s[i]
      /\ Append(s, z) \in Seq(S)
  BY AppendProperties
<1>2. /\ Len(s) \in Nat /\ DOMAIN s = 1..Len(s)
      /\ DOMAIN Append(s, z) = 1..(Len(s) + 1)
  BY <1>1, LenProperties
<1>3. SUFFICES ASSUME NEW i \in 1..(Len(s) + 1), Append(s, z)[i] = y
               PROVE  \E j \in 1..(Len(s) + 1) : j < i /\ Append(s, z)[j] = x
  BY <1>2 DEF Behind
<1>4. CASE i \in 1..Len(s)
  <2>1. PICK j \in 1..Len(s) : j < i /\ s[j] = x
    BY <1>1, <1>2, <1>3, <1>4 DEF Behind
  <2> QED BY <1>1, <1>2, <2>1
<1>5. CASE i = Len(s) + 1
  <2>1. PICK j \in 1..Len(s) : s[j] = x
    BY <1>1, <1>2, <1>3, <1>5 DEF Elements
  <2> QED BY <1>1, <1>2, <1>5, <2>1
<1> QED BY <1>2, <1>4, <1>5

LEMMA BehindPopped ==
  ASSUME NEW S, NEW s \in Seq(S), s # <<>>, NEW x, NEW y, Behind(s, x, y)
  PROVE  Behind(SubSeq(s, 1, Len(s) - 1), x, y)
<1> DEFINE f == SubSeq(s, 1, Len(s) - 1)
<1>1. Len(s) \in Nat /\ Len(s) >= 1 /\ DOMAIN s = 1..Len(s) /\ \A i \in 1..Len(s) : s[i] \in S
  BY LenProperties, EmptySeq, ElementOfSeq
<1>2. f \in Seq(S) /\ Len(f) = Len(s) - 1 /\ \A i \in 1..(Len(s) - 1) : f[i] = s[i]
  BY <1>1, SubSeqProperties
<1>3. DOMAIN f = 1..(Len(s) - 1)
  BY <1>2, LenProperties
<1> HIDE DEF f
<1>4. SUFFICES ASSUME NEW i \in 1..(Len(s) - 1), f[i] = y
               PROVE  \E j \in 1..(Len(s) - 1) : j < i /\ f[j] = x
  BY <1>3 DEF f, Behind
<1>5. PICK j \in 1..Len(s) : j < i /\ s[j] = x
  BY <1>1, <1>2, <1>4 DEF Behind
<1> QED BY <1>1, <1>2, <1>4, <1>5

(* What is behind is left without what it needs by nothing else. *)
LEMMA BehindLast ==
  ASSUME NEW S, NEW s \in Seq(S), s # <<>>, NEW x, Behind(s, x, s[Len(s)])
  PROVE  x \in Elements(s)
<1>1. Len(s) \in DOMAIN s
  BY LenProperties, EmptySeq
<1> QED BY <1>1 DEF Behind, Elements

(* What takes back the OpenCL library *)
Opener ==
  IF build = "Windows" THEN "LoadLibrary"
  ELSE IF isVndkSupportUsed = TRUE THEN vndk.load ELSE "dlopen"

LoaderTypes ==
  /\ build \in {"Android", "other", "Windows"}
  /\ stage \in {"main", "pixel", "enable", "alternatives", "symbols", "exit", "ended", "crashed"}
  /\ statics \in Seq(L!Static) /\ Distinct(statics)
  /\ libOpenCL \in BOOLEAN /\ isVndkSupportUsed \in BOOLEAN
  /\ symbols \subseteq L!Symbol
  /\ vndk \in [load : L!Loader, unload : L!Loader] /\ vndk.load = vndk.unload
  /\ pooled \in BOOLEAN /\ wrong \in BOOLEAN

StagesInv ==
  /\ stage \in {"pixel", "enable", "alternatives", "symbols"} => ~Api
  /\ stage \in {"pixel", "enable", "alternatives"} => libOpenCL = FALSE
  /\ stage \in {"pixel", "enable"} => build # "Windows"
  /\ stage = "main" /\ libOpenCL = TRUE => Api
  /\ stage = "symbols" => libOpenCL = TRUE /\ (isVndkSupportUsed = TRUE => Vndk)
  /\ isVndkSupportUsed = TRUE => libOpenCL = TRUE /\ build # "Windows"
  /\ symbols # {} => libOpenCL = TRUE
  /\ stage = "ended" => statics = <<>>
  /\ Careful /\ stage \in {"exit", "ended"} => pooled = FALSE

StaticsOrder ==
  /\ \A c \in SharedChain : /\ Behind(statics, "OpenCLAPI", c)
                            /\ c \in Elements(statics) => libOpenCL = TRUE
  /\ isVndkSupportUsed = TRUE => Behind(statics, "libvndksupport", "OpenCLAPI")

OpenInv ==
  /\ open \subseteq {<<"OpenCL", Opener>>, <<"vndksupport", "dlopen">>, <<"pixel", "dlopen">>}
  /\ <<"OpenCL", Opener>> \in open <=> libOpenCL = TRUE /\ (Api \/ stage = "symbols")
  /\ <<"vndksupport", "dlopen">> \in open => Vndk
  /\ Vndk /\ vndk.load = "sphal" => <<"vndksupport", "dlopen">> \in open
  /\ <<"pixel", "dlopen">> \in open <=> stage = "enable"

LoaderInv ==
  /\ LoaderTypes /\ StagesInv /\ StaticsOrder /\ OpenInv
  /\ Careful => wrong = FALSE

LEMMA LoaderInit == L!Init => LoaderInv
<1> SUFFICES ASSUME L!Init PROVE LoaderInv
  OBVIOUS
<1>1. Elements(<<>>) = {} /\ Distinct(<<>>) /\ <<>> \in Seq(L!Static) /\ \A x, y : Behind(<<>>, x, y)
  BY EmptySeq DEF Elements, Distinct, Behind
<1>2. LoaderTypes
  BY <1>1 DEF L!Init, LoaderTypes, L!Loader
<1>3. StagesInv /\ StaticsOrder
  BY <1>1 DEF L!Init, StagesInv, StaticsOrder, Api, Vndk
<1>4. OpenInv
  BY <1>1 DEF L!Init, OpenInv, Api, Vndk
<1> QED BY <1>2, <1>3, <1>4 DEF L!Init, LoaderInv

LEMMA Exist == \A s : L!Exists(s) <=> s \in Elements(statics)
BY DEF L!Exists, L!Range, Elements

(* A static object is constructed. *)
LEMMA Constructs ==
  ASSUME LoaderTypes, StaticsOrder, NEW s \in L!Static, s \notin Elements(statics),
         statics' = Append(statics, s),
         UNCHANGED <<libOpenCL, isVndkSupportUsed>>,
         s \in SharedChain => Api /\ libOpenCL = TRUE,
         s = "OpenCLAPI" /\ isVndkSupportUsed = TRUE => Vndk
  PROVE  /\ statics' \in Seq(L!Static) /\ Distinct(statics')
         /\ Elements(statics') = Elements(statics) \cup {s}
         /\ StaticsOrder'
<1>1. statics \in Seq(L!Static) /\ Distinct(statics)
  BY DEF LoaderTypes
<1>2. /\ statics' \in Seq(L!Static) /\ Distinct(statics')
      /\ Elements(statics') = Elements(statics) \cup {s}
  BY <1>1, Pushed
<1>3. ASSUME NEW c \in SharedChain
      PROVE  Behind(statics', "OpenCLAPI", c) /\ (c \in Elements(statics') => libOpenCL = TRUE)
  <2>1. Behind(statics, "OpenCLAPI", c) /\ (c \in Elements(statics) => libOpenCL = TRUE)
    BY <1>3 DEF StaticsOrder
  <2>2. s = c => "OpenCLAPI" \in Elements(statics) /\ libOpenCL = TRUE
    BY <1>3 DEF Api
  <2>3. Behind(statics', "OpenCLAPI", c)
    BY <1>1, <2>1, <2>2, BehindPushed
  <2> QED BY <1>2, <2>1, <2>2, <2>3
<1>4. isVndkSupportUsed = TRUE => Behind(statics', "libvndksupport", "OpenCLAPI")
  <2>1. SUFFICES ASSUME isVndkSupportUsed = TRUE
                 PROVE  Behind(statics', "libvndksupport", "OpenCLAPI")
    OBVIOUS
  <2>2. Behind(statics, "libvndksupport", "OpenCLAPI")
    BY <2>1 DEF StaticsOrder
  <2>3. s = "OpenCLAPI" => "libvndksupport" \in Elements(statics)
    BY <2>1 DEF Vndk
  <2> QED BY <1>1, <2>2, <2>3, BehindPushed
<1> QED BY <1>2, <1>3, <1>4 DEF StaticsOrder

LEMMA DifferentStatics ==
  /\ SharedChain \subseteq L!Static
  /\ "OpenCLAPI" \in L!Static \ SharedChain /\ "libvndksupport" \in L!Static \ SharedChain
  /\ "kernel_pool" \in L!Static \ SharedChain
BY DEF SharedChain, L!Static

LEMMA LoaderConstructs ==
  ASSUME LoaderInv,
         L!Instance \/ L!TryLibOpenCLPixel \/ L!EnableOpenCL \/ L!MakeVndkSupport
         \/ L!LoadAlternative \/ L!LoadSymbols
  PROVE  LoaderInv'
<1>0. LoaderTypes /\ StagesInv /\ StaticsOrder /\ OpenInv /\ (Careful => wrong = FALSE)
  BY DEF LoaderInv
<1>1. CASE L!Instance
  <2>1. /\ stage = "main" /\ ~Api /\ stage' \in {"alternatives", "pixel"}
        /\ stage' = "pixel" => build # "Windows"
        /\ UNCHANGED <<build, statics, libOpenCL, isVndkSupportUsed, symbols, vndk, open, pooled, wrong>>
    BY <1>1, Exist DEF L!Instance, L!apiVars, Api
  <2>2. (Api' <=> Api) /\ (Vndk' <=> Vndk) /\ Opener' = Opener
    BY <2>1 DEF Api, Vndk, Opener
  <2>3. LoaderTypes' /\ StagesInv' /\ StaticsOrder'
    BY <1>0, <2>1, <2>2 DEF LoaderTypes, StagesInv, StaticsOrder
  <2>4. OpenInv'
    BY <1>0, <2>1, <2>2 DEF OpenInv
  <2> QED BY <1>0, <2>1, <2>3, <2>4 DEF LoaderInv
<1>2. CASE L!TryLibOpenCLPixel
  <2>1. /\ stage = "pixel"
        /\ \/ stage' = "alternatives" /\ open' = open
           \/ stage' = "enable" /\ open' = open \cup {<<"pixel", "dlopen">>}
        /\ UNCHANGED <<build, statics, libOpenCL, isVndkSupportUsed, symbols, vndk, pooled, wrong>>
    BY <1>2 DEF L!TryLibOpenCLPixel, L!apiVars
  <2>2. (Api' <=> Api) /\ (Vndk' <=> Vndk) /\ Opener' = Opener
    BY <2>1 DEF Api, Vndk, Opener
  <2>3. LoaderTypes' /\ StagesInv' /\ StaticsOrder'
    BY <1>0, <2>1, <2>2 DEF LoaderTypes, StagesInv, StaticsOrder
  <2>4. OpenInv'
    BY <1>0, <2>1, <2>2 DEF OpenInv, StagesInv
  <2> QED BY <1>0, <2>1, <2>3, <2>4 DEF LoaderInv
<1>3. CASE L!EnableOpenCL
  <2>1. /\ stage = "enable"
        /\ UNCHANGED <<build, statics, isVndkSupportUsed, symbols, vndk, pooled, wrong>>
    BY <1>3 DEF L!EnableOpenCL
  <2>2. (Api' <=> Api) /\ (Vndk' <=> Vndk) /\ Opener' = Opener
    BY <2>1 DEF Api, Vndk, Opener
  <2>3. ~Api /\ libOpenCL = FALSE /\ isVndkSupportUsed = FALSE
    BY <1>0, <2>1 DEF StagesInv, LoaderTypes
  <2>4. CASE /\ stage' = "alternatives" /\ open' = open \ {<<"pixel", "dlopen">>}
             /\ libOpenCL' = libOpenCL
    <3>1. LoaderTypes' /\ StagesInv' /\ StaticsOrder'
      BY <1>0, <2>1, <2>2, <2>3, <2>4 DEF LoaderTypes, StagesInv, StaticsOrder
    <3>2. OpenInv'
      BY <1>0, <2>1, <2>2, <2>3, <2>4 DEF OpenInv
    <3> QED BY <1>0, <2>1, <3>1, <3>2 DEF LoaderInv
  <2>5. CASE /\ stage' = "symbols" /\ libOpenCL' = TRUE
             /\ open' = (open \ {<<"pixel", "dlopen">>}) \cup {<<"OpenCL", "dlopen">>}
    <3>1. LoaderTypes' /\ StagesInv' /\ StaticsOrder'
      BY <1>0, <2>1, <2>2, <2>3, <2>5 DEF LoaderTypes, StagesInv, StaticsOrder
    <3>2. Opener = "dlopen"
      BY <1>0, <2>1, <2>3 DEF Opener, StagesInv
    <3>3. OpenInv'
      BY <1>0, <2>1, <2>2, <2>3, <2>5, <3>2 DEF OpenInv
    <3> QED BY <1>0, <2>1, <3>1, <3>3 DEF LoaderInv
  <2> QED BY <1>3, <2>4, <2>5 DEF L!EnableOpenCL
<1>4. CASE L!MakeVndkSupport
  <2>1. /\ stage = "alternatives" /\ "libvndksupport" \notin Elements(statics)
        /\ statics' = Append(statics, "libvndksupport")
        /\ UNCHANGED <<build, stage, libOpenCL, isVndkSupportUsed, symbols, pooled, wrong>>
    BY <1>4, Exist DEF L!MakeVndkSupport
  <2>2. /\ vndk' \in [load : L!Loader, unload : L!Loader] /\ vndk'.load = vndk'.unload
        /\ open' \in {open, open \cup {<<"vndksupport", "dlopen">>}}
        /\ vndk'.load = "sphal" => open' = open \cup {<<"vndksupport", "dlopen">>}
    BY <1>4 DEF L!MakeVndkSupport, L!Loaders, L!Loader
  <2>3. ~Api /\ libOpenCL = FALSE /\ isVndkSupportUsed = FALSE
    BY <1>0, <2>1 DEF StagesInv, LoaderTypes
  <2>4. /\ statics' \in Seq(L!Static) /\ Distinct(statics')
        /\ Elements(statics') = Elements(statics) \cup {"libvndksupport"}
        /\ StaticsOrder'
    BY <1>0, <2>1, DifferentStatics, Constructs
  <2>5. (Api' <=> Api) /\ Vndk' /\ Opener' = Opener
    BY <2>1, <2>3, <2>4 DEF Api, Vndk, Opener
  <2>6. LoaderTypes' /\ StagesInv'
    BY <1>0, <2>1, <2>2, <2>3, <2>4, <2>5 DEF LoaderTypes, StagesInv
  <2>7. OpenInv'
    BY <1>0, <2>1, <2>2, <2>3, <2>5 DEF OpenInv
  <2> QED BY <1>0, <2>1, <2>4, <2>6, <2>7 DEF LoaderInv
<1>5. CASE L!LoadAlternative
  <2>1. /\ stage = "alternatives" /\ (build = "Windows" \/ Vndk)
        /\ UNCHANGED <<build, symbols, vndk, pooled, wrong>>
    BY <1>5, Exist DEF L!LoadAlternative, Vndk
  <2>2. ~Api /\ libOpenCL = FALSE /\ isVndkSupportUsed = FALSE /\ symbols = {}
    BY <1>0, <2>1 DEF StagesInv, LoaderTypes
  <2>3. CASE /\ stage' = "symbols" /\ libOpenCL' = TRUE
             /\ isVndkSupportUsed' = (build # "Windows")
             /\ open' = open \cup {<<"OpenCL", IF build = "Windows" THEN "LoadLibrary" ELSE vndk.load>>}
             /\ statics' = statics
    <3>1. (Api' <=> Api) /\ (Vndk' <=> Vndk)
      BY <2>3 DEF Api, Vndk
    <3>2. isVndkSupportUsed' \in BOOLEAN /\ (isVndkSupportUsed' = TRUE <=> build # "Windows")
      BY <2>3
    <3>3. open' = open \cup {<<"OpenCL", Opener'>>}
      BY <2>1, <2>3, <3>2 DEF Opener
    <3>4. Behind(statics', "libvndksupport", "OpenCLAPI")
      BY <2>2, <2>3 DEF Behind, Api, Elements
    <3>5. LoaderTypes' /\ StaticsOrder'
      BY <1>0, <2>1, <2>3, <3>2, <3>4 DEF LoaderTypes, StaticsOrder
    <3>6. StagesInv'
      BY <1>0, <2>1, <2>2, <2>3, <3>1, <3>2 DEF StagesInv
    <3>7. OpenInv'
      <4>1. open \subseteq {<<"vndksupport", "dlopen">>}
        BY <1>0, <2>1, <2>2 DEF OpenInv
      <4> QED BY <1>0, <2>1, <2>3, <3>1, <3>3, <4>1 DEF OpenInv
    <3> QED BY <1>0, <2>1, <3>5, <3>6, <3>7 DEF LoaderInv
  <2>4. CASE /\ stage' = "main" /\ statics' = Append(statics, "OpenCLAPI")
             /\ UNCHANGED <<libOpenCL, isVndkSupportUsed, open>>
    <3>1. /\ statics' \in Seq(L!Static) /\ Distinct(statics')
          /\ Elements(statics') = Elements(statics) \cup {"OpenCLAPI"}
          /\ StaticsOrder'
      BY <1>0, <2>2, <2>4, DifferentStatics, Constructs DEF Api
    <3>2. Api' /\ (Vndk' <=> Vndk) /\ Opener' = Opener
      BY <2>1, <2>4, <3>1 DEF Api, Vndk, Opener
    <3>3. LoaderTypes' /\ StagesInv'
      BY <1>0, <2>1, <2>2, <2>4, <3>1, <3>2 DEF LoaderTypes, StagesInv
    <3>4. OpenInv'
      BY <1>0, <2>1, <2>2, <2>4, <3>2 DEF OpenInv
    <3> QED BY <1>0, <2>1, <3>1, <3>3, <3>4 DEF LoaderInv
  <2> QED BY <1>5, <2>3, <2>4 DEF L!LoadAlternative
<1>6. CASE L!LoadSymbols
  <2>1. /\ stage = "symbols" /\ stage' = "main" /\ symbols' \subseteq L!Symbol
        /\ statics' = Append(statics, "OpenCLAPI")
        /\ UNCHANGED <<build, libOpenCL, isVndkSupportUsed, vndk, open, pooled, wrong>>
    BY <1>6 DEF L!LoadSymbols
  <2>2. ~Api /\ libOpenCL = TRUE /\ (isVndkSupportUsed = TRUE => Vndk)
    BY <1>0, <2>1 DEF StagesInv
  <2>3. /\ statics' \in Seq(L!Static) /\ Distinct(statics')
        /\ Elements(statics') = Elements(statics) \cup {"OpenCLAPI"}
        /\ StaticsOrder'
    BY <1>0, <2>1, <2>2, DifferentStatics, Constructs DEF Api
  <2>4. Api' /\ (Vndk' <=> Vndk) /\ Opener' = Opener
    BY <2>1, <2>3 DEF Api, Vndk, Opener
  <2>5. LoaderTypes' /\ StagesInv'
    BY <1>0, <2>1, <2>2, <2>3, <2>4 DEF LoaderTypes, StagesInv
  <2>6. OpenInv'
    BY <1>0, <2>1, <2>2, <2>4 DEF OpenInv
  <2> QED BY <1>0, <2>1, <2>3, <2>5, <2>6 DEF LoaderInv
<1> QED BY <1>1, <1>2, <1>3, <1>4, <1>5, <1>6

(* The program *)
LEMMA LoaderCalls ==
  ASSUME LoaderInv, NEW used \in SUBSET L!Symbol, NEW object \in {<<>>} \cup {<<c>> : c \in SharedChain},
         NEW kernels \in BOOLEAN, used # {}, L!Calls(used, object, kernels),
         \A c \in SharedChain : object = <<c>> => c \notin Elements(statics)
  PROVE  LoaderInv'
<1>0. LoaderTypes /\ StagesInv /\ StaticsOrder /\ OpenInv /\ (Careful => wrong = FALSE)
  BY DEF LoaderInv
<1>1. /\ stage = "main" /\ Api
      /\ UNCHANGED <<build, libOpenCL, isVndkSupportUsed, symbols, vndk, open, wrong>>
  BY Exist DEF L!Calls, L!apiVars, Api
<1>2. ASSUME UNCHANGED statics, pooled' \in BOOLEAN, stage' \in {stage, "crashed"}
      PROVE  LoaderInv'
  <2>1. (Api' <=> Api) /\ (Vndk' <=> Vndk) /\ Opener' = Opener
    BY <1>1, <1>2 DEF Api, Vndk, Opener
  <2>2. LoaderTypes' /\ StagesInv' /\ StaticsOrder'
    BY <1>0, <1>1, <1>2, <2>1 DEF LoaderTypes, StagesInv, StaticsOrder
  <2>3. OpenInv'
    BY <1>0, <1>1, <1>2, <2>1 DEF OpenInv
  <2> QED BY <1>0, <1>1, <2>2, <2>3 DEF LoaderInv
<1>3. CASE ~(used \subseteq symbols)
  BY <1>0, <1>2, <1>3 DEF L!Calls, LoaderTypes
<1>4. CASE used \subseteq symbols
  <2>1. statics' = statics \o object /\ pooled' = kernels /\ stage' = stage
    BY <1>4 DEF L!Calls
  <2>2. CASE object = <<>>
    <3>1. statics' = statics
      BY <1>0, <2>1, <2>2, ConcatEmptySeq DEF LoaderTypes
    <3> QED BY <1>2, <2>1, <3>1
  <2>3. CASE \E c \in SharedChain : object = <<c>>
    <3>1. PICK c \in SharedChain : object = <<c>>
      BY <2>3
    <3>2. c \in L!Static /\ c \notin Elements(statics) /\ statics' = Append(statics, c)
      BY <1>0, <2>1, <3>1, DifferentStatics, AppendIsConcat DEF LoaderTypes
    <3>3. symbols # {} /\ libOpenCL = TRUE
      BY <1>0, <1>4 DEF StagesInv
    <3>4. c # "OpenCLAPI" /\ c # "libvndksupport"
      BY DifferentStatics
    <3>5. /\ statics' \in Seq(L!Static) /\ Distinct(statics')
          /\ Elements(statics') = Elements(statics) \cup {c}
          /\ StaticsOrder'
      BY <1>0, <1>1, <3>2, <3>3, <3>4, Constructs
    <3>6. (Api' <=> Api) /\ (Vndk' <=> Vndk) /\ Opener' = Opener
      BY <1>1, <3>4, <3>5 DEF Api, Vndk, Opener
    <3>7. LoaderTypes' /\ StagesInv'
      BY <1>0, <1>1, <2>1, <3>5, <3>6 DEF LoaderTypes, StagesInv
    <3>8. OpenInv'
      BY <1>0, <1>1, <2>1, <3>6 DEF OpenInv
    <3> QED BY <1>0, <1>1, <3>5, <3>7, <3>8 DEF LoaderInv
  <2> QED BY <2>2, <2>3
<1> QED BY <1>3, <1>4

(* The end of the program *)
LEMMA LoaderDestroys ==
  ASSUME LoaderInv, L!Destroy
  PROVE  LoaderInv'
<1> DEFINE last == statics[Len(statics)]
<1>0. /\ LoaderTypes /\ StagesInv /\ StaticsOrder /\ OpenInv /\ (Careful => wrong = FALSE)
      /\ statics \in Seq(L!Static) /\ Distinct(statics)
  BY DEF LoaderInv, LoaderTypes
<1>1. /\ stage = "exit" /\ statics # <<>> /\ statics' = SubSeq(statics, 1, Len(statics) - 1)
      /\ UNCHANGED <<build, stage, libOpenCL, isVndkSupportUsed, symbols, vndk, pooled>>
  BY DEF L!Destroy, L!apiVars
<1>2. /\ statics' \in Seq(L!Static) /\ last \in L!Static /\ Distinct(statics')
      /\ Elements(statics') = Elements(statics) \ {last} /\ last \in Elements(statics)
  BY <1>0, <1>1, Popped
<1>3. StaticsOrder'
  <2>1. \A x, y : Behind(statics, x, y) => Behind(statics', x, y)
    BY <1>0, <1>1, BehindPopped
  <2> QED BY <1>0, <1>1, <1>2, <2>1 DEF StaticsOrder
<1>4. wrong' \in BOOLEAN => LoaderTypes'
  BY <1>0, <1>1, <1>2 DEF LoaderTypes
<1>5. StagesInv'
  BY <1>0, <1>1 DEF StagesInv
<1>6. Opener' = Opener /\ (Api' <=> Api /\ last # "OpenCLAPI") /\ (Vndk' <=> Vndk /\ last # "libvndksupport")
  BY <1>1, <1>2 DEF Opener, Api, Vndk
<1>7. ASSUME open' = open, last # "libvndksupport", last = "OpenCLAPI" => libOpenCL = FALSE
      PROVE  OpenInv'
  BY <1>0, <1>1, <1>6, <1>7 DEF OpenInv
<1> DEFINE lib == <<"OpenCL", Opener>>
           support == <<"vndksupport", "dlopen">>
<1>8. CASE last = "OpenCLAPI"
  <2>0. L!UnloadsOpenCL /\ Api
    BY <1>2, <1>8 DEF L!Destroy, L!Latest, Api
  <2>1. CASE libOpenCL = FALSE
    <3>1. open' = open /\ wrong' = wrong
      BY <2>0, <2>1 DEF L!UnloadsOpenCL
    <3> QED BY <1>0, <1>3, <1>4, <1>5, <1>7, <1>8, <2>1, <3>1 DEF LoaderInv, LoaderTypes
  <2>2. CASE libOpenCL = TRUE
    <3>1. lib \in open
      BY <1>0, <2>0, <2>2 DEF OpenInv
    <3>2. /\ open' = open \ {lib}
          /\ wrong' \in BOOLEAN /\ (wrong = FALSE => wrong' = FALSE)
      <4>1. CASE isVndkSupportUsed = TRUE
        <5>1. Opener = vndk.unload /\ build # "Windows" /\ vndk.load = vndk.unload
          BY <1>0, <4>1 DEF Opener, LoaderTypes, StagesInv
        <5>2. Vndk
          <6>1. Behind(statics, "libvndksupport", last)
            BY <1>0, <1>8, <4>1 DEF StaticsOrder
          <6> QED BY <1>0, <1>1, <6>1, BehindLast DEF Vndk
        <5>3. L!Exists("libvndksupport") /\ (vndk.unload = "sphal" => support \in open)
          BY <1>0, <5>1, <5>2, Exist DEF Vndk, OpenInv
        <5>4. /\ open' = open \ {<<"OpenCL", vndk.unload>>}
              /\ wrong' = (\/ wrong
                           \/ <<"OpenCL", vndk.unload>> \notin open
                           \/ ~L!Exists("libvndksupport")
                           \/ vndk.unload = "sphal" /\ support \notin open)
          BY <2>0, <2>2, <4>1 DEF L!UnloadsOpenCL, L!UnloadsByVndk
        <5>5. wrong' = wrong \/ wrong' = FALSE
          BY <3>1, <5>1, <5>3, <5>4, Zenon
        <5> QED BY <1>0, <5>1, <5>4, <5>5 DEF LoaderTypes
      <4>2. CASE isVndkSupportUsed = FALSE
        <5>1. Opener = IF build = "Windows" THEN "LoadLibrary" ELSE "dlopen"
          BY <4>2 DEF Opener
        <5>2. /\ open' = open \ {lib}
              /\ wrong' = (wrong \/ lib \notin open)
          BY <2>0, <2>2, <4>2, <5>1 DEF L!UnloadsOpenCL, L!Closes
        <5>3. wrong' = wrong \/ wrong' = FALSE
          BY <3>1, <5>2, Zenon
        <5> QED BY <1>0, <5>2, <5>3 DEF LoaderTypes
      <4> QED BY <1>0, <4>1, <4>2 DEF LoaderTypes
    <3>3. OpenInv'
      BY <1>0, <1>1, <1>6, <1>8, <3>2 DEF OpenInv
    <3> QED BY <1>0, <1>3, <1>4, <1>5, <3>2, <3>3 DEF LoaderInv
  <2> QED BY <1>0, <2>1, <2>2 DEF LoaderTypes
<1>9. CASE last = "libvndksupport"
  <2>1. L!ClosesVndkSupport /\ Vndk
    BY <1>2, <1>9 DEF L!Destroy, L!Latest, Vndk
  <2>2. open' = open \ {support} /\ wrong' = wrong
    <3>1. CASE support \in open
      <4>1. open' = open \ {support} /\ wrong' = (wrong \/ support \notin open)
        BY <2>1, <3>1 DEF L!ClosesVndkSupport, L!Closes
      <4>2. wrong \in BOOLEAN
        BY <1>0 DEF LoaderTypes
      <4>3. wrong' = wrong
        BY <3>1, <4>1, <4>2, Zenon
      <4> QED BY <4>1, <4>3
    <3>2. CASE support \notin open
      BY <2>1, <3>2 DEF L!ClosesVndkSupport
    <3> QED BY <3>1, <3>2
  <2>3. OpenInv'
    BY <1>0, <1>1, <1>6, <1>9, <2>2 DEF OpenInv
  <2> QED BY <1>0, <1>3, <1>4, <1>5, <2>2, <2>3 DEF LoaderInv, LoaderTypes
<1>10. CASE last = "kernel_pool"
  <2>1. IF pooled THEN L!ReleasesObjects ELSE UNCHANGED <<open, wrong>>
    BY <1>10 DEF L!Destroy, L!Latest
  <2>2. open' = open
    BY <2>1 DEF L!ReleasesObjects
  <2>3. wrong' \in BOOLEAN
    BY <1>0, <2>1 DEF L!ReleasesObjects, LoaderTypes
  <2>4. Careful => wrong' = FALSE
    <3>1. Careful => pooled = FALSE
      BY <1>0, <1>1 DEF StagesInv
    <3> QED BY <1>0, <2>1, <3>1
  <2> QED BY <1>3, <1>4, <1>5, <1>7, <1>10, <2>2, <2>3, <2>4 DEF LoaderInv
<1>11. CASE last \in SharedChain
  <2>1. last # "OpenCLAPI" /\ last # "libvndksupport" /\ last # "kernel_pool"
    BY <1>11, DifferentStatics
  <2>2. L!ReleasesObjects
    BY <2>1 DEF L!Destroy, L!Latest
  <2>3. Api /\ libOpenCL = TRUE
    <3>1. Behind(statics, "OpenCLAPI", last) /\ libOpenCL = TRUE
      BY <1>0, <1>2, <1>11 DEF StaticsOrder
    <3> QED BY <1>0, <1>1, <3>1, BehindLast DEF Api
  <2>4. lib \in open /\ Opener \in L!Loader
    BY <1>0, <2>3 DEF OpenInv, Opener, LoaderTypes, L!Loader
  <2>5. /\ open' = open
        /\ wrong' = (wrong \/ ~L!Exists("OpenCLAPI") \/ \A l \in L!Loader : <<"OpenCL", l>> \notin open)
    BY <2>2 DEF L!ReleasesObjects
  <2>6. wrong \in BOOLEAN /\ L!Exists("OpenCLAPI") /\ ~(\A l \in L!Loader : <<"OpenCL", l>> \notin open)
    BY <1>0, <2>3, <2>4, Exist DEF LoaderTypes, Api
  <2>7. wrong' = wrong
    BY <2>5, <2>6, Zenon
  <2> QED BY <1>0, <1>3, <1>4, <1>5, <1>7, <2>1, <2>5, <2>6, <2>7 DEF LoaderInv
<1>12. last \in {"OpenCLAPI", "libvndksupport", "kernel_pool"} \cup SharedChain
  BY <1>2 DEF L!Static, SharedChain
<1> QED BY <1>8, <1>9, <1>10, <1>11, <1>12

LEMMA LoaderNext == LoaderInv /\ L!Next => LoaderInv'
<1> SUFFICES ASSUME LoaderInv, L!Next PROVE LoaderInv'
  OBVIOUS
<1>0. LoaderTypes /\ StagesInv /\ StaticsOrder /\ OpenInv /\ (Careful => wrong = FALSE)
  BY DEF LoaderInv
<1>1. CASE L!MakePool
  <2>1. /\ stage = "main" /\ "kernel_pool" \notin Elements(statics)
        /\ statics' = Append(statics, "kernel_pool")
        /\ UNCHANGED <<build, stage, libOpenCL, isVndkSupportUsed, symbols, vndk, open, pooled, wrong>>
    BY <1>1, Exist DEF L!MakePool, L!apiVars
  <2>2. /\ statics' \in Seq(L!Static) /\ Distinct(statics')
        /\ Elements(statics') = Elements(statics) \cup {"kernel_pool"}
        /\ StaticsOrder'
    BY <1>0, <2>1, DifferentStatics, Constructs
  <2>3. (Api' <=> Api) /\ (Vndk' <=> Vndk) /\ Opener' = Opener
    BY <2>1, <2>2 DEF Api, Vndk, Opener
  <2>4. LoaderTypes' /\ StagesInv'
    BY <1>0, <2>1, <2>2, <2>3 DEF LoaderTypes, StagesInv
  <2>5. OpenInv'
    BY <1>0, <2>1, <2>3 DEF OpenInv
  <2> QED BY <1>0, <2>1, <2>2, <2>4, <2>5 DEF LoaderInv
<1>2. CASE L!InsertKernelToPool
  <2>1. {"OpenCL 1.2"} \in SUBSET L!Symbol /\ \A c \in SharedChain : <<>> # <<c>>
    BY DEF L!Symbol
  <2> QED BY <1>2, <2>1, LoaderCalls DEF L!InsertKernelToPool
<1>3. CASE L!RemoveAllKernelsFromPool
  <2>1. {"OpenCL 1.2"} \in SUBSET L!Symbol /\ \A c \in SharedChain : <<>> # <<c>>
    BY DEF L!Symbol
  <2> QED BY <1>3, <2>1, LoaderCalls DEF L!RemoveAllKernelsFromPool
<1>4. CASE L!CreateSharedFrameChain
  <2>1. PICK c \in SharedChain, used \in SUBSET L!Symbol :
          c \notin Elements(statics) /\ used # {} /\ L!Calls(used, <<c>>, pooled)
    BY <1>4, Exist DEF L!CreateSharedFrameChain, SharedChain
  <2>2. pooled \in BOOLEAN /\ \A d \in SharedChain : <<c>> = <<d>> => c = d
    BY <1>0 DEF LoaderTypes
  <2>3. \A d \in SharedChain : <<c>> = <<d>> => d \notin Elements(statics)
    BY <2>1, <2>2
  <2> QED BY <2>1, <2>2, <2>3, LoaderCalls
<1>5. CASE L!Exit
  <2>1. /\ stage = "main" /\ (Careful => ~pooled) /\ stage' = "exit"
        /\ UNCHANGED <<build, statics, libOpenCL, isVndkSupportUsed, symbols, vndk, open, pooled, wrong>>
    BY <1>5 DEF L!Exit, L!apiVars
  <2>2. (Api' <=> Api) /\ (Vndk' <=> Vndk) /\ Opener' = Opener
    BY <2>1 DEF Api, Vndk, Opener
  <2>3. Careful => pooled = FALSE
    BY <1>0, <2>1 DEF LoaderTypes
  <2>4. LoaderTypes' /\ StagesInv' /\ StaticsOrder'
    BY <1>0, <2>1, <2>2, <2>3 DEF LoaderTypes, StagesInv, StaticsOrder
  <2>5. OpenInv'
    BY <1>0, <2>1, <2>2 DEF OpenInv
  <2> QED BY <1>0, <2>1, <2>4, <2>5 DEF LoaderInv
<1>6. CASE L!End
  <2>1. /\ stage = "exit" /\ statics = <<>> /\ stage' = "ended"
        /\ UNCHANGED <<build, statics, libOpenCL, isVndkSupportUsed, symbols, vndk, open, pooled, wrong>>
    BY <1>6 DEF L!End, L!apiVars
  <2>2. (Api' <=> Api) /\ (Vndk' <=> Vndk) /\ Opener' = Opener
    BY <2>1 DEF Api, Vndk, Opener
  <2>4. LoaderTypes' /\ StagesInv' /\ StaticsOrder'
    BY <1>0, <2>1, <2>2 DEF LoaderTypes, StagesInv, StaticsOrder
  <2>5. OpenInv'
    BY <1>0, <2>1, <2>2 DEF OpenInv
  <2> QED BY <1>0, <2>1, <2>4, <2>5 DEF LoaderInv
<1> QED BY <1>1, <1>2, <1>3, <1>4, <1>5, <1>6, LoaderConstructs, LoaderDestroys DEF L!Next

LEMMA LoaderSafe == LoaderInv => L!TypeOK /\ (Careful => L!LibrariesKept)
<1> SUFFICES ASSUME LoaderInv PROVE L!TypeOK /\ (Careful => L!LibrariesKept)
  OBVIOUS
<1>0. LoaderTypes /\ StagesInv /\ StaticsOrder /\ OpenInv /\ (Careful => wrong = FALSE)
  BY DEF LoaderInv
<1>1. L!Range(statics) \subseteq L!Static /\ L!IsInjective(statics)
  <2>1. statics \in Seq(L!Static) /\ Distinct(statics)
    BY <1>0 DEF LoaderTypes
  <2>2. \A i \in DOMAIN statics : statics[i] \in L!Static
    BY <2>1, ElementOfSeq, LenProperties
  <2> QED BY <2>1, <2>2 DEF Distinct, L!Range, L!IsInjective
<1>2. Opener \in L!Loader
  BY <1>0 DEF Opener, LoaderTypes, L!Loader
<1>3. open \subseteq ({"OpenCL", "pixel", "vndksupport"} \X L!Loader)
  BY <1>0, <1>2 DEF OpenInv, L!Loader
<1>4. L!TypeOK
  BY <1>0, <1>1, <1>3 DEF LoaderTypes, L!TypeOK
<1>5. stage = "ended" => open = {}
  <2>1. SUFFICES ASSUME stage = "ended" PROVE open = {}
    OBVIOUS
  <2>2. ~Api /\ ~Vndk
    BY <1>0, <2>1, EmptySeq DEF StagesInv, Api, Vndk, Elements
  <2> QED BY <1>0, <2>1, <2>2 DEF OpenInv
<1> QED BY <1>0, <1>4, <1>5 DEF L!LibrariesKept

-----------------------------------------------------------------------------
(***************************************************************************)
(* What a frame chain finds out about its GPU.  Until it has asked, it     *)
(* supports nothing; what it supports and the options are in step, and     *)
(* are what the GPU says unless the stack was searched.                    *)
(***************************************************************************)
PlatformTypes == {"QCOM", "ARM", "INTEL", "invalid"}
Option == E!Macro \cup {E!Vendor(t) : t \in PlatformTypes}
Hints == {"normal", "high", "low"}
Contexts == {<<"none">>, <<"printf">>, <<"plain">>} \cup {<<"hints", x, y>> : x, y \in Hints}
QueueProperties == {"profiling", "out of order"}

ChainRecord ==
  [gpu : Gpu, platform_type0 : PlatformTypes, asked : BOOLEAN, misread : BOOLEAN,
   supports : SUBSET E!Feature, defaults : SUBSET Option, options : SUBSET Option,
   context : Contexts, queue : SUBSET QueueProperties, profiling : BOOLEAN]

ShuffleAndRotate == {"shuffle", "rotate"}

\* These options follow from what a chain of this type supports.
OptionsInStep(c, o) ==
  /\ o \subseteq E!Macro \cup {E!Vendor(c.platform_type0)}
  /\ o \cap ShuffleAndRotate \subseteq c.supports
  /\ "intel enhanced" \in o => c.platform_type0 = "INTEL"

Says(c) ==
  LET has == E!Found(GpuExtensions[c.gpu])
  IN  /\ c.asked = FALSE => c.supports = {}
      /\ c.asked = TRUE => c.platform_type0 = E!PlatformType(GpuVendor[c.gpu])
      /\ c.asked = TRUE /\ c.misread = FALSE =>
           /\ c.supports = E!Supported(c.platform_type0, has)
           /\ c.supports \cap E!Macro = c.defaults \cap ShuffleAndRotate
      /\ c.misread = FALSE /\ c.context[1] = "hints" => E!IfSupportQcomHints(has)

ChainSound(c) ==
  /\ c \in ChainRecord /\ OptionsInStep(c, c.defaults) /\ OptionsInStep(c, c.options) /\ Says(c)
  /\ c.asked = FALSE => c.defaults = {} /\ c.options = {}
  /\ c.profiling = TRUE => "profiling" \in c.queue

ExtensionsInv == frame # <<>> => ChainSound(frame)

LEMMA FreshSound ==
  ASSUME NEW g \in Gpu
  PROVE  ChainSound(E!Fresh(g))
<1> DEFINE c == E!Fresh(g)
<1>1. c \in ChainRecord
  <2>1. "invalid" \in PlatformTypes /\ <<"none">> \in Contexts
    BY DEF PlatformTypes, Contexts
  <2>2. {} \in SUBSET E!Feature /\ {} \in SUBSET Option /\ {} \in SUBSET QueueProperties
    OBVIOUS
  <2> QED BY <2>1, <2>2 DEF E!Fresh, ChainRecord
<1>2. c.context[1] # "hints"
  BY DEF E!Fresh
<1> QED BY <1>1, <1>2 DEF E!Fresh, ChainSound, OptionsInStep, Says

LEMMA TypesOfPlatform ==
  ASSUME NEW v
  PROVE  E!PlatformType(v) \in PlatformTypes
BY DEF E!PlatformType, PlatformTypes

LEMMA VendorNoMacro ==
  ASSUME NEW t
  PROVE  E!Vendor(t) \notin E!Macro
BY DEF E!Vendor, E!Macro

LEMMA MacrosInStep ==
  ASSUME NEW t, NEW found
  PROVE  /\ E!Macros(t, found) \subseteq E!Macro \cup {E!Vendor(t)}
         /\ E!Macros(t, found) \cap ShuffleAndRotate = E!Supported(t, found) \cap E!Macro
         /\ "intel enhanced" \in E!Macros(t, found) => t = "INTEL"
         /\ E!Supported(t, found) \subseteq E!Feature
<1> DEFINE s == E!Supported(t, found)
           v == E!Vendor(t)
<1>1. s \subseteq E!Feature
  BY DEF E!Supported
<1>2. v \notin E!Macro
  BY VendorNoMacro
<1>3. E!Macros(t, found) =
        {v} \cup {m \in {"shuffle", "rotate"} : m \in s}
        \cup (IF t = "INTEL" /\ "cl_intel_subgroups" \in found THEN {"intel enhanced"} ELSE {})
  BY DEF E!Macros
<1> HIDE DEF s, v
<1>4. s \cap E!Macro = {m \in {"shuffle", "rotate"} : m \in s}
  BY <1>1 DEF E!Macro, E!Feature
<1>5. E!Macros(t, found) \cap ShuffleAndRotate = {m \in {"shuffle", "rotate"} : m \in s}
  BY <1>2, <1>3 DEF E!Macro, ShuffleAndRotate
<1>6. E!Macros(t, found) \subseteq E!Macro \cup {v}
  BY <1>3 DEF E!Macro
<1>7. "intel enhanced" \in E!Macros(t, found) => t = "INTEL"
  BY <1>2, <1>3 DEF E!Macro
<1> QED BY <1>1, <1>4, <1>5, <1>6, <1>7 DEF s, v

(* What get_extention_info leaves sound *)
LEMMA AskedSound ==
  ASSUME NEW c, ChainSound(c), NEW found
  PROVE  ChainSound(E!GetExtentionInfo(c, found))
<1> DEFINE type == E!PlatformType(GpuVendor[c.gpu])
           has == E!Found(GpuExtensions[c.gpu])
           s == E!Supported(type, found)
           d == E!Macros(type, found)
           n == E!GetExtentionInfo(c, found)
<1>1. n = [c EXCEPT !.platform_type0 = type, !.asked = TRUE,
             !.misread = @ \/ found # has, !.supports = @ \cup s, !.defaults = d]
  BY DEF E!GetExtentionInfo
<1>2. /\ d \subseteq E!Macro \cup {E!Vendor(type)}
      /\ d \cap ShuffleAndRotate = s \cap E!Macro
      /\ "intel enhanced" \in d => type = "INTEL"
      /\ s \subseteq E!Feature
  BY MacrosInStep
<1>3. type \in PlatformTypes
  BY TypesOfPlatform
<1>4. (c.asked = FALSE /\ c.options = {}) \/ c.platform_type0 = type
  BY DEF ChainSound, ChainRecord, Says
<1>5. c.options \subseteq E!Macro \cup {E!Vendor(type)}
  BY <1>4 DEF ChainSound, OptionsInStep
<1>6. found = has => s = E!Supported(type, has)
  OBVIOUS
<1> HIDE DEF type, has, s, d, n
<1>7. /\ n.gpu = c.gpu /\ n.platform_type0 = type /\ n.asked = TRUE
      /\ n.supports = c.supports \cup s /\ n.defaults = d /\ n.options = c.options
      /\ n.context = c.context /\ n.queue = c.queue /\ n.profiling = c.profiling
  BY <1>1 DEF ChainSound, ChainRecord
<1>8. n.misread = FALSE => c.misread = FALSE /\ found = has
  BY <1>1 DEF ChainSound, ChainRecord
<1>9. n \in ChainRecord
  <2>1. (c.misread \/ found # has) \in BOOLEAN
    OBVIOUS
  <2>2. c.supports \cup s \in SUBSET E!Feature
    BY <1>2 DEF ChainSound, ChainRecord
  <2>3. d \in SUBSET Option
    BY <1>2, <1>3 DEF Option
  <2> QED BY <1>1, <1>3, <2>1, <2>2, <2>3 DEF ChainSound, ChainRecord
<1>10. OptionsInStep(n, n.defaults)
  BY <1>2, <1>7 DEF OptionsInStep
<1>11. OptionsInStep(n, n.options)
  <2>1. c.options \subseteq E!Macro \cup {E!Vendor(type)}
    BY <1>5
  <2>2. c.options \cap ShuffleAndRotate \subseteq c.supports
    BY DEF ChainSound, OptionsInStep
  <2>3. "intel enhanced" \in c.options => type = "INTEL"
    BY <1>4 DEF ChainSound, OptionsInStep
  <2> QED BY <1>7, <2>1, <2>2, <2>3 DEF OptionsInStep
<1>12. Says(n)
  <2>1. n.misread = FALSE => n.supports = E!Supported(type, has)
    <3>1. c.misread = FALSE /\ c.asked = TRUE => c.supports = E!Supported(type, has)
      BY <1>4 DEF ChainSound, Says, has
    <3>2. c.asked = FALSE => c.supports = {}
      BY DEF ChainSound, Says
    <3>3. c.asked \in BOOLEAN
      BY DEF ChainSound, ChainRecord
    <3> QED BY <1>6, <1>7, <1>8, <3>1, <3>2, <3>3
  <2>2. n.misread = FALSE => n.supports \cap E!Macro = n.defaults \cap ShuffleAndRotate
    BY <1>2, <1>6, <1>7, <1>8, <2>1
  <2>3. n.misread = FALSE /\ n.context[1] = "hints" => E!IfSupportQcomHints(has)
    BY <1>7, <1>8 DEF ChainSound, Says, has
  <2> QED BY <1>7, <2>1, <2>2, <2>3 DEF Says, has, type
<1>13. (n.asked = FALSE => n.defaults = {} /\ n.options = {})
       /\ (n.profiling = TRUE => "profiling" \in n.queue)
  BY <1>7 DEF ChainSound
<1> QED BY <1>9, <1>10, <1>11, <1>12, <1>13 DEF ChainSound, n

LEMMA ExtensionsInit == E!Init => ExtensionsInv
BY DEF E!Init, ExtensionsInv

LEMMA ExtensionsNext ==
  ASSUME ExtensionsInv, E!Next
  PROVE  ExtensionsInv'
<1>1. CASE E!CreateDefault
  <2>1. PICK perf \in {-1, 0, 1}, priority \in {-1, 0, 1} : frame' \in E!DefaultChains(perf, priority)
    BY <1>1 DEF E!CreateDefault
  <2> DEFINE g == DefaultGpu
             with(hints) == E!WithContext(g, perf, priority, hints)
  <2>2. ChainSound(E!Fresh(g))
    BY FreshSound, GpuAssumption
  <2>3. ASSUME NEW hints PROVE ChainSound(with(hints))
    <3> DEFINE c == E!Fresh(g)
               p == E!ContextProperties(g, perf, priority, hints)
               w == with(hints)
    <3>1. /\ p \in {<<"printf">>, <<"plain">>} \cup
                   {<<"hints", x, y>> : x, y \in {"normal", "high", "low"}}
          /\ p[1] = "hints" => E!IfSupportQcomHints(hints)
      <4>1. E!Taken(perf) \in {"normal", "high", "low"} /\ E!Taken(priority) \in {"normal", "high", "low"}
        BY DEF E!Taken
      <4> QED BY <4>1 DEF E!ContextProperties
    <3> HIDE DEF p
    <3>2. w = [c EXCEPT !.context = p, !.misread = hints # E!Found(GpuExtensions[g])]
      BY DEF p, E!WithContext
    <3>3. c.gpu = g /\ c.asked = FALSE /\ DOMAIN c = DOMAIN E!Fresh(DefaultGpu)
      BY DEF E!Fresh
    <3> HIDE DEF c, w
    <3>4. /\ w.gpu = c.gpu /\ w.platform_type0 = c.platform_type0 /\ w.asked = c.asked
          /\ w.supports = c.supports /\ w.defaults = c.defaults /\ w.options = c.options
          /\ w.context = p /\ w.queue = c.queue /\ w.profiling = c.profiling
          /\ w.misread = (hints # E!Found(GpuExtensions[g]))
      BY <2>2, <3>2 DEF ChainSound, ChainRecord, c
    <3>5. w \in ChainRecord
      <4>1. (hints # E!Found(GpuExtensions[g])) \in BOOLEAN
        OBVIOUS
      <4>2. p \in Contexts
        BY <3>1 DEF Contexts, Hints
      <4> QED BY <2>2, <3>2, <4>1, <4>2 DEF ChainSound, ChainRecord, c
    <3>6. OptionsInStep(w, w.defaults) /\ OptionsInStep(w, w.options)
      BY <2>2, <3>4 DEF ChainSound, OptionsInStep, c
    <3>7. Says(w)
      <4>1. c.supports = {} /\ c.asked = FALSE
        BY <2>2, <3>3 DEF ChainSound, Says, c
      <4>2. w.misread = FALSE /\ w.context[1] = "hints" => E!IfSupportQcomHints(E!Found(GpuExtensions[g]))
        <5>1. w.misread = FALSE => hints = E!Found(GpuExtensions[g])
          BY <3>4
        <5>2. w.context[1] = "hints" => E!IfSupportQcomHints(hints)
          BY <3>1, <3>4
        <5> QED BY <5>1, <5>2
      <4> QED BY <3>3, <3>4, <4>1, <4>2 DEF Says
    <3>8. (w.asked = FALSE => w.defaults = {} /\ w.options = {})
          /\ (w.profiling = TRUE => "profiling" \in w.queue)
      BY <2>2, <3>4 DEF ChainSound, c
    <3> QED BY <3>5, <3>6, <3>7, <3>8 DEF ChainSound, w
  <2>4. frame' \in {E!Fresh(g)} \cup
          {E!GetExtentionInfo(with(hints), found) : hints \in E!Queried(g), found \in E!Queried(g)}
    BY <2>1 DEF E!DefaultChains
  <2> HIDE DEF with, g
  <2>5. ChainSound(frame')
    BY <2>2, <2>3, <2>4, AskedSound
  <2> QED BY <2>5 DEF ExtensionsInv
<1>2. CASE E!CreateFromQueue
  <2>1. PICK g \in Gpu, properties \in SUBSET {"profiling", "out of order"} :
          frame' \in E!QueueChains(g, properties)
    BY <1>2 DEF E!CreateFromQueue
  <2> DEFINE of(p) == E!OfQueue(g, properties, p)
  <2>2. ASSUME NEW p \in BOOLEAN, p = TRUE => "profiling" \in properties
        PROVE  ChainSound(of(p))
    <3> DEFINE c == E!Fresh(g)
               w == of(p)
    <3>1. ChainSound(c)
      BY FreshSound
    <3> HIDE DEF c
    <3>2. /\ w.gpu = c.gpu /\ w.platform_type0 = c.platform_type0 /\ w.asked = c.asked
          /\ w.supports = c.supports /\ w.defaults = c.defaults /\ w.options = c.options
          /\ w.context = c.context /\ w.queue = properties /\ w.profiling = p
          /\ w.misread = c.misread
      BY <3>1 DEF ChainSound, ChainRecord, c, E!OfQueue
    <3>3. w \in ChainRecord
      <4>1. w = [c EXCEPT !.queue = properties, !.profiling = p]
        BY DEF c, E!OfQueue
      <4>2. properties \in SUBSET QueueProperties
        BY DEF QueueProperties
      <4> QED BY <3>1, <4>1, <4>2 DEF ChainSound, ChainRecord
    <3> HIDE DEF w
    <3>4. OptionsInStep(w, w.defaults) /\ OptionsInStep(w, w.options)
      BY <3>1, <3>2 DEF ChainSound, OptionsInStep
    <3>5. Says(w)
      BY <3>1, <3>2 DEF ChainSound, Says
    <3>6. (w.asked = FALSE => w.defaults = {} /\ w.options = {})
          /\ (w.profiling = TRUE => "profiling" \in w.queue)
      BY <2>2, <3>1, <3>2 DEF ChainSound
    <3> QED BY <3>3, <3>4, <3>5, <3>6 DEF ChainSound, w
  <2>3. ASSUME NEW other
        PROVE  /\ E!QueryProfiling(properties, other) \in BOOLEAN
               /\ E!QueryProfiling(properties, other) = TRUE => "profiling" \in properties
    BY DEF E!QueryProfiling
  <2> DEFINE stopped == {of(E!QueryProfiling(properties, other)) : other \in Gpu}
             asked(found) == {E!GetExtentionInfo(c, found) : c \in stopped}
  <2>4. frame' \in {of(FALSE)} \cup stopped \cup UNION {asked(found) : found \in E!Queried(g)}
    BY <2>1 DEF E!QueueChains
  <2>5. ChainSound(of(FALSE))
    BY <2>2
  <2>6. \A c \in stopped : ChainSound(c)
    BY <2>2, <2>3
  <2> HIDE DEF of, stopped
  <2>7. \A found : \A c \in asked(found) : ChainSound(c)
    BY <2>6, AskedSound
  <2> HIDE DEF asked
  <2>8. ChainSound(frame')
    BY <2>4, <2>5, <2>6, <2>7
  <2> QED BY <2>8 DEF ExtensionsInv
<1>3. CASE E!SetCompileOptions
  <2>1. frame # <<>> /\ frame' = [frame EXCEPT !.options = frame.defaults]
    BY <1>3 DEF E!SetCompileOptions
  <2>2. ChainSound(frame)
    BY <2>1 DEF ExtensionsInv
  <2> DEFINE c == frame
             w == [c EXCEPT !.options = c.defaults]
  <2>3. /\ w.gpu = c.gpu /\ w.platform_type0 = c.platform_type0 /\ w.asked = c.asked
        /\ w.supports = c.supports /\ w.defaults = c.defaults /\ w.options = c.defaults
        /\ w.context = c.context /\ w.queue = c.queue /\ w.profiling = c.profiling
        /\ w.misread = c.misread
    BY <2>2 DEF ChainSound, ChainRecord
  <2>4. w \in ChainRecord
    BY <2>2, <2>3 DEF ChainSound, ChainRecord
  <2>5. w = frame'
    BY <2>1
  <2> HIDE DEF w
  <2>6. ChainSound(w)
    BY <2>2, <2>3, <2>4 DEF ChainSound, OptionsInStep, Says
  <2> QED BY <2>5, <2>6 DEF ExtensionsInv
<1>4. CASE E!AskAgain
  <2>1. PICK found \in E!Queried(frame.gpu) : frame # <<>> /\ frame' = E!GetExtentionInfo(frame, found)
    BY <1>4 DEF E!AskAgain
  <2>2. ChainSound(frame')
    BY <2>1, AskedSound DEF ExtensionsInv
  <2> QED BY <2>2 DEF ExtensionsInv
<1> QED BY <1>1, <1>2, <1>3, <1>4 DEF E!Next

LEMMA ExtensionsSafe ==
  ASSUME ExtensionsInv
  PROVE  E!TypeOK /\ E!CompiledForGpu
<1> SUFFICES ASSUME frame # <<>>
             PROVE  E!TypeOK /\ E!CompiledForGpu
  BY DEF E!TypeOK, E!CompiledForGpu
<1>1. ChainSound(frame)
  BY DEF ExtensionsInv
<1>2. E!TypeOK
  BY <1>1 DEF ChainSound, ChainRecord, PlatformTypes, E!TypeOK, E!Fresh
<1>3. E!CompiledForGpu
  BY <1>1 DEF ChainSound, ChainRecord, OptionsInStep, ShuffleAndRotate, Says, E!CompiledForGpu
<1> QED BY <1>2, <1>3

-----------------------------------------------------------------------------
(***************************************************************************)
(* The devices.  The list of a device object is that of its platform       *)
(* wherever an element of it is read.  What an object of the library has   *)
(* been told is of the one device that it stands for, which is also the    *)
(* frame chain's.  The tool's object is right as far as the tool has got.  *)
(***************************************************************************)
Id == D!Detectable \cup {NoDevice}
AskedFor == SUBSET {"platform", "device"}

DeviceRecord ==
  [platform_detected : BOOLEAN, device_detected : BOOLEAN,
   platform_index : Nat, device_index : Nat,
   platforms : {0, Len(System)}, device_ids : Seq(Id), infos : [1..6 -> Id], limits : Seq(Id),
   thorough : Id, platform_infos : 0..Len(System), missed : AskedFor]

Counted(o) == o.platform_detected = TRUE => o.platforms = Len(System)

Listed(o) ==
  /\ o.platform_index < Len(System)
  /\ o.device_ids \in {System[o.platform_index + 1],
                       [i \in DOMAIN System[o.platform_index + 1] |-> NoDevice]}

Usable(o) ==
  /\ o.platform_detected = TRUE => o.platform_index < Len(System)
  /\ o.device_detected = TRUE => o.device_index < Len(o.device_ids) /\ Listed(o)

(* What an object has been told is of its device. *)
Told(o) ==
  LET d == D!GetDeviceId(o)
  IN  /\ \A f \in 1..6 : o.infos[f] \in {NoDevice, d}
      /\ o.limits \in {<<>>, <<d>>}
      /\ o.infos[6] # NoDevice => o.limits = <<d>>

DescribedRight(o) ==
  LET d == System[o.platform_index + 1][o.device_index + 1]
  IN  "device" \notin o.missed =>
        /\ o.thorough = d /\ \A f \in 1..6 : o.infos[f] = d
        /\ Len(o.limits) = 1 => o.limits = <<d>>
        /\ Len(o.limits) >= 1

(* How far the tool has got *)
ToolRight(o, at) ==
  /\ Len(o.limits) <= MaxDescribed
  /\ at = "any" => Usable(o)
  /\ at \in {"infos", "devices", "device", "describe", "described"} =>
       o.platform_detected = TRUE /\ o.platform_index < Len(System)
  /\ at \in {"devices", "device", "describe", "described"} =>
       ("platform" \notin o.missed => o.platform_infos = o.platform_index + 1)
  /\ at \in {"device", "describe", "described"} => (Len(o.device_ids) > 0 => Listed(o))
  /\ at \in {"describe", "described"} =>
       o.device_detected = TRUE /\ o.device_index < Len(o.device_ids)
  /\ at = "described" => DescribedRight(o)

Steps == {"any", "platforms", "infos", "devices", "device", "describe", "described"}

ObjectsRight(ds) ==
  /\ DOMAIN ds \subseteq D!Object
  /\ \A n \in DOMAIN ds : ds[n] \in DeviceRecord /\ Counted(ds[n])
  /\ "default" \in DOMAIN ds => Usable(ds["default"])
  /\ \A n \in DOMAIN ds \ {"tool"} : Told(ds[n])

DeviceInv ==
  /\ program \in {"library", "tool"} /\ step \in Steps
  /\ ObjectsRight(devices)
  /\ shared \in (DOMAIN devices \ {"tool"}) \cup {"null"}
  /\ chain \in Id
  /\ chain # NoDevice => shared # "null" /\ chain = D!GetDeviceId(devices[shared])
  /\ step # "any" => "tool" \in DOMAIN devices
  /\ "tool" \in DOMAIN devices => ToolRight(devices["tool"], step)

(* Nothing was asked for. *)
Unasked(o) == o.limits = <<>> /\ \A f \in 1..6 : o.infos[f] = NoDevice

LEMMA SystemIs ==
  /\ System \in Seq(Seq(D!Detectable)) /\ NoDevice \notin D!Detectable
  /\ Version \in [D!Detectable -> Nat] /\ MaxItems \in [D!Detectable -> Nat]
  /\ PerDim \in [D!Detectable -> Seq(Nat)]
  /\ Len(System) \in Nat
<1>1. ASSUME NEW s PROVE ToSet(s) = D!Range(s)
  BY DEF ToSet, D!Range
<1>2. D!Detectable = UNION {ToSet(System[p]) : p \in DOMAIN System}
  BY <1>1 DEF D!Detectable
<1> QED BY <1>2, SystemAssumption, LenProperties

LEMMA FieldsAre == DOMAIN D!Fields = 1..6 /\ Len(D!Fields) = 6
BY DEF D!Fields

LEMMA IsResult ==
  ASSUME NEW ok, NEW o
  PROVE  D!Result(ok, o).ok = ok /\ D!Result(ok, o).o = o
BY DEF D!Result

LEMMA Platforms ==
  ASSUME NEW o \in DeviceRecord, o.platform_index < Len(System)
  PROVE  /\ System[o.platform_index + 1] \in Seq(D!Detectable)
         /\ System[o.platform_index + 1] \in Seq(Id)
         /\ [i \in DOMAIN System[o.platform_index + 1] |-> NoDevice] \in Seq(Id)
         /\ Len([i \in DOMAIN System[o.platform_index + 1] |-> NoDevice]) =
              Len(System[o.platform_index + 1])
<1> DEFINE s == System[o.platform_index + 1]
<1>1. o.platform_index + 1 \in 1..Len(System)
  BY SystemIs DEF DeviceRecord
<1>2. s \in Seq(D!Detectable)
  BY <1>1, SystemIs, ElementOfSeq
<1> HIDE DEF s
<1>3. Len(s) \in Nat /\ DOMAIN s = 1..Len(s) /\ \A i \in 1..Len(s) : s[i] \in D!Detectable
  BY <1>2, LenProperties, ElementOfSeq
<1>4. [i \in 1..Len(s) |-> NoDevice] \in [1..Len(s) -> Id] /\ s \in [1..Len(s) -> Id]
  BY <1>2, <1>3, LenProperties DEF Id
<1>5. [i \in 1..Len(s) |-> NoDevice] \in Seq(Id) /\ s \in Seq(Id)
  BY <1>3, <1>4, IsSequence
<1>6. Len([i \in 1..Len(s) |-> NoDevice]) = Len(s)
  BY <1>3, <1>5, LenProperties
<1> QED BY <1>2, <1>3, <1>5, <1>6 DEF s

(* The device an object stands for *)
LEMMA DeviceIds ==
  ASSUME NEW o \in DeviceRecord, D!GetDeviceNum(o) > o.device_index \/ Usable(o)
  PROVE  D!GetDeviceId(o) \in Id
<1>1. CASE o.device_detected = FALSE
  BY <1>1 DEF D!GetDeviceId, Id
<1>2. CASE o.device_detected = TRUE
  <2>1. o.device_ids \in Seq(Id) /\ o.device_index \in Nat /\ Len(o.device_ids) \in Nat
    BY LenProperties DEF DeviceRecord
  <2>2. o.device_index < Len(o.device_ids)
    BY <1>2, <2>1 DEF D!GetDeviceNum, Usable
  <2>3. o.device_ids[o.device_index + 1] \in Id
    BY <2>1, <2>2, ElementOfSeq
  <2> QED BY <1>2, <2>3 DEF D!GetDeviceId
<1> QED BY <1>1, <1>2 DEF DeviceRecord

LEMMA FreshDevice ==
  ASSUME NEW p \in Nat, NEW d \in Nat
  PROVE  LET o == D!Fresh(p, d)
         IN  /\ o \in DeviceRecord /\ Counted(o) /\ Usable(o) /\ Told(o)
             /\ o.platform_index = p /\ o.device_index = d
             /\ o.platform_detected = FALSE /\ o.device_detected = FALSE
             /\ Unasked(o) /\ o.device_ids = <<>>
<1> DEFINE o == D!Fresh(p, d)
<1>1. /\ [f \in 1..6 |-> NoDevice] \in [1..6 -> Id] /\ <<>> \in Seq(Id)
      /\ 0 \in 0..Len(System) /\ {} \in AskedFor /\ NoDevice \in Id
  BY SystemIs, EmptySeq DEF Id, AskedFor
<1>2. o = [platform_detected |-> FALSE, device_detected |-> FALSE,
           platform_index |-> p, device_index |-> d, platforms |-> 0, device_ids |-> <<>>,
           infos |-> [f \in 1..6 |-> NoDevice], limits |-> <<>>,
           thorough |-> NoDevice, platform_infos |-> 0, missed |-> {}]
  BY FieldsAre DEF D!Fresh
<1>3. o \in DeviceRecord
  BY <1>1, <1>2 DEF DeviceRecord
<1>4. Unasked(o)
  BY <1>2 DEF Unasked
<1>5. Told(o)
  BY <1>4 DEF Told, Unasked
<1> QED BY <1>2, <1>3, <1>4, <1>5 DEF Counted, Usable

(* What a method may find out leaves what an object was told before. *)
SameKnowledge(o, n) ==
  /\ n.infos = o.infos /\ n.limits = o.limits /\ n.thorough = o.thorough
  /\ n.platform_infos = o.platform_infos /\ n.missed = o.missed

LEMMA StillUnasked ==
  ASSUME NEW o, NEW n, SameKnowledge(o, n), Unasked(o)
  PROVE  Unasked(n)
BY DEF SameKnowledge, Unasked

LEMMA PlatformsDetected ==
  ASSUME NEW o \in DeviceRecord, Counted(o), NEW r \in D!DetectPlatforms(o)
  PROVE  /\ r.ok \in BOOLEAN /\ r.o \in DeviceRecord /\ Counted(r.o) /\ SameKnowledge(o, r.o)
         /\ r.o.platform_index = o.platform_index /\ r.o.device_index = o.device_index
         /\ r.o.device_detected = o.device_detected /\ r.o.device_ids = o.device_ids
         /\ r.ok = TRUE => r.o.platform_detected = TRUE /\ Len(System) > 0
         /\ r.ok = FALSE => r.o.platform_detected = o.platform_detected
<1> DEFINE resized == [o EXCEPT !.platforms = Len(System)]
           detected == [resized EXCEPT !.platform_detected = TRUE]
<1>1. /\ resized \in DeviceRecord /\ resized.platforms = Len(System)
      /\ SameKnowledge(o, resized)
      /\ resized.platform_index = o.platform_index /\ resized.device_index = o.device_index
      /\ resized.device_detected = o.device_detected /\ resized.device_ids = o.device_ids
      /\ resized.platform_detected = o.platform_detected
  BY DEF DeviceRecord, SameKnowledge
<1>2. \/ r = D!Result(FALSE, o)
      \/ r = D!Result(FALSE, resized)
      \/ r = D!Result(TRUE, detected) /\ System # <<>>
  BY DEF D!DetectPlatforms
<1> HIDE DEF resized
<1>3. /\ detected \in DeviceRecord /\ detected.platforms = Len(System)
      /\ SameKnowledge(o, detected)
      /\ detected.platform_index = o.platform_index /\ detected.device_index = o.device_index
      /\ detected.device_detected = o.device_detected /\ detected.device_ids = o.device_ids
      /\ detected.platform_detected = TRUE
  BY <1>1 DEF DeviceRecord, SameKnowledge
<1> HIDE DEF detected
<1>4. CASE r = D!Result(FALSE, o)
  BY <1>4, IsResult DEF SameKnowledge
<1>5. CASE r = D!Result(FALSE, resized)
  <2>1. r.ok = FALSE /\ r.o = resized
    BY <1>5, IsResult
  <2>2. Counted(resized)
    BY <1>1 DEF Counted
  <2> QED BY <1>1, <2>1, <2>2
<1>6. CASE r = D!Result(TRUE, detected) /\ System # <<>>
  <2>1. Len(System) > 0
    BY <1>6, SystemIs, EmptySeq, LenProperties
  <2> QED BY <1>3, <1>6, <2>1, IsResult DEF Counted
<1> QED BY <1>2, <1>4, <1>5, <1>6

LEMMA DevicesDetected ==
  ASSUME NEW o \in DeviceRecord, Counted(o), NEW r \in D!DetectDevices(o)
  PROVE  /\ r.ok \in BOOLEAN /\ r.o \in DeviceRecord /\ Counted(r.o) /\ SameKnowledge(o, r.o)
         /\ r.o.platform_index = o.platform_index /\ r.o.device_index = o.device_index
         /\ r.o.platform_detected = o.platform_detected
         /\ Len(r.o.device_ids) > 0 => Listed(r.o)
         /\ r.ok = FALSE => r.o.device_detected = o.device_detected
         /\ r.ok = TRUE => r.o.device_detected = TRUE /\ Len(r.o.device_ids) > 0
<1> DEFINE there == System[o.platform_index + 1]
           unlisted == [i \in DOMAIN there |-> NoDevice]
           listed(ids) == [o EXCEPT !.device_ids = ids]
           detected == [listed(there) EXCEPT !.device_detected = TRUE]
           known == o.platform_detected = TRUE /\ o.platform_index < Len(System) /\ there # <<>>
<1>1. /\ o.platform_index \in Nat /\ Len(System) \in Nat
      /\ o.platform_detected \in BOOLEAN
      /\ o.platform_detected = TRUE => o.platforms = Len(System)
  BY SystemIs DEF DeviceRecord, Counted
<1>2. known => there \in Seq(Id) /\ unlisted \in Seq(Id) /\ Len(there) > 0
  <2>1. known => there \in Seq(Id) /\ unlisted \in Seq(Id)
    BY Platforms
  <2>2. known => there \in Seq(Id) /\ there # <<>>
    BY <2>1
  <2> HIDE DEF there
  <2>3. known => Len(there) \in Nat /\ Len(there) # 0
    BY <2>2, LenProperties, EmptySeq
  <2> QED BY <2>1, <2>3
<1>3. ASSUME NEW ids \in Seq(Id)
      PROVE  /\ listed(ids) \in DeviceRecord /\ Counted(listed(ids))
             /\ SameKnowledge(o, listed(ids))
             /\ listed(ids).platform_index = o.platform_index
             /\ listed(ids).device_index = o.device_index
             /\ listed(ids).platform_detected = o.platform_detected
             /\ listed(ids).device_detected = o.device_detected
             /\ listed(ids).device_ids = ids
  BY DEF DeviceRecord, SameKnowledge, Counted
<1>4. \/ r = D!Result(FALSE, listed(<<>>))
      \/ known /\ r = D!Result(FALSE, listed(unlisted))
      \/ known /\ r = D!Result(TRUE, detected)
  <2> DEFINE unknown == ~o.platform_detected \/ o.platform_index >= o.platforms \/ there = <<>>
  <2>1. r \in IF unknown THEN {D!Result(FALSE, listed(<<>>))}
              ELSE {D!Result(FALSE, listed(<<>>)), D!Result(FALSE, listed(unlisted)),
                    D!Result(TRUE, detected)}
    BY DEF D!DetectDevices
  <2>2. ~unknown => known
    BY <1>1
  <2> HIDE DEF unknown, known, listed, detected, unlisted
  <2> QED BY <2>1, <2>2
<1> HIDE DEF listed
<1>5. CASE r = D!Result(FALSE, listed(<<>>))
  <2>1. r.ok = FALSE /\ r.o = listed(<<>>)
    BY <1>5, IsResult
  <2>2. <<>> \in Seq(Id) /\ Len(<<>>) = 0
    BY EmptySeq
  <2> DEFINE cleared == listed(<<>>)
  <2>3. /\ cleared \in DeviceRecord /\ Counted(cleared) /\ SameKnowledge(o, cleared)
        /\ cleared.platform_index = o.platform_index /\ cleared.device_index = o.device_index
        /\ cleared.platform_detected = o.platform_detected
        /\ cleared.device_detected = o.device_detected /\ cleared.device_ids = <<>>
    BY <1>3, <2>2
  <2>4. r.o = cleared
    BY <2>1
  <2> HIDE DEF cleared
  <2>5. ~(Len(r.o.device_ids) > 0)
    BY <2>2, <2>3, <2>4
  <2> QED BY <2>1, <2>3, <2>4, <2>5
<1>6. CASE known /\ r = D!Result(FALSE, listed(unlisted))
  <2>1. r.ok = FALSE /\ r.o = listed(unlisted)
    BY <1>6, IsResult
  <2>2. unlisted \in Seq(Id)
    BY <1>2, <1>6
  <2>3. Listed(listed(unlisted))
    BY <1>3, <1>6, <2>2 DEF Listed
  <2> HIDE DEF unlisted
  <2> QED BY <1>3, <2>1, <2>2, <2>3
<1>7. CASE known /\ r = D!Result(TRUE, detected)
  <2>1. r.ok = TRUE /\ r.o = detected
    BY <1>7, IsResult
  <2>2. there \in Seq(Id) /\ Len(there) > 0
    BY <1>2, <1>7
  <2>3. /\ o.platform_index < Len(System)
        /\ listed(there).device_ids = there
    BY <1>3, <1>7, <2>2
  <2>4. /\ detected \in DeviceRecord /\ SameKnowledge(o, detected)
        /\ detected.platform_index = o.platform_index
        /\ detected.device_index = o.device_index
        /\ detected.platform_detected = o.platform_detected
        /\ detected.device_detected = TRUE
        /\ detected.device_ids = there /\ detected.platforms = o.platforms
    <3>1. listed(there).platforms = o.platforms
      BY DEF listed, DeviceRecord
    <3>2. listed(there) \in DeviceRecord /\ SameKnowledge(o, listed(there))
      BY <1>3, <2>2
    <3> DEFINE l == listed(there)
    <3> HIDE DEF l, there
    <3>3. /\ [l EXCEPT !.device_detected = TRUE] \in DeviceRecord
          /\ SameKnowledge(l, [l EXCEPT !.device_detected = TRUE])
          /\ [l EXCEPT !.device_detected = TRUE].platform_index = l.platform_index
          /\ [l EXCEPT !.device_detected = TRUE].device_index = l.device_index
          /\ [l EXCEPT !.device_detected = TRUE].platform_detected = l.platform_detected
          /\ [l EXCEPT !.device_detected = TRUE].device_detected = TRUE
          /\ [l EXCEPT !.device_detected = TRUE].device_ids = l.device_ids
          /\ [l EXCEPT !.device_detected = TRUE].platforms = l.platforms
      BY <3>2 DEF l, DeviceRecord, SameKnowledge
    <3> QED BY <1>3, <2>2, <3>1, <3>2, <3>3 DEF l, SameKnowledge
  <2> HIDE DEF detected
  <2>5. Counted(detected)
    BY <2>4 DEF Counted
  <2>6. Listed(detected)
    BY <2>3, <2>4 DEF Listed
  <2> HIDE DEF there
  <2> QED BY <2>1, <2>2, <2>4, <2>5, <2>6
<1> QED BY <1>4, <1>5, <1>6, <1>7

(* What getDeviceBasicInfos leaves is of the device asked. *)
LEMMA BasicInfosAsked ==
  ASSUME NEW o \in DeviceRecord, Counted(o), D!GetDeviceId(o) \in Id,
         NEW r \in D!GetDeviceBasicInfos(o)
  PROVE  LET d == D!GetDeviceId(o)
         IN  /\ r.ok \in BOOLEAN /\ r.o \in DeviceRecord /\ Counted(r.o)
             /\ r.o.platform_index = o.platform_index /\ r.o.device_index = o.device_index
             /\ r.o.platform_detected = o.platform_detected
             /\ r.o.device_detected = o.device_detected /\ r.o.device_ids = o.device_ids
             /\ r.o.thorough = o.thorough /\ r.o.platform_infos = o.platform_infos
             /\ r.o.missed = o.missed
             /\ \A f \in 1..6 : r.o.infos[f] \in {o.infos[f], d}
             /\ r.o.limits \in {o.limits, Append(o.limits, d)}
             /\ r.o.infos[6] # o.infos[6] => r.o.limits = Append(o.limits, d)
             /\ r.ok = TRUE => /\ d # NoDevice /\ r.o.limits = Append(o.limits, d)
                               /\ \A f \in 1..6 : r.o.infos[f] = d
<1> DEFINE d == D!GetDeviceId(o)
           infos(n) == [f \in 1..6 |-> IF f <= n THEN d ELSE o.infos[f]]
           limits(n) == IF n >= 5 THEN Append(o.limits, d) ELSE o.limits
           asked(n) == [o EXCEPT !.infos = infos(n), !.limits = limits(n)]
<1>1. \/ r = D!Result(FALSE, o)
      \/ d # NoDevice /\ \E n \in 0..6, ok \in BOOLEAN :
            r = D!Result(ok, asked(n)) /\ (ok = TRUE => n = 6)
  <2>1. r \in IF d = NoDevice THEN {D!Result(FALSE, o)}
              ELSE {D!Result(FALSE, asked(n)) : n \in 0..5} \cup {D!Result(TRUE, asked(6))}
    <3>1. 6 - 1 = 5
      OBVIOUS
    <3> QED BY <3>1, FieldsAre DEF D!GetDeviceBasicInfos
  <2> HIDE DEF d, asked
  <2>2. CASE r \in {D!Result(FALSE, asked(n)) : n \in 0..5} /\ d # NoDevice
    <3>1. PICK n \in 0..5 : r = D!Result(FALSE, asked(n))
      BY <2>2
    <3>2. n \in 0..6
      OBVIOUS
    <3> QED BY <2>2, <3>1, <3>2
  <2>3. CASE r = D!Result(TRUE, asked(6)) /\ d # NoDevice
    <3>1. 6 \in 0..6 /\ TRUE \in BOOLEAN
      OBVIOUS
    <3>2. \E ok \in BOOLEAN : r = D!Result(ok, asked(6)) /\ (ok = TRUE => 6 = 6)
      BY <2>3, <3>1, Zenon
    <3> QED BY <2>3, <3>1, <3>2, Zenon
  <2> QED BY <2>1, <2>2, <2>3
<1> HIDE DEF d
<1>2. CASE r = D!Result(FALSE, o)
  BY <1>2, IsResult
<1>3. ASSUME d # NoDevice, NEW n \in 0..6, NEW ok \in BOOLEAN,
             r = D!Result(ok, asked(n)), ok = TRUE => n = 6
      PROVE  /\ r.ok \in BOOLEAN /\ r.o \in DeviceRecord /\ Counted(r.o)
             /\ r.o.platform_index = o.platform_index /\ r.o.device_index = o.device_index
             /\ r.o.platform_detected = o.platform_detected
             /\ r.o.device_detected = o.device_detected /\ r.o.device_ids = o.device_ids
             /\ r.o.thorough = o.thorough /\ r.o.platform_infos = o.platform_infos
             /\ r.o.missed = o.missed
             /\ \A f \in 1..6 : r.o.infos[f] \in {o.infos[f], d}
             /\ r.o.limits \in {o.limits, Append(o.limits, d)}
             /\ r.o.infos[6] # o.infos[6] => r.o.limits = Append(o.limits, d)
             /\ r.ok = TRUE => /\ d # NoDevice /\ r.o.limits = Append(o.limits, d)
                               /\ \A f \in 1..6 : r.o.infos[f] = d
  <2>1. r.ok = ok /\ r.o = asked(n)
    BY <1>3, IsResult
  <2>2. /\ infos(n) \in [1..6 -> Id] /\ \A f \in 1..6 : infos(n)[f] \in {o.infos[f], d}
        /\ n = 6 => \A f \in 1..6 : infos(n)[f] = d
        /\ n < 6 => infos(n)[6] = o.infos[6]
    BY DEF DeviceRecord, d
  <2>3. /\ limits(n) \in Seq(Id)
        /\ limits(n) \in {o.limits, Append(o.limits, d)}
        /\ n = 6 => limits(n) = Append(o.limits, d)
    BY AppendProperties DEF DeviceRecord, d
  <2> HIDE DEF infos, limits
  <2>4. /\ asked(n) \in DeviceRecord
        /\ asked(n).infos = infos(n) /\ asked(n).limits = limits(n)
        /\ asked(n).platform_index = o.platform_index /\ asked(n).device_index = o.device_index
        /\ asked(n).platform_detected = o.platform_detected
        /\ asked(n).device_detected = o.device_detected /\ asked(n).device_ids = o.device_ids
        /\ asked(n).thorough = o.thorough /\ asked(n).platform_infos = o.platform_infos
        /\ asked(n).missed = o.missed /\ asked(n).platforms = o.platforms
    BY <2>2, <2>3 DEF DeviceRecord
  <2> HIDE DEF asked
  <2>5. Counted(asked(n))
    BY <2>4 DEF Counted
  <2>6. r.ok \in BOOLEAN /\ (r.ok = TRUE => n = 6)
    BY <1>3, <2>1
  <2>7. r.o.infos[6] # o.infos[6] => n = 6
    BY <2>1, <2>2, <2>4
  <2> QED BY <1>3, <2>1, <2>2, <2>3, <2>4, <2>5, <2>6, <2>7
<1> QED BY <1>1, <1>2, <1>3 DEF d

LEMMA Failures ==
  ASSUME NEW results, NEW r \in D!Failed(results), \A s \in results : s.ok \in BOOLEAN
  PROVE  r \in results /\ r.ok = FALSE
BY DEF D!Failed

LEMMA Successes ==
  ASSUME NEW results, NEW o \in D!Succeeded(results), \A r \in results : r.ok \in BOOLEAN
  PROVE  \E r \in results : r.ok = TRUE /\ r.o = o
BY DEF D!Succeeded

(* An object of the library is asked once. *)
LEMMA AskedOnce ==
  ASSUME NEW o \in DeviceRecord, Counted(o), D!GetDeviceId(o) \in Id,
         Unasked(o),
         NEW r \in D!GetDeviceBasicInfos(o)
  PROVE  /\ r.o \in DeviceRecord /\ Counted(r.o) /\ Told(r.o) /\ Len(r.o.limits) <= 1
         /\ Usable(o) => Usable(r.o)
<1> DEFINE d == D!GetDeviceId(o)
<1>1. /\ r.o \in DeviceRecord /\ Counted(r.o)
      /\ r.o.platform_index = o.platform_index /\ r.o.device_index = o.device_index
      /\ r.o.platform_detected = o.platform_detected
      /\ r.o.device_detected = o.device_detected /\ r.o.device_ids = o.device_ids
      /\ \A f \in 1..6 : r.o.infos[f] \in {o.infos[f], d}
      /\ r.o.limits \in {o.limits, Append(o.limits, d)}
      /\ r.o.infos[6] # o.infos[6] => r.o.limits = Append(o.limits, d)
  BY BasicInfosAsked
<1>2. D!GetDeviceId(r.o) = d
  BY <1>1 DEF D!GetDeviceId
<1>3. o.limits = <<>> /\ \A f \in 1..6 : o.infos[f] = NoDevice
  BY DEF Unasked
<1>4. Append(<<>>, d) = <<d>> /\ Len(<<d>>) <= 1 /\ Len(<<>>) <= 1
  OBVIOUS
<1> HIDE DEF d
<1>5. Told(r.o)
  BY <1>1, <1>2, <1>3, <1>4 DEF Told
<1>6. Usable(o) => Usable(r.o)
  BY <1>1 DEF Usable, Listed
<1>7. Len(r.o.limits) <= 1
  <2>1. r.o.limits = <<>> \/ r.o.limits = <<d>>
    BY <1>1, <1>3, <1>4
  <2> QED BY <1>4, <2>1
<1> QED BY <1>1, <1>5, <1>6, <1>7

(* The object that has detected nothing more was told nothing. *)
LEMMA NotAsked ==
  ASSUME NEW o, Unasked(o)
  PROVE  Told(o) /\ Len(o.limits) <= 1
<1>1. Len(<<>>) = 0 /\ o.limits = <<>> /\ \A f \in 1..6 : o.infos[f] = NoDevice
  BY DEF Unasked
<1> QED BY <1>1 DEF Told

LEMMA DefaultDevice ==
  ASSUME NEW r \in D!Default
  PROVE  /\ r.o \in DeviceRecord /\ Counted(r.o) /\ Usable(r.o) /\ Told(r.o)
         /\ Len(r.o.limits) <= 1
<1> DEFINE fresh == D!Fresh(0, 0)
           platforms == D!DetectPlatforms(fresh)
           at(p) == [p EXCEPT !.platform_index = 0]
           listed == UNION {D!DetectDevices(at(p)) : p \in D!Succeeded(platforms)}
           chosen(d) == [d EXCEPT !.device_index = 0]
           valid == D!DetectAValidPlatformDevice(fresh)
           Bare(o) == /\ o \in DeviceRecord /\ Counted(o)
                      /\ Unasked(o)
                      /\ o.platform_index = 0
           Good(o) == Bare(o) /\ Usable(o)
<1>1. Good(fresh) /\ fresh.device_detected = FALSE /\ fresh.device_index = 0
  BY FreshDevice
<1>2. r \in D!Failed(valid) \cup UNION {D!GetDeviceBasicInfos(o) : o \in D!Succeeded(valid)}
  BY DEF D!Default
<1>3. valid = D!Failed(platforms) \cup D!Failed(listed) \cup
              {D!Result(TRUE, chosen(d)) : d \in D!Succeeded(listed)}
  BY DEF D!DetectAValidPlatformDevice
<1> HIDE DEF fresh, valid
<1>4. ASSUME NEW q \in platforms
      PROVE  /\ q.ok \in BOOLEAN /\ Bare(q.o) /\ q.o.device_detected = FALSE
             /\ q.ok = FALSE => q.o.platform_detected = fresh.platform_detected
             /\ q.ok = TRUE => Len(System) > 0
  <2>1. /\ fresh \in DeviceRecord /\ Counted(fresh) /\ Unasked(fresh)
        /\ q \in D!DetectPlatforms(fresh)
    BY <1>1, <1>4
  <2>2. SameKnowledge(fresh, q.o)
    BY <2>1, PlatformsDetected
  <2>3. Unasked(q.o)
    BY <2>1, <2>2, StillUnasked
  <2> QED BY <1>1, <2>1, <2>3, PlatformsDetected
<1>5. ASSUME NEW q \in platforms, q.ok = FALSE
      PROVE  Good(q.o)
  <2>1. Bare(q.o) /\ q.o.device_detected = FALSE /\ q.o.platform_detected = fresh.platform_detected
    BY <1>4, <1>5
  <2> QED BY <1>1, <2>1 DEF Usable
<1> HIDE DEF platforms
<1>6. ASSUME NEW p \in D!Succeeded(platforms)
      PROVE  Bare(at(p)) /\ at(p).device_detected = FALSE /\ Len(System) > 0
  <2>0. \A q \in platforms : q.ok \in BOOLEAN
    BY <1>4
  <2>1. PICK q \in platforms : q.ok = TRUE /\ q.o = p
    BY <2>0, Successes
  <2>2. Bare(p) /\ p.device_detected = FALSE /\ Len(System) > 0
    BY <1>4, <2>1
  <2> QED BY <2>2 DEF DeviceRecord, Counted
<1> HIDE DEF at
<1>7. ASSUME NEW q \in listed
      PROVE  /\ q.ok \in BOOLEAN /\ Bare(q.o) /\ Len(System) > 0
             /\ q.ok = FALSE => q.o.device_detected = FALSE
             /\ q.ok = TRUE => Listed(q.o) /\ Len(q.o.device_ids) > 0
  <2>1. PICK p \in D!Succeeded(platforms) : q \in D!DetectDevices(at(p))
    BY <1>7
  <2>2. Bare(at(p)) /\ at(p).device_detected = FALSE /\ Len(System) > 0
    BY <1>6
  <2>3. SameKnowledge(at(p), q.o)
    BY <2>1, <2>2, DevicesDetected
  <2>4. Unasked(q.o)
    BY <2>2, <2>3, StillUnasked
  <2> QED BY <2>1, <2>2, <2>4, DevicesDetected
<1> HIDE DEF listed
<1>8. ASSUME NEW q \in listed, q.ok = FALSE
      PROVE  Good(q.o)
  BY <1>7, <1>8 DEF Usable
<1>9. ASSUME NEW o \in D!Succeeded(listed)
      PROVE  Good(chosen(o))
  <2>0. \A q \in listed : q.ok \in BOOLEAN
    BY <1>7
  <2>1. PICK q \in listed : q.ok = TRUE /\ q.o = o
    BY <2>0, Successes
  <2>2. Bare(o) /\ Listed(o) /\ Len(o.device_ids) > 0 /\ Len(System) > 0
    BY <1>7, <2>1
  <2>3. /\ Bare(chosen(o)) /\ chosen(o).device_ids = o.device_ids
        /\ chosen(o).device_index = 0 /\ chosen(o).platform_index = o.platform_index
    BY <2>2 DEF DeviceRecord, Counted, Unasked
  <2> HIDE DEF chosen
  <2> QED BY <2>2, <2>3 DEF Usable, Listed
<1> HIDE DEF chosen
<1>10. ASSUME NEW q \in valid
       PROVE  q.ok \in BOOLEAN /\ Good(q.o)
  <2>1. CASE q \in D!Failed(platforms)
    BY <1>4, <1>5, <2>1, Failures
  <2>2. CASE q \in D!Failed(listed)
    BY <1>7, <1>8, <2>2, Failures
  <2>3. CASE q \in {D!Result(TRUE, chosen(d)) : d \in D!Succeeded(listed)}
    <3>1. PICK d \in D!Succeeded(listed) : q = D!Result(TRUE, chosen(d))
      BY <2>3
    <3>2. q.ok = TRUE /\ q.o = chosen(d)
      BY <3>1, IsResult
    <3>3. Good(chosen(d))
      BY <1>9
    <3> QED BY <3>2, <3>3
  <2> QED BY <1>3, <1>10, <2>1, <2>2, <2>3
<1>11. CASE r \in D!Failed(valid)
  <2>1. Good(r.o)
    BY <1>10, <1>11, Failures
  <2> QED BY <2>1, NotAsked
<1>12. CASE r \in UNION {D!GetDeviceBasicInfos(o) : o \in D!Succeeded(valid)}
  <2>1. PICK o \in D!Succeeded(valid) : r \in D!GetDeviceBasicInfos(o)
    BY <1>12
  <2>0. \A q \in valid : q.ok \in BOOLEAN
    BY <1>10
  <2>2. Good(o)
    <3>1. PICK q \in valid : q.ok = TRUE /\ q.o = o
      BY <2>0, Successes
    <3> QED BY <1>10, <3>1
  <2>3. D!GetDeviceId(o) \in Id
    BY <2>2, DeviceIds
  <2> QED BY <2>1, <2>2, <2>3, AskedOnce
<1> QED BY <1>2, <1>11, <1>12

LEMMA ChosenDevice ==
  ASSUME NEW p \in Nat, NEW d \in Nat, NEW r \in D!Chosen(p, d)
  PROVE  r.o \in DeviceRecord /\ Counted(r.o) /\ Told(r.o) /\ Len(r.o.limits) <= 1
<1> DEFINE fresh == D!Fresh(p, d)
           platforms == D!DetectPlatforms(fresh)
           devices0(o) == IF D!GetPlatformNum(o) <= p THEN {D!Result(FALSE, o)} ELSE D!DetectDevices(o)
           listed == UNION {devices0(o) : o \in D!Succeeded(platforms)}
           asked(o) == IF D!GetDeviceNum(o) <= d THEN {D!Result(FALSE, o)} ELSE D!GetDeviceBasicInfos(o)
           Bare(o) == /\ o \in DeviceRecord /\ Counted(o)
                      /\ Unasked(o)
                      /\ o.device_index = d
<1>1. Bare(fresh)
  BY FreshDevice
<1>2. r \in D!Failed(platforms) \cup D!Failed(listed)
           \cup UNION {asked(o) : o \in D!Succeeded(listed)}
  BY DEF D!Chosen
<1> HIDE DEF fresh
<1>3. ASSUME NEW q \in platforms
      PROVE  q.ok \in BOOLEAN /\ Bare(q.o)
  <2>1. /\ fresh \in DeviceRecord /\ Counted(fresh) /\ Unasked(fresh)
        /\ q \in D!DetectPlatforms(fresh)
    BY <1>1, <1>3
  <2>2. SameKnowledge(fresh, q.o)
    BY <2>1, PlatformsDetected
  <2>3. Unasked(q.o)
    BY <2>1, <2>2, StillUnasked
  <2> QED BY <1>1, <2>1, <2>3, PlatformsDetected
<1> HIDE DEF platforms
<1>4. ASSUME NEW o \in D!Succeeded(platforms)
      PROVE  Bare(o)
  <2>1. \A q \in platforms : q.ok \in BOOLEAN
    BY <1>3
  <2>2. PICK q \in platforms : q.ok = TRUE /\ q.o = o
    BY <2>1, Successes
  <2> QED BY <1>3, <2>2
<1>5. ASSUME NEW q \in listed
      PROVE  q.ok \in BOOLEAN /\ Bare(q.o)
  <2>1. PICK o \in D!Succeeded(platforms) : q \in devices0(o)
    BY <1>5
  <2>2. Bare(o)
    BY <1>4
  <2>3. CASE q = D!Result(FALSE, o)
    <3>1. q.ok = FALSE /\ q.o = o
      BY <2>3, IsResult
    <3> QED BY <2>2, <3>1
  <2>4. CASE q \in D!DetectDevices(o)
    <3>1. SameKnowledge(o, q.o)
      BY <2>2, <2>4, DevicesDetected
    <3>2. Unasked(q.o)
      BY <2>2, <3>1, StillUnasked
    <3> QED BY <2>2, <2>4, <3>2, DevicesDetected
  <2> QED BY <2>1, <2>3, <2>4
<1> HIDE DEF listed
<1>6. ASSUME NEW o \in D!Succeeded(listed)
      PROVE  Bare(o)
  <2>1. \A q \in listed : q.ok \in BOOLEAN
    BY <1>5
  <2>2. PICK q \in listed : q.ok = TRUE /\ q.o = o
    BY <2>1, Successes
  <2> QED BY <1>5, <2>2
<1>7. CASE r \in D!Failed(platforms)
  BY <1>3, <1>7, Failures, NotAsked
<1>8. CASE r \in D!Failed(listed)
  BY <1>5, <1>8, Failures, NotAsked
<1>9. CASE r \in UNION {asked(o) : o \in D!Succeeded(listed)}
  <2>1. PICK o \in D!Succeeded(listed) : r \in asked(o)
    BY <1>9
  <2>2. Bare(o)
    BY <1>6
  <2>3. CASE r = D!Result(FALSE, o)
    <3>1. r.o = o
      BY <2>3, IsResult
    <3> QED BY <2>2, <3>1, NotAsked
  <2>4. CASE ~(D!GetDeviceNum(o) <= d) /\ r \in D!GetDeviceBasicInfos(o)
    <3>1. D!GetDeviceNum(o) \in Nat
      BY <2>2, LenProperties DEF D!GetDeviceNum, DeviceRecord
    <3>2. D!GetDeviceId(o) \in Id
      BY <2>2, <2>4, <3>1, DeviceIds
    <3> QED BY <2>2, <2>4, <3>2, AskedOnce
  <2> QED BY <2>1, <2>3, <2>4
<1> QED BY <1>2, <1>7, <1>8, <1>9

LEMMA DeviceInit == D!Init => DeviceInv
<1> SUFFICES ASSUME D!Init PROVE DeviceInv
  OBVIOUS
<1>1. DOMAIN <<>> = {}
  OBVIOUS
<1> QED BY <1>1 DEF D!Init, DeviceInv, ObjectsRight, Steps, Id

LEMMA Made ==
  ASSUME ObjectsRight(devices), NEW name \in D!Object, NEW results,
         \A r \in results : /\ r.o \in DeviceRecord /\ Counted(r.o) /\ Told(r.o)
                            /\ name = "default" => Usable(r.o),
         D!MadeOnce(name, results)
  PROVE  /\ ObjectsRight(devices')
         /\ DOMAIN devices' = DOMAIN devices \cup {name}
         /\ \A n \in DOMAIN devices : devices'[n] = devices[n]
         /\ name \notin DOMAIN devices => \E r \in results : devices'[name] = r.o
<1>1. CASE name \in DOMAIN devices
  BY <1>1 DEF D!MadeOnce
<1>2. CASE name \notin DOMAIN devices
  <2>1. PICK r \in results :
          devices' = [n \in DOMAIN devices \cup {name} |-> IF n = name THEN r.o ELSE devices[n]]
    BY <1>2 DEF D!MadeOnce
  <2>2. /\ DOMAIN devices' = DOMAIN devices \cup {name} /\ devices'[name] = r.o
        /\ \A n \in DOMAIN devices : devices'[n] = devices[n]
    BY <1>2, <2>1
  <2>3. /\ r.o \in DeviceRecord /\ Counted(r.o) /\ Told(r.o)
        /\ name = "default" => Usable(r.o)
    OBVIOUS
  <2>4. ObjectsRight(devices')
    BY <2>2, <2>3 DEF ObjectsRight
  <2> QED BY <1>2, <2>2, <2>4
<1> QED BY <1>1, <1>2

(* What the tool does with its object *)
LEMMA ToolStep ==
  ASSUME DeviceInv, "tool" \in DOMAIN devices, NEW next \in Steps, NEW results,
         \A r \in results : r.o \in DeviceRecord /\ Counted(r.o) /\ ToolRight(r.o, next),
         D!Tool(results, next)
  PROVE  DeviceInv'
<1>1. PICK r \in results : devices' = [devices EXCEPT !["tool"] = r.o]
  BY DEF D!Tool
<1>2. /\ step' = next /\ program' = program /\ shared' = shared /\ chain' = chain
  BY DEF D!Tool
<1>3. /\ DOMAIN devices' = DOMAIN devices /\ devices'["tool"] = r.o
      /\ \A n \in DOMAIN devices \ {"tool"} : devices'[n] = devices[n]
  BY <1>1
<1>4. ObjectsRight(devices')
  BY <1>3 DEF DeviceInv, ObjectsRight
<1>5. ToolRight(devices'["tool"], step')
  BY <1>2, <1>3
<1>6. chain' # NoDevice => shared' # "null" /\ chain' = D!GetDeviceId(devices'[shared'])
  BY <1>2, <1>3 DEF DeviceInv
<1> QED BY <1>2, <1>3, <1>4, <1>5, <1>6 DEF DeviceInv

(* Noting leaves all but the note. *)
SameDevice(o, n) ==
  /\ SameKnowledge([o EXCEPT !.missed = n.missed], n)
  /\ n.platform_index = o.platform_index /\ n.device_index = o.device_index
  /\ n.platform_detected = o.platform_detected /\ n.device_detected = o.device_detected
  /\ n.device_ids = o.device_ids

LEMMA Noted ==
  ASSUME NEW what \in {"platform", "device"}, NEW results,
         \A s \in results : s.ok \in BOOLEAN /\ s.o \in DeviceRecord /\ Counted(s.o),
         NEW r \in D!Noting(what, results)
  PROVE  \E s \in results :
           /\ r.ok = s.ok /\ r.o \in DeviceRecord /\ Counted(r.o) /\ SameDevice(s.o, r.o)
           /\ s.o.missed \subseteq r.o.missed
           /\ what \notin r.o.missed => s.ok = TRUE
           /\ r.o.missed \subseteq s.o.missed \cup {what}
<1>1. PICK s \in results :
        r = D!Result(s.ok, [s.o EXCEPT !.missed = IF s.ok THEN @ ELSE @ \cup {what}])
  BY DEF D!Noting
<1> DEFINE m == IF s.ok THEN s.o.missed ELSE s.o.missed \cup {what}
           n == [s.o EXCEPT !.missed = m]
<1>2. s.ok \in BOOLEAN /\ s.o \in DeviceRecord /\ Counted(s.o)
  OBVIOUS
<1>3. r.ok = s.ok /\ r.o = n
  BY <1>1, IsResult
<1>4. m \in AskedFor /\ s.o.missed \subseteq m /\ (what \notin m => s.ok = TRUE)
      /\ m \subseteq s.o.missed \cup {what}
  BY <1>2 DEF DeviceRecord, AskedFor
<1> HIDE DEF m
<1>5. /\ n \in DeviceRecord /\ n.missed = m /\ SameDevice(s.o, n)
      /\ n.platforms = s.o.platforms /\ n.platform_detected = s.o.platform_detected
  BY <1>2, <1>4 DEF DeviceRecord, SameDevice, SameKnowledge
<1> HIDE DEF n
<1>6. Counted(n)
  BY <1>2, <1>5 DEF Counted
<1> QED BY <1>3, <1>4, <1>5, <1>6

(* What the object o is turned into while its device d is asked for all *)
Described(o, d, n) ==
  /\ n \in DeviceRecord /\ Counted(n)
  /\ n.platform_index = o.platform_index /\ n.device_index = o.device_index
  /\ n.platform_detected = TRUE /\ n.device_detected = TRUE
  /\ n.device_ids = o.device_ids
  /\ n.platform_infos = o.platform_infos /\ o.missed \subseteq n.missed
  /\ Len(n.limits) <= MaxDescribed
  /\ "device" \notin n.missed =>
       d # NoDevice /\ n.limits = Append(o.limits, d) /\ \A f \in 1..6 : n.infos[f] = d

(* Noting that it could not be asked keeps that. *)
LEMMA NotedDescribed ==
  ASSUME NEW o, NEW d, NEW s, NEW n, Described(o, d, s), n \in DeviceRecord, Counted(n),
         SameDevice(s, n), s.missed \subseteq n.missed
  PROVE  Described(o, d, n) /\ n.thorough = s.thorough
<1>1. /\ n.limits = s.limits /\ n.platform_infos = s.platform_infos
      /\ n.infos = s.infos /\ n.thorough = s.thorough
      /\ n.platform_index = s.platform_index /\ n.device_index = s.device_index
      /\ n.platform_detected = s.platform_detected
      /\ n.device_detected = s.device_detected /\ n.device_ids = s.device_ids
  BY DEF SameDevice, SameKnowledge, Described, DeviceRecord
<1> QED BY <1>1 DEF Described

(* What the tool has after it has asked a device for all *)
LEMMA Describes ==
  ASSUME DeviceInv, D!ToolDescribes
  PROVE  DeviceInv'
<1> DEFINE o == devices["tool"]
           d == D!GetDeviceId(o)
           basic == D!GetDeviceBasicInfos(o)
           noted == D!Noting("device", basic)
           asked(r) == D!Noting("device", D!GetDeviceThoroughInfos(r.o))
           results == UNION {asked(r) : r \in noted}
<1>1. step = "describe" /\ Len(o.limits) < MaxDescribed /\ D!Tool(results, "described")
  BY DEF D!ToolDescribes
<1>2. "tool" \in DOMAIN devices
  BY <1>1 DEF DeviceInv
<1>3. o \in DeviceRecord /\ Counted(o) /\ ToolRight(o, "describe")
  BY <1>1, <1>2 DEF DeviceInv, ObjectsRight
<1> HIDE DEF o
<1>4. /\ o.platform_detected = TRUE /\ o.platform_index < Len(System)
      /\ o.device_detected = TRUE /\ o.device_index < Len(o.device_ids)
      /\ "platform" \notin o.missed => o.platform_infos = o.platform_index + 1
      /\ Listed(o)
  <2>1. o.device_index \in Nat /\ Len(o.device_ids) \in Nat
    BY <1>3, LenProperties DEF DeviceRecord
  <2> QED BY <1>3, <2>1 DEF ToolRight
<1>5. d \in Id
  BY <1>3, <1>4, DeviceIds DEF Usable
<1> DEFINE shown == System[o.platform_index + 1][o.device_index + 1]
<1>6. d # NoDevice => d = shown
  <2> DEFINE there == System[o.platform_index + 1]
  <2>1. d = o.device_ids[o.device_index + 1]
    BY <1>4 DEF D!GetDeviceId
  <2>2. there \in Seq(D!Detectable) /\ Len([i \in DOMAIN there |-> NoDevice]) = Len(there)
    BY <1>3, <1>4, Platforms
  <2>3. o.device_ids \in {there, [i \in DOMAIN there |-> NoDevice]}
    BY <1>4 DEF Listed
  <2> HIDE DEF there
  <2>4. o.device_index + 1 \in DOMAIN there
    BY <1>3, <1>4, <2>2, <2>3, LenProperties DEF DeviceRecord
  <2> QED BY <2>1, <2>3, <2>4 DEF there
<1>7. /\ \A f \in 1..6 : o.infos[f] \in Id /\ o.limits \in Seq(Id)
      /\ Append(o.limits, d) \in Seq(Id) /\ Len(Append(o.limits, d)) = Len(o.limits) + 1
      /\ Len(o.limits) \in Nat /\ Len(o.limits) = 0 => Append(o.limits, d) = <<d>>
  <2>1. o.limits \in Seq(Id) /\ Len(o.limits) \in Nat
    BY <1>3, LenProperties DEF DeviceRecord
  <2>2. Append(o.limits, d) \in Seq(Id) /\ Len(Append(o.limits, d)) = Len(o.limits) + 1
    BY <1>5, <2>1, AppendProperties
  <2>3. Len(o.limits) = 0 => o.limits = <<>>
    BY <2>1, EmptySeq
  <2>4. Append(<<>>, d) = <<d>>
    OBVIOUS
  <2> HIDE DEF d
  <2> QED BY <1>3, <2>1, <2>2, <2>3, <2>4 DEF DeviceRecord
<1> HIDE DEF d
<1>8. ASSUME NEW s \in basic
      PROVE  /\ s.ok \in BOOLEAN /\ s.o \in DeviceRecord /\ Counted(s.o)
             /\ s.o.platform_index = o.platform_index /\ s.o.device_index = o.device_index
             /\ s.o.platform_detected = TRUE /\ s.o.device_detected = TRUE
             /\ s.o.device_ids = o.device_ids
             /\ s.o.platform_infos = o.platform_infos /\ s.o.missed = o.missed
             /\ Len(s.o.limits) <= MaxDescribed
             /\ s.ok = TRUE => /\ d # NoDevice /\ s.o.limits = Append(o.limits, d)
                               /\ \A f \in 1..6 : s.o.infos[f] = d
  <2>1. /\ s.ok \in BOOLEAN /\ s.o \in DeviceRecord /\ Counted(s.o)
        /\ s.o.platform_index = o.platform_index /\ s.o.device_index = o.device_index
        /\ s.o.platform_detected = o.platform_detected
        /\ s.o.device_detected = o.device_detected /\ s.o.device_ids = o.device_ids
        /\ s.o.platform_infos = o.platform_infos /\ s.o.missed = o.missed
        /\ s.o.limits \in {o.limits, Append(o.limits, d)}
        /\ s.ok = TRUE => /\ d # NoDevice /\ s.o.limits = Append(o.limits, d)
                          /\ \A f \in 1..6 : s.o.infos[f] = d
    BY <1>3, <1>5, BasicInfosAsked DEF d
  <2>2. Len(s.o.limits) <= MaxDescribed
    BY <1>1, <1>7, <2>1, RangesAssumption
  <2> QED BY <1>4, <2>1, <2>2
<1> HIDE DEF basic
<1>9. ASSUME NEW r \in noted
      PROVE  Described(o, d, r.o)
  <2>1. \A s \in basic : s.ok \in BOOLEAN /\ s.o \in DeviceRecord /\ Counted(s.o)
    BY <1>8
  <2>2. PICK s \in basic :
          /\ r.o \in DeviceRecord /\ Counted(r.o) /\ SameDevice(s.o, r.o)
          /\ s.o.missed \subseteq r.o.missed
          /\ "device" \notin r.o.missed => s.ok = TRUE
    BY <2>1, Noted
  <2>3. /\ r.o.limits = s.o.limits /\ r.o.platform_infos = s.o.platform_infos
        /\ r.o.infos = s.o.infos
        /\ r.o.platform_index = s.o.platform_index /\ r.o.device_index = s.o.device_index
        /\ r.o.platform_detected = s.o.platform_detected
        /\ r.o.device_detected = s.o.device_detected /\ r.o.device_ids = s.o.device_ids
    BY <2>1, <2>2 DEF SameDevice, SameKnowledge, DeviceRecord
  <2> QED BY <1>8, <2>2, <2>3 DEF Described
<1> HIDE DEF noted
<1>10. ASSUME NEW x \in results
       PROVE  x.o \in DeviceRecord /\ Counted(x.o) /\ ToolRight(x.o, "described")
  <2>1. PICK r \in noted : x \in asked(r)
    OBVIOUS
  <2> DEFINE c == r.o
             thorough == D!GetDeviceThoroughInfos(c)
             n == [c EXCEPT !.thorough = d]
  <2>2. Described(o, d, c)
    BY <1>9
  <2>5. x \in D!Noting("device", thorough)
    BY <2>1
  <2> HIDE DEF c
  <2>3. D!GetDeviceId(c) = d
    BY <1>4, <2>2 DEF d, D!GetDeviceId, Described
  <2>4. \A s \in thorough : s = D!Result(FALSE, c) \/ s = D!Result(TRUE, n)
    BY <2>3 DEF D!GetDeviceThoroughInfos
  <2> HIDE DEF thorough
  <2>6. Described(o, d, n) /\ n.thorough = d
    <3>1. /\ n \in DeviceRecord /\ n.thorough = d /\ n.platforms = c.platforms
          /\ n.limits = c.limits /\ n.platform_infos = c.platform_infos
          /\ n.infos = c.infos /\ n.missed = c.missed
          /\ n.platform_index = c.platform_index /\ n.device_index = c.device_index
          /\ n.platform_detected = c.platform_detected
          /\ n.device_detected = c.device_detected /\ n.device_ids = c.device_ids
      BY <1>5, <2>2 DEF DeviceRecord, Described
    <3> HIDE DEF n
    <3> QED BY <2>2, <3>1 DEF Described, Counted
  <2> HIDE DEF n
  <2>7. ASSUME NEW s \in thorough
        PROVE  s.ok \in BOOLEAN /\ Described(o, d, s.o) /\ (s.ok = TRUE => s.o.thorough = d)
    <3>1. CASE s = D!Result(FALSE, c)
      <4>1. s.ok = FALSE /\ s.o = c
        BY <3>1, IsResult
      <4> QED BY <2>2, <4>1
    <3>2. CASE s = D!Result(TRUE, n)
      <4>1. s.ok = TRUE /\ s.o = n
        BY <3>2, IsResult
      <4> QED BY <2>6, <4>1
    <3> QED BY <2>4, <3>1, <3>2
  <2>8. \A s \in thorough : s.ok \in BOOLEAN /\ s.o \in DeviceRecord /\ Counted(s.o)
    BY <2>7 DEF Described
  <2>9. PICK s \in thorough :
          /\ x.o \in DeviceRecord /\ Counted(x.o) /\ SameDevice(s.o, x.o)
          /\ s.o.missed \subseteq x.o.missed
          /\ "device" \notin x.o.missed => s.ok = TRUE
    BY <2>5, <2>8, Noted
  <2> DEFINE y == x.o
  <2>10. Described(o, d, y) /\ y.thorough = s.o.thorough
    <3>1. Described(o, d, s.o)
      BY <2>7
    <3> QED BY <2>9, <3>1, NotedDescribed
  <2>11. "device" \notin y.missed =>
           /\ d # NoDevice /\ y.limits = Append(o.limits, d)
           /\ y.thorough = d /\ \A f \in 1..6 : y.infos[f] = d
    BY <2>7, <2>9, <2>10 DEF Described
  <2> HIDE DEF y
  <2>12. DescribedRight(y)
    <3>1. System[y.platform_index + 1][y.device_index + 1] = shown
      BY <2>10 DEF Described
    <3> HIDE DEF shown
    <3>2. "device" \notin y.missed => /\ d = shown /\ y.thorough = d
                                      /\ \A f \in 1..6 : y.infos[f] = d
                                      /\ Len(y.limits) = 1 => y.limits = <<d>>
                                      /\ Len(y.limits) >= 1
      BY <1>6, <1>7, <2>11
    <3> QED BY <3>1, <3>2 DEF DescribedRight
  <2>13. ToolRight(y, "described")
    <3>1. "platform" \notin y.missed => y.platform_infos = y.platform_index + 1
      BY <1>4, <2>10 DEF Described
    <3>2. Listed(y)
      BY <1>4, <2>10 DEF Listed, Described
    <3> QED BY <1>4, <2>10, <2>12, <3>1, <3>2 DEF ToolRight, Described
  <2> QED BY <2>9, <2>13 DEF y
<1> HIDE DEF results
<1>11. "described" \in Steps
  BY DEF Steps
<1> QED BY <1>1, <1>2, <1>10, <1>11, ToolStep

LEMMA DeviceNext ==
  ASSUME DeviceInv, D!Next
  PROVE  DeviceInv'
<1>1. ObjectsRight(devices) /\ step \in Steps
  BY DEF DeviceInv
<1>2. \A r \in D!Default :
        /\ r.o \in DeviceRecord /\ Counted(r.o) /\ Usable(r.o) /\ Told(r.o)
        /\ Len(r.o.limits) <= 1
  BY DefaultDevice
<1>3. "default" \in D!Object /\ "chosen" \in D!Object /\ "tool" \in D!Object
  BY DEF D!Object
<1>4. CASE D!CreateSharedDevice
  <2>1. /\ chain = NoDevice \/ shared = "default"
        /\ D!MadeOnce("default", D!Default)
        /\ shared' = "default" /\ program' = program /\ chain' = chain /\ step' = step
    BY <1>4 DEF D!CreateSharedDevice
  <2>2. /\ ObjectsRight(devices') /\ DOMAIN devices' = DOMAIN devices \cup {"default"}
        /\ \A n \in DOMAIN devices : devices'[n] = devices[n]
    BY <1>1, <1>2, <1>3, <2>1, Made
  <2> QED BY <2>1, <2>2 DEF DeviceInv
<1>5. ASSUME NEW p \in 0..2, NEW d \in 0..2, D!CreateSharedDeviceAt(p, d)
      PROVE  DeviceInv'
  <2>1. /\ chain = NoDevice
        /\ D!MadeOnce("chosen", D!Chosen(p, d))
        /\ shared' = "chosen" /\ program' = program /\ chain' = chain /\ step' = step
    BY <1>5 DEF D!CreateSharedDeviceAt
  <2>2. \A r \in D!Chosen(p, d) : r.o \in DeviceRecord /\ Counted(r.o) /\ Told(r.o)
    BY ChosenDevice
  <2>3. /\ ObjectsRight(devices') /\ DOMAIN devices' = DOMAIN devices \cup {"chosen"}
        /\ \A n \in DOMAIN devices : devices'[n] = devices[n]
    BY <1>1, <1>3, <2>1, <2>2, Made
  <2> QED BY <2>1, <2>3 DEF DeviceInv
<1>6. CASE D!CreateChain
  <2>1. /\ D!MadeOnce("default", D!Default)
        /\ shared' = "default" /\ program' = program /\ step' = step
        /\ chain' = D!GetDeviceId(devices'["default"])
    BY <1>6 DEF D!CreateChain, D!DeviceOfFrame
  <2>2. /\ ObjectsRight(devices') /\ DOMAIN devices' = DOMAIN devices \cup {"default"}
        /\ \A n \in DOMAIN devices : devices'[n] = devices[n]
    BY <1>1, <1>2, <1>3, <2>1, Made
  <2>3. devices'["default"] \in DeviceRecord /\ Usable(devices'["default"])
    BY <2>2 DEF ObjectsRight
  <2>4. chain' \in Id
    BY <2>1, <2>3, DeviceIds
  <2> QED BY <2>1, <2>2, <2>4 DEF DeviceInv
<1>7. CASE D!CreateChainWithQueue
  <2>1. /\ shared # "null" /\ D!GetDeviceNum(devices[shared]) > devices[shared].device_index
        /\ chain' = D!GetDeviceId(devices[shared])
        /\ UNCHANGED <<program, devices, shared, step>>
    BY <1>7 DEF D!CreateChainWithQueue
  <2>2. devices[shared] \in DeviceRecord
    BY <2>1 DEF DeviceInv, ObjectsRight
  <2>3. chain' \in Id
    BY <2>1, <2>2, DeviceIds
  <2> QED BY <2>1, <2>3 DEF DeviceInv
<1>8. ASSUME NEW f \in {1, 2}, D!Check(f)
      PROVE  DeviceInv'
  <2> DEFINE o == devices[shared]
             n == [o EXCEPT !.infos = [o.infos EXCEPT ![f] = D!GetDeviceId(o)]]
  <2>1. /\ shared # "null" /\ D!GetDeviceNum(o) > o.device_index
        /\ devices' = [devices EXCEPT ![shared] = n]
        /\ program' = program /\ shared' = shared /\ chain' = chain /\ step' = step
    BY <1>8 DEF D!Check
  <2>2. /\ shared \in DOMAIN devices /\ shared # "tool"
        /\ o \in DeviceRecord /\ Counted(o) /\ Told(o)
        /\ shared = "default" => Usable(o)
    BY <2>1 DEF DeviceInv, ObjectsRight
  <2>3. D!GetDeviceId(o) \in Id
    BY <2>1, <2>2, DeviceIds
  <2> HIDE DEF o
  <2>4. /\ n \in DeviceRecord /\ n.infos = [o.infos EXCEPT ![f] = D!GetDeviceId(o)]
        /\ n.limits = o.limits /\ n.platforms = o.platforms
        /\ n.platform_index = o.platform_index /\ n.device_index = o.device_index
        /\ n.platform_detected = o.platform_detected
        /\ n.device_detected = o.device_detected /\ n.device_ids = o.device_ids
    <3>1. [o.infos EXCEPT ![f] = D!GetDeviceId(o)] \in [1..6 -> Id]
      BY <2>2, <2>3 DEF DeviceRecord
    <3> QED BY <2>2, <3>1 DEF DeviceRecord
  <2> HIDE DEF n
  <2>5. D!GetDeviceId(n) = D!GetDeviceId(o)
    BY <2>4 DEF D!GetDeviceId
  <2>6. /\ \A g \in 1..6 : n.infos[g] \in {o.infos[g], D!GetDeviceId(o)}
        /\ n.infos[6] = o.infos[6]
    BY <2>2, <2>4 DEF DeviceRecord
  <2>7. Told(n) /\ Counted(n) /\ (Usable(o) => Usable(n))
    BY <2>2, <2>4, <2>5, <2>6 DEF Told, Counted, Usable, Listed
  <2>8. /\ DOMAIN devices' = DOMAIN devices /\ devices'[shared] = n
        /\ \A m \in DOMAIN devices \ {shared} : devices'[m] = devices[m]
    BY <2>1, <2>2
  <2>9. ObjectsRight(devices')
    BY <1>1, <2>2, <2>4, <2>7, <2>8 DEF ObjectsRight
  <2>10. chain' # NoDevice => shared' # "null" /\ chain' = D!GetDeviceId(devices'[shared'])
    BY <2>1, <2>5, <2>8 DEF DeviceInv, o
  <2> QED BY <2>1, <2>2, <2>8, <2>9, <2>10 DEF DeviceInv
<1>9. CASE D!DestroyChain
  <2>1. chain' = NoDevice /\ UNCHANGED <<program, devices, shared, step>>
    BY <1>9 DEF D!DestroyChain
  <2> QED BY <2>1 DEF DeviceInv, Id
<1>10. CASE D!StartTool
  <2>1. /\ "tool" \notin DOMAIN devices
        /\ D!MadeOnce("tool", D!Default)
        /\ shared' = shared /\ program' = program /\ chain' = chain /\ step' = step
    BY <1>10 DEF D!StartTool
  <2>2. /\ ObjectsRight(devices') /\ DOMAIN devices' = DOMAIN devices \cup {"tool"}
        /\ \A n \in DOMAIN devices : devices'[n] = devices[n]
        /\ \E r \in D!Default : devices'["tool"] = r.o
    BY <1>1, <1>2, <1>3, <2>1, Made
  <2>3. Usable(devices'["tool"]) /\ Len(devices'["tool"].limits) <= 1
        /\ devices'["tool"] \in DeviceRecord
    BY <1>2, <2>2
  <2>4. step = "any"
    BY <2>1 DEF DeviceInv
  <2>5. Len(devices'["tool"].limits) <= MaxDescribed
    BY <2>3, RangesAssumption, LenProperties DEF DeviceRecord
  <2>6. ToolRight(devices'["tool"], "any")
    BY <2>3, <2>5 DEF ToolRight
  <2>7. chain' # NoDevice => shared' # "null" /\ chain' = D!GetDeviceId(devices'[shared'])
    BY <2>1, <2>2 DEF DeviceInv
  <2> QED BY <2>1, <2>2, <2>4, <2>6, <2>7 DEF DeviceInv
<1> DEFINE tool == devices["tool"]
<1>11. "tool" \in DOMAIN devices =>
         tool \in DeviceRecord /\ Counted(tool) /\ ToolRight(tool, step)
  BY DEF DeviceInv, ObjectsRight
<1>12. /\ \A at \in Steps : at \in Steps
       /\ "platforms" \in Steps /\ "infos" \in Steps /\ "devices" \in Steps
       /\ "device" \in Steps /\ "describe" \in Steps /\ "described" \in Steps
  BY DEF Steps
<1>13. CASE D!ToolDetectsPlatforms
  <2> DEFINE o == [tool EXCEPT !.missed = {}]
  <2>1. "tool" \in DOMAIN devices /\ D!Tool(D!DetectPlatforms(o), "platforms")
    BY <1>13 DEF D!ToolDetectsPlatforms
  <2> HIDE DEF tool
  <2>2. /\ o \in DeviceRecord /\ o.platform_detected = tool.platform_detected
        /\ o.platforms = tool.platforms /\ o.limits = tool.limits
    BY <1>11, <2>1 DEF DeviceRecord, AskedFor
  <2> HIDE DEF o
  <2>3. Counted(o) /\ Len(o.limits) <= MaxDescribed
    BY <1>11, <2>1, <2>2 DEF Counted, ToolRight
  <2>4. \A r \in D!DetectPlatforms(o) :
          r.o \in DeviceRecord /\ Counted(r.o) /\ r.o.limits = o.limits
    BY <2>2, <2>3, PlatformsDetected DEF SameKnowledge
  <2>5. \A r \in D!DetectPlatforms(o) : ToolRight(r.o, "platforms")
    BY <2>3, <2>4 DEF ToolRight
  <2> QED BY <1>12, <2>1, <2>4, <2>5, ToolStep
<1>14. ASSUME NEW i \in 0..2, D!SetPlatformIndex(i)
       PROVE  DeviceInv'
  <2> DEFINE o == [tool EXCEPT !.platform_index = i]
             results == {D!Result(TRUE, o)}
  <2>1. step = "platforms" /\ i < D!GetPlatformNum(tool) /\ D!Tool(results, "infos")
    BY <1>14 DEF D!SetPlatformIndex
  <2>2. "tool" \in DOMAIN devices
    BY <2>1 DEF DeviceInv
  <2> HIDE DEF tool
  <2>3. tool.platform_detected = TRUE /\ i < Len(System)
    BY <1>11, <2>1, <2>2 DEF D!GetPlatformNum, Counted, DeviceRecord
  <2>4. /\ o \in DeviceRecord /\ Counted(o) /\ o.platform_detected = TRUE
        /\ o.platform_index = i /\ o.limits = tool.limits
    <3>1. i \in Nat
      OBVIOUS
    <3> QED BY <1>11, <2>2, <2>3, <3>1 DEF DeviceRecord, Counted
  <2> HIDE DEF o
  <2>5. ToolRight(o, "infos")
    BY <1>11, <2>2, <2>3, <2>4 DEF ToolRight
  <2>6. \A r \in results : r.o \in DeviceRecord /\ Counted(r.o) /\ ToolRight(r.o, "infos")
    BY <2>4, <2>5, IsResult
  <2> HIDE DEF results
  <2> QED BY <1>12, <2>1, <2>2, <2>6, ToolStep
<1>15. CASE D!ToolAsksPlatform
  <2> DEFINE asked == D!GetPlatformInfos(tool)
  <2>1. step = "infos" /\ D!Tool(D!Noting("platform", asked), "devices")
    BY <1>15 DEF D!ToolAsksPlatform
  <2>2. "tool" \in DOMAIN devices
    BY <2>1 DEF DeviceInv
  <2> HIDE DEF tool
  <2>3. /\ tool \in DeviceRecord /\ Counted(tool) /\ tool.platform_detected = TRUE
        /\ tool.platform_index < Len(System) /\ Len(tool.limits) <= MaxDescribed
    BY <1>11, <2>1, <2>2 DEF ToolRight
  <2> DEFINE n == [tool EXCEPT !.platform_infos = tool.platform_index + 1]
  <2>4. /\ n \in DeviceRecord /\ Counted(n) /\ n.platform_infos = n.platform_index + 1
        /\ n.limits = tool.limits /\ n.platform_detected = TRUE
        /\ n.platform_index = tool.platform_index
    <3>1. tool.platform_index + 1 \in 0..Len(System)
      BY <2>3, SystemIs DEF DeviceRecord
    <3> QED BY <2>3, <3>1 DEF DeviceRecord, Counted
  <2>5. \A s \in asked : s = D!Result(FALSE, tool) \/ s = D!Result(TRUE, n)
    BY DEF D!GetPlatformInfos
  <2> HIDE DEF asked, n
  <2>6. ASSUME NEW s \in asked
        PROVE  /\ s.ok \in BOOLEAN /\ s.o \in DeviceRecord /\ Counted(s.o)
               /\ s.o.limits = tool.limits /\ s.o.platform_detected = TRUE
               /\ s.o.platform_index = tool.platform_index
               /\ s.ok = TRUE => s.o.platform_infos = s.o.platform_index + 1
    <3>1. CASE s = D!Result(FALSE, tool)
      <4>1. s.ok = FALSE /\ s.o = tool
        BY <3>1, IsResult
      <4> QED BY <2>3, <4>1
    <3>2. CASE s = D!Result(TRUE, n)
      <4>1. s.ok = TRUE /\ s.o = n
        BY <3>2, IsResult
      <4> QED BY <2>4, <4>1
    <3> QED BY <2>5, <3>1, <3>2
  <2>7. ASSUME NEW r \in D!Noting("platform", asked)
        PROVE  r.o \in DeviceRecord /\ Counted(r.o) /\ ToolRight(r.o, "devices")
    <3>0. \A s \in asked : s.ok \in BOOLEAN /\ s.o \in DeviceRecord /\ Counted(s.o)
      BY <2>6
    <3>1. PICK s \in asked :
             /\ r.o \in DeviceRecord /\ Counted(r.o) /\ SameDevice(s.o, r.o)
             /\ "platform" \notin r.o.missed => s.ok = TRUE
      BY <3>0, Noted
    <3>2. /\ r.o.limits = s.o.limits /\ r.o.platform_infos = s.o.platform_infos
          /\ r.o.platform_index = s.o.platform_index
          /\ r.o.platform_detected = s.o.platform_detected
      BY <2>6, <3>1 DEF SameDevice, SameKnowledge, DeviceRecord
    <3>3. /\ Len(r.o.limits) <= MaxDescribed /\ r.o.platform_detected = TRUE
          /\ r.o.platform_index < Len(System)
          /\ "platform" \notin r.o.missed => r.o.platform_infos = r.o.platform_index + 1
      BY <2>3, <2>6, <3>1, <3>2
    <3> QED BY <3>1, <3>3 DEF ToolRight
  <2> QED BY <1>12, <2>1, <2>2, <2>7, ToolStep
<1>16. CASE D!ToolDetectsDevices
  <2>1. step = "devices" /\ D!Tool(D!DetectDevices(tool), "device")
    BY <1>16 DEF D!ToolDetectsDevices
  <2>2. "tool" \in DOMAIN devices
    BY <2>1 DEF DeviceInv
  <2> HIDE DEF tool
  <2>3. ASSUME NEW r \in D!DetectDevices(tool)
        PROVE  r.o \in DeviceRecord /\ Counted(r.o) /\ ToolRight(r.o, "device")
    <3>1. /\ r.o \in DeviceRecord /\ Counted(r.o) /\ SameKnowledge(tool, r.o)
          /\ r.o.platform_index = tool.platform_index
          /\ r.o.platform_detected = tool.platform_detected
          /\ Len(r.o.device_ids) > 0 => Listed(r.o)
      BY <1>11, <2>2, DevicesDetected
    <3> QED BY <1>11, <2>1, <2>2, <3>1 DEF ToolRight, SameKnowledge
  <2> QED BY <1>12, <2>1, <2>2, <2>3, ToolStep
<1>17. ASSUME NEW i \in 0..2, D!SetDeviceIndex(i)
       PROVE  DeviceInv'
  <2> DEFINE o == [tool EXCEPT !.device_index = i]
             results == {D!Result(TRUE, o)}
  <2>1. step = "device" /\ i < D!GetDeviceNum(tool) /\ D!Tool(results, "describe")
    BY <1>17 DEF D!SetDeviceIndex
  <2>2. "tool" \in DOMAIN devices
    BY <2>1 DEF DeviceInv
  <2> HIDE DEF tool
  <2>3. tool.device_detected = TRUE /\ i < Len(tool.device_ids) /\ Len(tool.device_ids) > 0
    BY <1>11, <2>1, <2>2, LenProperties DEF D!GetDeviceNum, DeviceRecord
  <2>4. /\ o \in DeviceRecord /\ Counted(o) /\ o.platform_detected = tool.platform_detected
        /\ o.platform_index = tool.platform_index /\ o.limits = tool.limits
        /\ o.device_index = i /\ o.device_ids = tool.device_ids
        /\ o.device_detected = tool.device_detected
        /\ o.missed = tool.missed /\ o.platform_infos = tool.platform_infos
    <3>1. i \in Nat
      OBVIOUS
    <3> QED BY <1>11, <2>2, <3>1 DEF DeviceRecord, Counted
  <2> HIDE DEF o
  <2>5. ToolRight(o, "describe")
    BY <1>11, <2>1, <2>2, <2>3, <2>4 DEF ToolRight, Listed
  <2>6. \A r \in results : r.o \in DeviceRecord /\ Counted(r.o) /\ ToolRight(r.o, "describe")
    <3>1. ASSUME NEW r \in results PROVE r.o = o
      BY IsResult
    <3> HIDE DEF results
    <3> QED BY <2>4, <2>5, <3>1
  <2> HIDE DEF results
  <2> QED BY <1>12, <2>1, <2>2, <2>6, ToolStep
<1>18. CASE D!ToolDescribes
  BY <1>11, <1>12, <1>18, Describes
<1>19. \/ D!CreateSharedDevice \/ D!CreateChain \/ D!CreateChainWithQueue \/ D!DestroyChain
       \/ \E f \in {1, 2} : D!Check(f)
       \/ \E p \in 0..2, d \in 0..2 : D!CreateSharedDeviceAt(p, d)
       \/ D!StartTool \/ D!ToolDetectsPlatforms \/ D!ToolAsksPlatform
       \/ D!ToolDetectsDevices \/ D!ToolDescribes
       \/ \E i \in 0..2 : D!SetPlatformIndex(i) \/ D!SetDeviceIndex(i)
  BY DEF D!Next
<1> QED BY <1>4, <1>5, <1>6, <1>7, <1>8, <1>9, <1>10, <1>13, <1>14, <1>15, <1>16, <1>17, <1>18,
           <1>19
(* Rounded up to whole groups *)
LEMMA Rounding ==
  ASSUME NEW n \in Nat, NEW k \in Nat \ {0}
  PROVE  D!RoundUp(n, k) - n \in 0..(k - 1) /\ D!RoundUp(n, k) % k = 0
<1> DEFINE x == n + k - 1
           q == x \div k
           r == x % k
           rounded == q * k
<1>1. x \in Int
  OBVIOUS
<1>2. x = n + k - 1
  OBVIOUS
<1> HIDE DEF x
<1>3. q \in Int /\ r \in 0..(k - 1) /\ r \in Int /\ x = k * q + r
  BY <1>1, Division
<1>4. D!RoundUp(n, k) = rounded
  BY DEF D!RoundUp, x
<1> HIDE DEF q, r
<1>5. rounded \in Int /\ rounded = 0 + k * q /\ rounded = k * q
  BY <1>3
<1>6. rounded % k = 0 % k
  <2> HIDE DEF rounded
  <2> QED BY <1>3, <1>5, Congruent
<1>7. rounded - n = k - 1 - r
  <2> DEFINE y == k * q
  <2>1. y \in Int /\ x = y + r /\ rounded = y
    BY <1>3, <1>5
  <2> HIDE DEF y, rounded
  <2> QED BY <1>2, <1>3, <2>1
<1>8. 0 % k = 0
  OBVIOUS
<1> HIDE DEF rounded
<1> QED BY <1>3, <1>4, <1>5, <1>6, <1>7, <1>8

(* The limits of one device are its own. *)
LEMMA OneLimit ==
  ASSUME NEW d \in D!Detectable
  PROVE  D!Limits(<<d>>) = PerDim[d]
<1> DEFINE of == <<d>>
           G(f) == [n \in 0..Len(of) |-> IF n = 0 THEN <<>> ELSE f[n - 1] \o PerDim[of[n]]]
           appended == CHOOSE f : f = G(f)
           g == [n \in 0..1 |-> IF n = 0 THEN <<>> ELSE PerDim[d]]
<1>1. Len(of) = 1 /\ of[1] = d
  OBVIOUS
<1>2. PerDim[d] \in Seq(Nat) /\ <<>> \o PerDim[d] = PerDim[d]
  BY SystemIs, ConcatEmptySeq
<1>3. g = G(g)
  <2>1. g[0] = <<>> /\ g[1] = PerDim[d]
    OBVIOUS
  <2>2. \A n \in 0..1 : n = 0 \/ n = 1
    OBVIOUS
  <2> HIDE DEF of, g
  <2>3. PerDim[of[1]] = PerDim[d] /\ 1 - 1 = 0
    BY <1>1
  <2>4. ASSUME NEW n \in 0..1
        PROVE  g[n] = IF n = 0 THEN <<>> ELSE g[n - 1] \o PerDim[of[n]]
    <3>1. CASE n = 0
      BY <2>1, <3>1
    <3>2. CASE n = 1
      BY <1>2, <2>1, <2>3, <3>2
    <3> QED BY <2>2, <3>1, <3>2
  <2>5. g = [n \in 0..1 |-> IF n = 0 THEN <<>> ELSE g[n - 1] \o PerDim[of[n]]]
    <3>1. g = [n \in 0..1 |-> g[n]]
      BY DEF g
    <3> QED BY <2>4, <3>1
  <2> QED BY <1>1, <2>5
<1>4. appended = G(appended)
  <2> HIDE DEF G, g
  <2> QED BY <1>3
<1>5. D!Limits(of) = appended[Len(of)]
  BY DEF D!Limits
<1> HIDE DEF appended
<1>6. appended[0] = <<>> /\ appended[1] = appended[0] \o PerDim[d]
  BY <1>1, <1>4
<1> QED BY <1>1, <1>2, <1>5, <1>6

(* A shared device that could be asked for everything *)
LEMMA KnownDevice ==
  ASSUME DeviceInv, chain # NoDevice, \A f \in 1..6 : devices[shared].infos[f] # NoDevice
  PROVE  LET o == devices[shared]
         IN  /\ chain \in D!Detectable /\ \A f \in 1..6 : o.infos[f] = chain
             /\ D!Limits(o.limits) = PerDim[chain]
<1> DEFINE o == devices[shared]
<1>1. /\ shared \in DOMAIN devices \ {"tool"} /\ chain = D!GetDeviceId(o) /\ chain \in D!Detectable
  BY DEF DeviceInv, Id
<1>2. Told(o)
  BY <1>1 DEF DeviceInv, ObjectsRight
<1>3. \A f \in 1..6 : o.infos[f] = chain
  BY <1>1, <1>2 DEF Told
<1>4. o.limits = <<chain>>
  BY <1>1, <1>2 DEF Told
<1> QED BY <1>1, <1>3, <1>4, OneLimit

LEMMA LaunchCovers == DeviceInv => D!LaunchFits
<1> SUFFICES ASSUME DeviceInv, chain # NoDevice,
                    \A f \in DOMAIN D!Fields : devices[shared].infos[f] # NoDevice,
                    NEW r \in D!NDRange
             PROVE  LET o == devices[shared]
                    IN  /\ D!Accepted(o, r) <=> D!Fits(chain, r)
                        /\ D!Fits(chain, r) => \A i \in 1..r.dims :
                             LET size == IF r.local # <<>> THEN r.local[i]
                                          ELSE IF i = 1 THEN 32 ELSE 4
                                 launched == D!Rounded(o, r, i)
                             IN  /\ launched - r.global[i] \in 0..(size - 1)
                                 /\ Version[chain] < 200 => launched % size = 0
  BY DEF D!LaunchFits
<1> DEFINE o == devices[shared]
<1>1. /\ chain \in D!Detectable /\ \A f \in 1..6 : o.infos[f] = chain
      /\ D!Limits(o.limits) = PerDim[chain]
  BY FieldsAre, KnownDevice
<1>2. /\ r.dims \in Nat /\ r.dims <= MaxDims /\ \A i \in 1..r.dims : r.global[i] \in Nat
      /\ r.local # <<>> => \A i \in 1..r.dims : r.local[i] \in Nat \ {0}
  <2>1. /\ r.dims \in 0..MaxDims /\ r.global \in [1..MaxDims -> Globals]
        /\ r.local \in {<<>>} \cup [1..MaxDims -> Locals]
    BY DEF D!NDRange
  <2>2. 1..r.dims \subseteq 1..MaxDims /\ r.dims \in Nat /\ r.dims <= MaxDims
    BY <2>1, RangesAssumption
  <2> QED BY <2>1, <2>2, RangesAssumption
<1>3. D!Dims(chain) \in Nat
  BY <1>1, SystemIs, LenProperties DEF D!Dims
<1> HIDE DEF o
<1>4. D!Accepted(o, r) <=> D!Fits(chain, r)
  <2>1. r.dims >= 1 /\ r.dims <= D!Dims(o.infos[3]) <=> r.dims \in 1..D!Dims(chain)
    BY <1>1, <1>2, <1>3
  <2>2. \A i \in 1..r.dims : r.global[i] # 0 <=> r.global[i] > 0
    BY <1>2
  <2> QED BY <1>1, <2>1, <2>2 DEF D!Accepted, D!Fits
<1>5. ASSUME NEW i \in 1..r.dims
      PROVE  LET size == IF r.local # <<>> THEN r.local[i] ELSE IF i = 1 THEN 32 ELSE 4
                 launched == D!Rounded(o, r, i)
             IN  /\ launched - r.global[i] \in 0..(size - 1)
                 /\ Version[chain] < 200 => launched % size = 0
  <2> DEFINE n == r.global[i]
             size == IF r.local # <<>> THEN r.local[i] ELSE IF i = 1 THEN 32 ELSE 4
             launched == D!Rounded(o, r, i)
             up == D!RoundUp(n, size)
  <2>1. n \in Nat /\ size \in Nat \ {0}
    BY <1>2
  <2>2. up - n \in 0..(size - 1) /\ up % size = 0
    <3> HIDE DEF n, size
    <3> QED BY <2>1, Rounding
  <2>3. Version[chain] < 200 <=> D!Older(o)
    BY <1>1 DEF D!Older
  <2>4. launched = up \/ (launched = n /\ ~D!Older(o))
    <3>1. CASE r.local = <<>> /\ D!Older(o)
      <4>1. launched = D!RoundUp(n, IF i = 1 THEN 32 ELSE 4)
        BY <3>1 DEF D!Rounded
      <4> QED BY <3>1, <4>1
    <3>2. CASE r.local # <<>> /\ (D!Older(o) \/ o.infos[1] \in Mali)
      <4>1. launched = D!RoundUp(n, r.local[i])
        BY <3>2 DEF D!Rounded
      <4> QED BY <3>2, <4>1
    <3>3. CASE ~D!Older(o) /\ ~(r.local # <<>> /\ o.infos[1] \in Mali)
      BY <3>3 DEF D!Rounded
    <3> QED BY <3>1, <3>2, <3>3
  <2> HIDE DEF n, size, launched, up
  <2>5. launched - n \in 0..(size - 1)
    BY <2>1, <2>2, <2>4
  <2>6. Version[chain] < 200 => launched % size = 0
    BY <2>2, <2>3, <2>4
  <2> QED BY <2>5, <2>6 DEF n, size, launched
<1> QED BY <1>4, <1>5 DEF o

LEMMA DeviceSafe ==
  DeviceInv => D!TypeOK /\ D!IndicesInRange /\ D!LaunchFits /\ D!PrintedIsTheDevices
<1> SUFFICES ASSUME DeviceInv
             PROVE  D!TypeOK /\ D!IndicesInRange /\ D!LaunchFits /\ D!PrintedIsTheDevices
  OBVIOUS
<1>1. ASSUME NEW n \in DOMAIN devices
      PROVE  LET o == devices[n]
             IN  /\ o \in DeviceRecord /\ Counted(o)
                 /\ n # "tool" => Told(o)
                 /\ n = "tool" => ToolRight(o, step)
                 /\ n = "default" => Usable(o)
                 /\ n \in D!Object /\ o.platform_index \in Nat /\ o.device_index \in Nat
                 /\ Len(o.device_ids) \in Nat /\ Len(o.limits) \in Nat
                 /\ Len(System) \in Nat
  BY SystemIs, LenProperties DEF DeviceInv, ObjectsRight, DeviceRecord
<1>2. D!TypeOK
  <2>1. ASSUME NEW n \in DOMAIN devices
        PROVE  LET o == devices[n]
               IN  /\ o.platforms \in {0, Len(System)}
                   /\ D!Range(o.device_ids) \subseteq D!Detectable \cup {NoDevice}
                   /\ o.infos \in [DOMAIN D!Fields -> D!Detectable \cup {NoDevice}]
                   /\ o.thorough \in D!Detectable \cup {NoDevice}
                   /\ o.platform_infos \in 0..Len(System)
                   /\ Len(o.limits) <= MaxDescribed /\ o.missed \subseteq {"platform", "device"}
    <3> DEFINE o == devices[n]
    <3>1. o \in DeviceRecord
      BY <1>1
    <3>2. Len(o.limits) <= MaxDescribed
      <4>1. CASE n = "tool"
        BY <1>1, <4>1 DEF ToolRight
      <4>2. CASE n # "tool"
        <5>1. o.limits = <<>> \/ o.limits = <<D!GetDeviceId(o)>>
          BY <1>1, <4>2 DEF Told
        <5>2. \A x : Len(<<>>) = 0 /\ Len(<<x>>) = 1
          OBVIOUS
        <5> DEFINE limits == o.limits
        <5>3. limits = <<>> \/ limits = <<D!GetDeviceId(o)>>
          BY <5>1
        <5> HIDE DEF limits
        <5>4. Len(limits) = 0 \/ Len(limits) = 1
          BY <5>2, <5>3
        <5>5. MaxDescribed >= 1 /\ MaxDescribed \in Nat
          BY RangesAssumption
        <5>6. Len(limits) <= MaxDescribed
          BY <5>4, <5>5
        <5> QED BY <5>6 DEF limits
      <4> QED BY <4>1, <4>2
    <3> HIDE DEF o
    <3>3. o.device_ids \in Seq(Id)
      BY <3>1 DEF DeviceRecord
    <3>4. D!Range(o.device_ids) \subseteq Id
      BY <3>3, ElementOfSeq, LenProperties DEF D!Range
    <3>5. o.missed \in AskedFor /\ o.infos \in [1..6 -> Id]
      BY <3>1 DEF DeviceRecord
    <3> QED BY <3>1, <3>2, <3>4, <3>5, FieldsAre DEF DeviceRecord, Id, AskedFor, o
  <2> QED BY <2>1 DEF D!TypeOK, DeviceInv, ObjectsRight, Steps, Id
<1>3. D!IndicesInRange
  <2> SUFFICES ASSUME NEW n \in DOMAIN devices \ {"chosen"},
                      step \in {"any", "describe", "described"}
               PROVE  LET o == devices[n]
                          there == System[o.platform_index + 1]
                      IN  /\ o.platform_detected => o.platform_index < o.platforms
                          /\ o.device_detected =>
                               /\ o.device_index < Len(o.device_ids)
                               /\ o.device_ids \in {there, [i \in DOMAIN there |-> NoDevice]}
    BY DEF D!IndicesInRange
  <2> DEFINE o == devices[n]
  <2>1. o.platform_detected \in BOOLEAN /\ o.device_detected \in BOOLEAN
    BY <1>1 DEF DeviceRecord
  <2>2. Usable(o)
    <3>1. CASE n = "default"
      BY <1>1, <3>1
    <3>2. CASE n = "tool"
      <4> HIDE DEF o
      <4>1. ToolRight(o, step)
        BY <1>1, <3>2 DEF o
      <4>2. o.device_index \in Nat /\ Len(o.device_ids) \in Nat
        BY <1>1 DEF o
      <4> QED BY <4>1, <4>2 DEF ToolRight, Usable
    <3> QED BY <1>1, <3>1, <3>2 DEF D!Object
  <2>3. Counted(o)
    BY <1>1
  <2> HIDE DEF o
  <2>4. o.platform_detected => o.platform_index < o.platforms
    BY <2>1, <2>2, <2>3 DEF Usable, Counted
  <2>5. o.device_detected => o.device_index < Len(o.device_ids) /\ Listed(o)
    BY <2>1, <2>2 DEF Usable
  <2> QED BY <2>4, <2>5 DEF o, Listed
<1>4. D!PrintedIsTheDevices
  <2> DEFINE o == devices["tool"]
             d == System[o.platform_index + 1][o.device_index + 1]
  <2> SUFFICES ASSUME step = "described"
               PROVE  /\ "platform" \notin o.missed => o.platform_infos = o.platform_index + 1
                      /\ "device" \notin o.missed =>
                           /\ D!Range(o.infos) \cup {o.thorough} = {d}
                           /\ Len(o.limits) = 1 => o.limits = <<d>>
                           /\ Len(o.limits) >= 1
    BY DEF D!PrintedIsTheDevices
  <2>1. "tool" \in DOMAIN devices
    BY DEF DeviceInv
  <2>2. ToolRight(o, "described") /\ o \in DeviceRecord
    BY <1>1, <2>1
  <2> HIDE DEF o
  <2>3. "platform" \notin o.missed => o.platform_infos = o.platform_index + 1
    BY <2>2 DEF ToolRight
  <2>4. "device" \notin o.missed =>
          /\ o.thorough = d /\ \A f \in 1..6 : o.infos[f] = d
          /\ Len(o.limits) = 1 => o.limits = <<d>>
          /\ Len(o.limits) >= 1
    BY <2>2 DEF ToolRight, DescribedRight
  <2>5. DOMAIN o.infos = 1..6
    BY <2>2 DEF DeviceRecord
  <2> HIDE DEF d
  <2>6. "device" \notin o.missed => D!Range(o.infos) = {d}
    BY <2>4, <2>5 DEF D!Range
  <2> QED BY <2>3, <2>4, <2>6
<1> QED BY <1>2, <1>3, <1>4, LaunchCovers

-----------------------------------------------------------------------------
(***************************************************************************)
(* The file of kernel binaries.  While it is written its header says what  *)
(* an earlier session has counted; a file that nothing was counted before  *)
(* has the maps where the header says, and any other is too short.         *)
(***************************************************************************)
KernelName == UNION {ToSet(Kernels[f]) : f \in Function}
Place == [at : Nat, size : Nat]
Binaries == SUBSET [at : Nat, of : Function]
KernelItems == SUBSET [at : Nat, of : KernelName \X Function]
FunctionItems == SUBSET [at : Nat, of : Function \X Place]

DbFile ==
  [header : K!Manager \cup {<<>>}, length : Nat,
   binaries : Binaries, kernels : KernelItems, functions : FunctionItems]

Counts(m) == m.kernelCount = 0 => m.functionCount = 0

(* Each binary has its place. *)
BinariesApart(d) ==
  /\ \A r \in d.binaries : r.at + Size[r.of] <= d.length
  /\ \A r, s \in d.binaries : r.at = s.at => r = s

FileInv ==
  /\ db \in DbFile
  /\ BinariesApart(db)
  /\ \A r \in db.kernels : r.at < db.length
  /\ \A r \in db.functions : r.at < db.length
  /\ db.length > 0 => db.header \in K!Manager /\ Counts(db.header)
  /\ dbFiled \subseteq Function

(* The functions whose kernels and binaries have been entered in the maps *)
Entered ==
  /\ DOMAIN kernel2function = UNION {ToSet(Kernels[f]) : f \in DOMAIN function2binaries}
  /\ \A f \in DOMAIN function2binaries :
       /\ function2binaries[f].size = Size[f]
       /\ [at |-> function2binaries[f].at, of |-> f] \in db.binaries
       /\ \A k \in ToSet(Kernels[f]) : kernel2function[k] = f

Writing ==
  /\ db.kernels = {} /\ db.functions = {} /\ dbFiled = {} /\ db.length >= 2
  /\ IsFiniteSet(DOMAIN kernel2function) /\ IsFiniteSet(DOMAIN function2binaries)
  /\ db.header.kernelOffset = 2 /\ db.header.functionOffset = 2
  /\ db.header.kernelCount = mgr.kernelCount
  /\ mgr.functionCount = db.header.functionCount + Cardinality(DOMAIN function2binaries)
  /\ DOMAIN function2binaries # {} => DOMAIN kernel2function # {}
  /\ first = TRUE <=> mgr.kernelCount = 0
  /\ clash = FALSE => mgr.functionOffset = db.length /\ Entered

(* What loadBinariesInfo checks, and what it reads *)
Reached == db.header.kernelOffset + db.header.kernelCount * 7
Loads ==
  /\ K!LongEnough(db.header.kernelOffset, db.header.kernelCount, 7)
  /\ Reached = db.header.functionOffset
  /\ K!LongEnough(Reached, db.header.functionCount, 4)
KernelsRead == K!Read(db.kernels, db.header.kernelOffset, db.header.kernelCount, 7)
FunctionsRead == K!Read(db.functions, Reached, db.header.functionCount, 4)

ItemsRight ==
  /\ \A f \in dbFiled : \A k \in ToSet(Kernels[f]) : <<k, f>> \in KernelsRead
  /\ \A i \in KernelsRead : i[2] \in dbFiled /\ i[1] \in ToSet(Kernels[i[2]])
  /\ \A i, j \in KernelsRead : i[1] = j[1] => i = j
  /\ \A f \in dbFiled : \E i \in FunctionsRead : i[1] = f
  /\ \A i \in FunctionsRead :
       /\ i[1] \in dbFiled /\ i[2].size = Size[i[1]]
       /\ [at |-> i[2].at, of |-> i[1]] \in db.binaries

OnDisk ==
  db.length > 0 => /\ first = TRUE => Loads /\ ItemsRight
                   /\ first = FALSE => ~Loads

MapsTyped ==
  /\ DOMAIN kernel2function \subseteq KernelName
  /\ \A k \in DOMAIN kernel2function : kernel2function[k] \in Function
  /\ DOMAIN function2binaries \subseteq Function
  /\ \A f \in DOMAIN function2binaries : function2binaries[f] \in Place

DatabaseInv ==
  /\ mode \in {"none", "compile", "retrieve", "failed"}
  /\ first \in BOOLEAN /\ clash \in BOOLEAN
  /\ mgr \in K!Manager /\ (mode # "compile" => Counts(mgr))
  /\ FileInv /\ MapsTyped
  /\ mode = "none" => DOMAIN kernel2function = {} /\ DOMAIN function2binaries = {}
  /\ mode = "compile" => Writing
  /\ mode # "compile" /\ clash = FALSE => OnDisk
  /\ mode = "retrieve" /\ clash = FALSE => first = TRUE /\ K!MapsAreRight
  /\ mode = "failed" /\ clash = FALSE => first = FALSE

LEMMA Sizes ==
  /\ K!HeaderSize = 2 /\ K!KernelItemSize = 7 /\ K!FunctionItemSize = 4
  /\ \A f \in Function : Size[f] \in Nat /\ Size[f] > 0
BY FunctionsAssumption DEF K!HeaderSize, K!KernelItemSize, K!FunctionItemSize

LEMMA KernelsOfFunction ==
  ASSUME NEW f \in Function
  PROVE  /\ DOMAIN Kernels[f] = 1..Len(Kernels[f]) /\ Len(Kernels[f]) \in Nat
         /\ ToSet(Kernels[f]) # {} /\ ToSet(Kernels[f]) \subseteq KernelName
<1> DEFINE s == Kernels[f]
           T == ToSet(s)
<1>1. s \in Seq(T) /\ s # <<>>
  BY FunctionsAssumption
<1> HIDE DEF T
<1>2. Len(s) \in Nat /\ DOMAIN s = 1..Len(s) /\ Len(s) # 0
  BY <1>1, LenProperties, EmptySeq
<1>3. s[1] \in T
  BY <1>2 DEF T, ToSet
<1> QED BY <1>2, <1>3 DEF T, KernelName

(* A finite set in some order *)
LEMMA Arranged ==
  ASSUME NEW S, IsFiniteSet(S)
  PROVE  LET q == K!SetToSeq(S)
             n == Cardinality(S)
         IN  /\ n \in Nat /\ DOMAIN q = 1..n /\ Len(q) = n
             /\ \A i \in 1..n : q[i] \in S
             /\ \A x \in S : \E i \in 1..n : q[i] = x
<1> DEFINE n == Cardinality(S)
           q == K!SetToSeq(S)
<1>1. n \in Nat /\ ExistsBijection(1..n, S)
  BY FS_CardinalityType
<1>2. \E p \in [1..n -> S] : K!IsInjective(p)
  BY <1>1 DEF ExistsBijection, Bijection, Injection, IsInjective, K!IsInjective
<1>3. q \in [1..n -> S] /\ IsInjective(q)
  <2> DEFINE P == [1..n -> S]
  <2>1. q = CHOOSE p \in P : K!IsInjective(p)
    BY DEF K!SetToSeq, K!Cardinality, Cardinality
  <2>2. q \in P /\ K!IsInjective(q)
    <3> HIDE DEF P, q
    <3> QED BY <1>2, <2>1 DEF P
  <2> QED BY <2>2 DEF IsInjective, K!IsInjective
<1> HIDE DEF n, q
<1>4. q \in Injection(1..n, S)
  BY <1>3 DEF Injection
<1>5. IsFiniteSet(1..n) /\ Cardinality(1..n) = n
  BY <1>1, FS_Interval
<1>6. q \in Surjection(1..n, S)
  BY <1>4, <1>5, FS_Injection DEF n
<1>7. q \in Seq(S)
  BY <1>1, <1>3, IsSequence
<1>8. Len(q) = n
  BY <1>1, <1>3, <1>7, LenProperties
<1> QED BY <1>1, <1>3, <1>6, <1>8 DEF Surjection, n, q

(* What was written one after the other is all read. *)
LEMMA ReadAll ==
  ASSUME NEW n \in Nat, NEW items, NEW from, NEW size, NEW it,
         \A i \in 1..n : K!Record(from + (i - 1) * size, it[i]) \in items,
         \A r \in items : \E i \in 1..n : r = K!Record(from + (i - 1) * size, it[i])
  PROVE  K!Read(items, from, n, size) = {it[i] : i \in 1..n}
<1>1. ASSUME NEW i \in 1..n
      PROVE  \E j \in 0..(n - 1) : from + (i - 1) * size = from + j * size
  <2>1. i - 1 \in 0..(n - 1)
    OBVIOUS
  <2> QED BY <2>1
<1>2. \A at, of : K!Record(at, of).at = at /\ K!Record(at, of).of = of
  BY DEF K!Record
<1>3. ASSUME NEW i \in 1..n
      PROVE  it[i] \in K!Read(items, from, n, size)
  <2>1. K!Record(from + (i - 1) * size, it[i]) \in items
    OBVIOUS
  <2> QED BY <1>1, <1>2, <2>1 DEF K!Read
<1>4. ASSUME NEW x \in K!Read(items, from, n, size)
      PROVE  x \in {it[i] : i \in 1..n}
  <2>1. PICK r \in items : x = r.of
    BY DEF K!Read
  <2>2. PICK i \in 1..n : r = K!Record(from + (i - 1) * size, it[i])
    OBVIOUS
  <2> QED BY <1>2, <2>1, <2>2
<1> QED BY <1>3, <1>4

LEMMA DatabaseInit == K!Init => DatabaseInv
<1> SUFFICES ASSUME K!Init PROVE DatabaseInv
  OBVIOUS
<1>1. DOMAIN <<>> = {}
  OBVIOUS
<1>2. /\ db = [header |-> <<>>, length |-> 0, binaries |-> {}, kernels |-> {}, functions |-> {}]
      /\ mgr = [kernelOffset |-> 0, kernelCount |-> 0, functionOffset |-> 0, functionCount |-> 0]
      /\ mode = "none" /\ kernel2function = <<>> /\ function2binaries = <<>> /\ dbFiled = {}
      /\ first = TRUE /\ clash = FALSE
  BY DEF K!Init, K!NoFile, K!FileOf, K!NewManager
<1>3. {} \in Binaries /\ {} \in KernelItems /\ {} \in FunctionItems
  BY DEF Binaries, KernelItems, FunctionItems
<1>4. FileInv
  BY <1>2, <1>3 DEF FileInv, DbFile, BinariesApart
<1>5. mgr \in K!Manager /\ Counts(mgr)
  BY <1>2 DEF K!Manager, Counts
<1>6. MapsTyped
  BY <1>1, <1>2 DEF MapsTyped
<1>7. OnDisk
  BY <1>2 DEF OnDisk
<1> QED BY <1>1, <1>2, <1>4, <1>5, <1>6, <1>7 DEF DatabaseInv

LEMMA CompileBegun ==
  ASSUME DatabaseInv, K!BeginCompile
  PROVE  DatabaseInv'
<1> DEFINE m == [mgr EXCEPT !.kernelOffset = 2, !.functionOffset = 2]
<1>1. /\ mode = "none" /\ mode' = "compile" /\ mgr' = m
      /\ db' = [header |-> m, length |-> 2, binaries |-> {}, kernels |-> {}, functions |-> {}]
      /\ dbFiled' = {} /\ clash' = FALSE
      /\ first' = (mgr.kernelCount = 0 /\ mgr.functionCount = 0)
      /\ kernel2function' = kernel2function /\ function2binaries' = function2binaries
  BY Sizes DEF K!BeginCompile, K!FileOf
<1>2. mgr \in K!Manager /\ Counts(mgr) /\ MapsTyped
  BY <1>1 DEF DatabaseInv
<1>3. /\ m \in K!Manager /\ m.kernelOffset = 2 /\ m.functionOffset = 2
      /\ m.kernelCount = mgr.kernelCount /\ m.functionCount = mgr.functionCount
  BY <1>2 DEF K!Manager
<1> HIDE DEF m
<1>4. Counts(m)
  BY <1>2, <1>3 DEF Counts
<1>5. {} \in Binaries /\ {} \in KernelItems /\ {} \in FunctionItems
  BY DEF Binaries, KernelItems, FunctionItems
<1>6. FileInv'
  <2>1. db' \in DbFile
    BY <1>1, <1>3, <1>5 DEF DbFile
  <2> QED BY <1>1, <1>3, <1>4, <2>1 DEF FileInv, BinariesApart
<1>7. DOMAIN kernel2function' = {} /\ DOMAIN function2binaries' = {}
  BY <1>1 DEF DatabaseInv
<1>8. IsFiniteSet({}) /\ Cardinality({}) = 0
  BY FS_EmptySet
<1>9. first' \in BOOLEAN /\ (first' = TRUE <=> mgr.kernelCount = 0)
  BY <1>1, <1>2 DEF Counts
<1>10. Entered'
  BY <1>7 DEF Entered
<1>11. Writing'
  <2>1. m.functionCount \in Nat
    BY <1>3 DEF K!Manager
  <2> QED BY <1>1, <1>3, <1>7, <1>8, <1>9, <1>10, <2>1 DEF Writing
<1>12. MapsTyped'
  BY <1>1, <1>2 DEF MapsTyped
<1> QED BY <1>1, <1>3, <1>4, <1>6, <1>9, <1>11, <1>12 DEF DatabaseInv

LEMMA FunctionStored ==
  ASSUME DatabaseInv, NEW f \in Function, K!Store(f)
  PROVE  DatabaseInv'
<1> DEFINE names == Kernels[f]
           taken == {i \in DOMAIN names : names[i] \in DOMAIN kernel2function}
           entered == {names[i] : i \in {j \in DOMAIN names : \A t \in taken : j < t}}
           binary == [at |-> db.length, of |-> f]
           place == [at |-> mgr.functionOffset, size |-> Size[f]]
           length == db.length + Size[f]
           binaries == db.binaries \cup {binary}
           d == [db EXCEPT !.length = length, !.binaries = binaries]
           offset == mgr.functionOffset + Size[f]
           count == mgr.functionCount + 1
           m == [mgr EXCEPT !.functionOffset = offset, !.functionCount = count]
<1>1. /\ mode = "compile" /\ mode' = "compile" /\ f \notin DOMAIN function2binaries
      /\ db' = d /\ dbFiled' = dbFiled /\ first' = first
      /\ kernel2function' = [k \in DOMAIN kernel2function \cup entered |->
                              IF k \in entered THEN f ELSE kernel2function[k]]
      /\ \/ /\ taken # {} /\ clash' = TRUE /\ mgr' = mgr
            /\ function2binaries' = function2binaries
         \/ /\ taken = {} /\ clash' = clash /\ mgr' = m
            /\ function2binaries' = [g \in DOMAIN function2binaries \cup {f} |->
                                       IF g = f THEN place ELSE function2binaries[g]]
  BY DEF K!Store, K!Record
<1>2. /\ mgr \in K!Manager /\ FileInv /\ MapsTyped /\ Writing
      /\ first \in BOOLEAN /\ clash \in BOOLEAN
  BY <1>1 DEF DatabaseInv
<1>3. /\ Size[f] \in Nat /\ Size[f] > 0
      /\ DOMAIN names = 1..Len(names) /\ Len(names) \in Nat
      /\ ToSet(names) # {} /\ ToSet(names) \subseteq KernelName
  BY Sizes, KernelsOfFunction
<1>4. db.length \in Nat /\ db.length >= 2 /\ db.header \in K!Manager /\ Counts(db.header)
  BY <1>2 DEF FileInv, DbFile, Writing
<1>5. /\ d \in DbFile /\ d.length = db.length + Size[f]
      /\ d.binaries = db.binaries \cup {binary}
      /\ d.header = db.header /\ d.kernels = db.kernels /\ d.functions = db.functions
  <2>1. db \in DbFile
    BY <1>2 DEF FileInv
  <2>2. db.binaries \cup {binary} \in Binaries
    BY <1>4, <2>1 DEF DbFile, Binaries
  <2>3. length \in Nat
    BY <1>3, <1>4
  <2> HIDE DEF length, binaries
  <2>4. d \in DbFile /\ d.length = length /\ d.binaries = binaries
        /\ d.header = db.header /\ d.kernels = db.kernels /\ d.functions = db.functions
    BY <2>1, <2>2, <2>3 DEF DbFile, binaries
  <2> QED BY <2>4 DEF length, binaries
<1> HIDE DEF d
<1>6. BinariesApart(d)
  <2>1. \A r \in db.binaries : r.at \in Nat /\ r.of \in Function /\ Size[r.of] > 0
                               /\ Size[r.of] \in Nat
    BY <1>2, Sizes DEF FileInv, DbFile, Binaries
  <2>2. \A r \in db.binaries : r.at + Size[r.of] <= db.length
    BY <1>2 DEF FileInv, BinariesApart
  <2>3. \A r \in db.binaries : r.at < db.length
    BY <1>4, <2>1, <2>2
  <2>4. binary.at = db.length /\ binary.of = f
    OBVIOUS
  <2> HIDE DEF binary
  <2>5. \A r \in d.binaries : r.at + Size[r.of] <= d.length
    BY <1>3, <1>4, <1>5, <2>1, <2>2, <2>4
  <2>6. \A r, s \in db.binaries : r.at = s.at => r = s
    BY <1>2 DEF FileInv, BinariesApart
  <2>7. \A r, s \in d.binaries : r.at = s.at => r = s
    BY <1>4, <1>5, <2>1, <2>3, <2>4, <2>6
  <2> QED BY <2>5, <2>7 DEF BinariesApart
<1>7. FileInv'
  <2>1. db'.kernels = {} /\ db'.functions = {}
    BY <1>1, <1>2, <1>5 DEF Writing
  <2> QED BY <1>1, <1>2, <1>4, <1>5, <1>6, <2>1 DEF FileInv
<1>8. entered \subseteq ToSet(names) /\ IsFiniteSet(entered)
      /\ (taken = {} => entered = ToSet(names))
  <2>1. entered \subseteq ToSet(names) /\ (taken = {} => entered = ToSet(names))
    BY DEF ToSet
  <2>2. IsFiniteSet(ToSet(names))
    <3> DEFINE T == ToSet(names)
               p == [i \in 1..Len(names) |-> names[i]]
    <3>1. T = {names[i] : i \in 1..Len(names)}
      BY <1>3 DEF ToSet
    <3>2. p \in Surjection(1..Len(names), T)
      BY <3>1 DEF Surjection
    <3>3. IsFiniteSet(1..Len(names))
      <4> DEFINE n == Len(names)
      <4>1. n \in Nat
        BY <1>3
      <4> HIDE DEF n
      <4>2. IsFiniteSet(1..n)
        BY <4>1, FS_Interval
      <4> QED BY <4>2 DEF n
    <3> HIDE DEF p
    <3> QED BY <3>2, <3>3, FS_Surjection
  <2> HIDE DEF entered
  <2> QED BY <2>1, <2>2, FS_Subset
<1> DEFINE fresh == taken = {}
<1>9. fresh => \A k \in ToSet(names) : k \notin DOMAIN kernel2function
  BY DEF ToSet
<1> HIDE DEF entered, names
<1>10. /\ DOMAIN kernel2function' = DOMAIN kernel2function \cup entered
       /\ \A k \in entered : kernel2function'[k] = f
       /\ \A k \in DOMAIN kernel2function \ entered : kernel2function'[k] = kernel2function[k]
  BY <1>1
<1>11. place \in Place /\ place.at = mgr.functionOffset /\ place.size = Size[f]
  BY <1>2, <1>3 DEF Place, K!Manager
<1> HIDE DEF place
<1>12. CASE ~fresh
  <2>1. clash' = TRUE /\ mgr' = mgr /\ function2binaries' = function2binaries
    BY <1>1, <1>12
  <2> HIDE DEF fresh
  <2>2. MapsTyped'
    BY <1>2, <1>3, <1>8, <1>10, <2>1 DEF MapsTyped, names
  <2>3. IsFiniteSet(DOMAIN kernel2function')
    <3>1. IsFiniteSet(DOMAIN kernel2function)
      BY <1>2 DEF Writing
    <3>2. IsFiniteSet(DOMAIN kernel2function \cup entered)
      BY <1>8, <3>1, FS_Union
    <3> QED BY <1>10, <3>2
  <2>4. Writing'
    BY <1>1, <1>2, <1>3, <1>4, <1>5, <1>10, <2>1, <2>3 DEF Writing
  <2> QED BY <1>1, <1>2, <1>7, <2>1, <2>2, <2>4 DEF DatabaseInv
<1>13. CASE fresh
  <2>1. /\ clash' = clash /\ mgr' = m /\ entered = ToSet(names)
        /\ function2binaries' = [g \in DOMAIN function2binaries \cup {f} |->
                                       IF g = f THEN place ELSE function2binaries[g]]
    BY <1>1, <1>8, <1>13
  <2>2. /\ m \in K!Manager /\ m.functionOffset = mgr.functionOffset + Size[f]
        /\ m.functionCount = mgr.functionCount + 1 /\ m.kernelCount = mgr.kernelCount
    <3>1. /\ mgr.functionOffset \in Nat /\ mgr.functionCount \in Nat
          /\ mgr.kernelOffset \in Nat /\ mgr.kernelCount \in Nat
      BY <1>2 DEF K!Manager
    <3>2. mgr.functionOffset + Size[f] \in Nat /\ mgr.functionCount + 1 \in Nat
      BY <1>3, <3>1
    <3> HIDE DEF offset, count
    <3>3. /\ m \in K!Manager /\ m.functionOffset = offset
          /\ m.functionCount = count /\ m.kernelCount = mgr.kernelCount
      BY <1>2, <3>2 DEF K!Manager, offset, count
    <3> QED BY <3>3 DEF offset, count
  <2>3. \A k \in ToSet(names) : k \notin DOMAIN kernel2function
    BY <1>9, <1>13
  <2> HIDE DEF fresh, m
  <2>4. /\ DOMAIN function2binaries' = DOMAIN function2binaries \cup {f}
        /\ function2binaries'[f] = place
        /\ \A g \in DOMAIN function2binaries : function2binaries'[g] = function2binaries[g]
    BY <1>1, <2>1
  <2>5. MapsTyped'
    BY <1>2, <1>3, <1>8, <1>10, <1>11, <2>4 DEF MapsTyped, names
  <2>6. /\ IsFiniteSet(DOMAIN kernel2function') /\ IsFiniteSet(DOMAIN function2binaries')
        /\ Cardinality(DOMAIN function2binaries') = Cardinality(DOMAIN function2binaries) + 1
    BY <1>1, <1>2, <1>8, <1>10, <2>4, FS_Union, FS_AddElement DEF Writing
  <2>7. ASSUME clash = FALSE
        PROVE  m.functionOffset = d.length /\ Entered'
    <3>1. mgr.functionOffset = db.length /\ Entered
      BY <1>2, <2>7 DEF Writing
    <3>2. m.functionOffset = d.length
      BY <1>5, <2>2, <3>1
    <3>3. DOMAIN kernel2function' =
            UNION {ToSet(Kernels[g]) : g \in DOMAIN function2binaries'}
      BY <1>10, <2>1, <2>4, <3>1 DEF Entered, names
    <3>4. ASSUME NEW g \in DOMAIN function2binaries
          PROVE  /\ function2binaries'[g].size = Size[g]
                 /\ [at |-> function2binaries'[g].at, of |-> g] \in db'.binaries
                 /\ \A k \in ToSet(Kernels[g]) : kernel2function'[k] = g
      <4>1. /\ function2binaries[g].size = Size[g]
            /\ [at |-> function2binaries[g].at, of |-> g] \in db.binaries
            /\ \A k \in ToSet(Kernels[g]) : kernel2function[k] = g /\ k \in DOMAIN kernel2function
        BY <3>1 DEF Entered
      <4>2. \A k \in ToSet(Kernels[g]) : kernel2function'[k] = g
        BY <1>10, <2>1, <2>3, <4>1
      <4> QED BY <1>1, <1>5, <2>4, <4>1, <4>2
    <3>5. /\ function2binaries'[f].size = Size[f]
          /\ [at |-> function2binaries'[f].at, of |-> f] \in db'.binaries
          /\ \A k \in ToSet(Kernels[f]) : kernel2function'[k] = f
      BY <1>1, <1>5, <1>10, <1>11, <2>1, <2>4, <3>1 DEF names
    <3> QED BY <2>4, <3>2, <3>3, <3>4, <3>5 DEF Entered
  <2>8. Writing'
    <3>1. db.header.functionCount \in Nat /\ mgr.functionCount \in Nat
          /\ Cardinality(DOMAIN function2binaries) \in Nat
      BY <1>2, <1>4, FS_CardinalityType DEF K!Manager, Writing
    <3>2. mgr'.functionCount =
            db'.header.functionCount + Cardinality(DOMAIN function2binaries')
      BY <1>1, <1>2, <1>5, <2>1, <2>2, <2>6, <3>1 DEF Writing
    <3>3. DOMAIN kernel2function' # {}
      BY <1>3, <1>10, <2>1
    <3>4. clash' = FALSE => mgr'.functionOffset = db'.length /\ Entered'
      BY <1>1, <2>1, <2>7
    <3>5. /\ db'.kernels = {} /\ db'.functions = {} /\ dbFiled' = {} /\ db'.length >= 2
          /\ db'.header.kernelOffset = 2 /\ db'.header.functionOffset = 2
          /\ db'.header.kernelCount = mgr'.kernelCount
          /\ first' = TRUE <=> mgr'.kernelCount = 0
      BY <1>1, <1>2, <1>3, <1>4, <1>5, <2>1, <2>2 DEF Writing
    <3> QED BY <2>6, <3>2, <3>3, <3>4, <3>5 DEF Writing
  <2> QED BY <1>1, <1>2, <1>7, <2>1, <2>2, <2>5, <2>8 DEF DatabaseInv
<1> QED BY <1>12, <1>13

(* What releaseResource leaves *)
LEMMA CompileEnded ==
  ASSUME DatabaseInv, K!EndCompile
  PROVE  DatabaseInv'
<1> DEFINE K1 == DOMAIN kernel2function
           F1 == DOMAIN function2binaries
           ks == K!SetToSeq(K1)
           fs == K!SetToSeq(F1)
           n == Len(ks)
           c == Len(fs)
           kernels == mgr.kernelCount + n
           second == db.length + n * 7
           length == second + c * 4
           offset == mgr.functionOffset + kernels * 7
           m == [mgr EXCEPT !.kernelOffset = mgr.functionOffset, !.kernelCount = kernels,
                            !.functionOffset = offset]
           kItem == [i \in 1..n |-> <<ks[i], kernel2function[ks[i]]>>]
           fItem == [i \in 1..c |-> <<fs[i], function2binaries[fs[i]]>>]
           kRecords == {K!Record(db.length + (i - 1) * 7, <<ks[i], kernel2function[ks[i]]>>) :
                          i \in DOMAIN ks}
           fRecords == {K!Record(second + (i - 1) * 4, <<fs[i], function2binaries[fs[i]]>>) :
                          i \in DOMAIN fs}
           d == [db EXCEPT !.header = m, !.length = length,
                           !.kernels = kRecords, !.functions = fRecords]
<1>1. /\ mode = "compile" /\ mgr \in K!Manager /\ FileInv /\ MapsTyped /\ Writing
      /\ first \in BOOLEAN /\ clash \in BOOLEAN
  BY DEF DatabaseInv, K!EndCompile
<1>2. /\ DOMAIN ks = 1..n /\ n \in Nat /\ n = Cardinality(K1)
      /\ \A i \in 1..n : ks[i] \in K1
      /\ \A k \in K1 : \E i \in 1..n : ks[i] = k
  BY <1>1, Arranged DEF Writing
<1>3. /\ DOMAIN fs = 1..c /\ c \in Nat /\ c = Cardinality(F1)
      /\ \A i \in 1..c : fs[i] \in F1
      /\ \A f \in F1 : \E i \in 1..c : fs[i] = f
  BY <1>1, Arranged DEF Writing
<1>4. /\ mode' = "none" /\ mgr' = m /\ dbFiled' = F1
      /\ kernel2function' = <<>> /\ function2binaries' = <<>>
      /\ first' = first /\ clash' = clash
      /\ db' = d
  <2> USE DEF K!EndCompile, K!MapsPlace, K!KernelItemSize, K!FunctionItemSize
  <2>1. mode' = "none" /\ dbFiled' = F1 /\ kernel2function' = <<>> /\ function2binaries' = <<>>
        /\ first' = first /\ clash' = clash
    OBVIOUS
  <2>2. mgr' = m
    OBVIOUS
  <2>3. db' = d
    OBVIOUS
  <2> QED BY <2>1, <2>2, <2>3
<1>19. n \in Nat /\ c \in Nat
  BY <1>2, <1>3
<1> HIDE DEF ks, fs, n, c
<1>5. /\ mgr.functionOffset \in Nat /\ mgr.kernelCount \in Nat /\ mgr.functionCount \in Nat
      /\ db.length \in Nat /\ db.header \in K!Manager /\ Counts(db.header)
      /\ db.header.functionCount \in Nat /\ db.header.kernelCount = mgr.kernelCount
      /\ mgr.functionCount = db.header.functionCount + c
  BY <1>1, <1>3 DEF K!Manager, FileInv, DbFile, Writing
<1>6. /\ kernels \in Nat /\ second \in Nat /\ length \in Nat /\ offset \in Nat
      /\ kernels = mgr.kernelCount + n /\ second = db.length + n * 7
      /\ length = second + c * 4 /\ offset = mgr.functionOffset + kernels * 7
  BY <1>5, <1>19
<1> HIDE DEF kernels, second, length, offset
<1>7. /\ m \in K!Manager /\ m.kernelOffset = mgr.functionOffset /\ m.kernelCount = kernels
      /\ m.functionOffset = offset /\ m.functionCount = mgr.functionCount
  BY <1>1, <1>5, <1>6 DEF K!Manager
<1> HIDE DEF m
<1>8. Counts(m)
  <2>1. kernels = 0 => n = 0 /\ mgr.kernelCount = 0
    BY <1>5, <1>6, <1>19
  <2>2. n = 0 => K1 = {}
    BY <1>1, <1>2, FS_EmptySet DEF Writing
  <2>3. K1 = {} => F1 = {}
    BY <1>1 DEF Writing
  <2>4. F1 = {} => c = 0
    BY <1>3, FS_EmptySet
  <2>5. kernels = 0 => mgr.functionCount = 0
    BY <1>5, <2>1, <2>2, <2>3, <2>4 DEF Counts
  <2> QED BY <1>7, <2>5 DEF Counts
<1>9. /\ \A i \in 1..n : kItem[i] = <<ks[i], kernel2function[ks[i]]>>
                         /\ kItem[i] \in KernelName \X Function
      /\ \A i \in 1..c : fItem[i] = <<fs[i], function2binaries[fs[i]]>>
                         /\ fItem[i] \in Function \X Place
  BY <1>1, <1>2, <1>3 DEF MapsTyped
<1> HIDE DEF kItem, fItem
<1>10. \A at, of : K!Record(at, of).at = at /\ K!Record(at, of).of = of
                   /\ K!Record(at, of) = [at |-> at, of |-> of]
  BY DEF K!Record
<1>20. /\ \A i \in 1..n : K!Record(db.length + (i - 1) * 7, kItem[i]) \in kRecords
       /\ \A r \in kRecords : \E i \in 1..n : r = K!Record(db.length + (i - 1) * 7, kItem[i])
  <2>1. ASSUME NEW i \in 1..n
        PROVE  K!Record(db.length + (i - 1) * 7, kItem[i]) \in kRecords
    BY <1>2, <1>9
  <2>2. ASSUME NEW r \in kRecords
        PROVE  \E i \in 1..n : r = K!Record(db.length + (i - 1) * 7, kItem[i])
    BY <1>2, <1>9
  <2> QED BY <2>1, <2>2
<1>21. /\ \A i \in 1..c : K!Record(second + (i - 1) * 4, fItem[i]) \in fRecords
       /\ \A r \in fRecords : \E i \in 1..c : r = K!Record(second + (i - 1) * 4, fItem[i])
  <2>1. ASSUME NEW i \in 1..c
        PROVE  K!Record(second + (i - 1) * 4, fItem[i]) \in fRecords
    BY <1>3, <1>9
  <2>2. ASSUME NEW r \in fRecords
        PROVE  \E i \in 1..c : r = K!Record(second + (i - 1) * 4, fItem[i])
    BY <1>3, <1>9
  <2> QED BY <2>1, <2>2
<1> HIDE DEF kRecords, fRecords
<1>11. kRecords \in KernelItems /\ \A r \in kRecords : r.at < length
  <2> SUFFICES ASSUME NEW i \in 1..n
               PROVE  LET r == K!Record(db.length + (i - 1) * 7, kItem[i])
                      IN  r \in [at : Nat, of : KernelName \X Function] /\ r.at < length
    BY <1>20 DEF KernelItems
  <2> DEFINE at == db.length + (i - 1) * 7
  <2>1. at \in Nat /\ at < length
    BY <1>5, <1>6, <1>19
  <2> HIDE DEF at
  <2>2. K!Record(at, kItem[i]) = [at |-> at, of |-> kItem[i]]
    BY <1>10
  <2> QED BY <1>9, <1>10, <2>1, <2>2 DEF at
<1>12. fRecords \in FunctionItems /\ \A r \in fRecords : r.at < length
  <2> SUFFICES ASSUME NEW i \in 1..c
               PROVE  LET r == K!Record(second + (i - 1) * 4, fItem[i])
                      IN  r \in [at : Nat, of : Function \X Place] /\ r.at < length
    BY <1>21 DEF FunctionItems
  <2> DEFINE at == second + (i - 1) * 4
  <2>1. at \in Nat /\ at < length
    BY <1>5, <1>6, <1>19
  <2> HIDE DEF at
  <2>2. K!Record(at, fItem[i]) = [at |-> at, of |-> fItem[i]]
    BY <1>10
  <2> QED BY <1>9, <1>10, <2>1, <2>2 DEF at
<1>13. /\ K!Read(kRecords, db.length, n, 7) = {kItem[i] : i \in 1..n}
       /\ K!Read(fRecords, second, c, 4) = {fItem[i] : i \in 1..c}
  <2>1. n \in Nat /\ c \in Nat
    BY <1>19
  <2> HIDE DEF kItem, fItem
  <2>2. K!Read(kRecords, db.length, n, 7) = {kItem[i] : i \in 1..n}
    BY <1>20, <2>1, ReadAll
  <2>3. K!Read(fRecords, second, c, 4) = {fItem[i] : i \in 1..c}
    BY <1>21, <2>1, ReadAll
  <2> QED BY <2>2, <2>3
<1>14. /\ d \in DbFile /\ d.header = m /\ d.length = length /\ d.binaries = db.binaries
       /\ d.kernels = kRecords /\ d.functions = fRecords
  BY <1>1, <1>6, <1>7, <1>11, <1>12 DEF FileInv, DbFile
<1> HIDE DEF d
<1>15. FileInv'
  <2>1. BinariesApart(d)
    <3>1. \A r \in db.binaries : r.at + Size[r.of] <= length
      <4>1. \A r \in db.binaries : r.at + Size[r.of] \in Nat /\ r.at + Size[r.of] <= db.length
        BY <1>1, Sizes DEF FileInv, BinariesApart, DbFile, Binaries
      <4>2. db.length <= length
        BY <1>5, <1>6, <1>19
      <4> QED BY <1>5, <1>6, <4>1, <4>2
    <3> QED BY <1>1, <1>14, <3>1 DEF FileInv, BinariesApart
  <2>2. F1 \subseteq Function
    BY <1>1 DEF MapsTyped
  <2> QED BY <1>4, <1>7, <1>8, <1>11, <1>12, <1>14, <2>1, <2>2 DEF FileInv
<1>16. ASSUME clash = FALSE
       PROVE  OnDisk'
  <2>1. mgr.functionOffset = db.length /\ Entered
    BY <1>1, <1>16 DEF Writing
  <2>2. /\ Reached' = offset
        /\ db'.header.kernelOffset = db.length /\ db'.header.kernelCount = kernels
        /\ db'.header.functionOffset = offset /\ db'.header.functionCount = mgr.functionCount
        /\ db'.length = length
    BY <1>4, <1>6, <1>7, <1>14, <2>1 DEF Reached
  <2>3. Loads' <=> /\ kernels = 0 \/ db.length + kernels * 7 <= length
                   /\ mgr.functionCount = 0 \/ offset + mgr.functionCount * 4 <= length
    BY <2>2 DEF Loads, K!LongEnough
  <2>4. CASE first = FALSE
    <3>1. mgr.kernelCount > 0
      BY <1>1, <1>5, <2>4 DEF Writing
    <3>2. ~Loads'
      <4>1. mgr.functionOffset = db.length
        BY <2>1
      <4> QED BY <1>5, <1>6, <1>19, <2>3, <3>1, <4>1
    <3> QED BY <1>4, <2>4, <3>2 DEF OnDisk
  <2>5. CASE first = TRUE
    <3>1. mgr.kernelCount = 0 /\ kernels = n /\ offset = second /\ mgr.functionCount = c
      <4>1. mgr.functionOffset = db.length /\ mgr.kernelCount = 0
        BY <1>1, <2>1, <2>5 DEF Writing
      <4>2. db.header.functionCount = 0
        BY <1>5, <4>1 DEF Counts
      <4> QED BY <1>5, <1>6, <1>19, <4>1, <4>2
    <3>2. Loads'
      BY <1>5, <1>6, <1>19, <2>3, <3>1
    <3>3. KernelsRead' = {kItem[i] : i \in 1..n} /\ FunctionsRead' = {fItem[i] : i \in 1..c}
      BY <1>4, <1>13, <1>14, <2>2, <3>1 DEF KernelsRead, FunctionsRead
    <3>4. ItemsRight'
      <4>1. ASSUME NEW f \in F1, NEW k \in ToSet(Kernels[f])
            PROVE  <<k, f>> \in KernelsRead'
        <5>1. k \in K1 /\ kernel2function[k] = f
          BY <2>1 DEF Entered
        <5>2. PICK i \in 1..n : ks[i] = k
          BY <1>2, <5>1
        <5> QED BY <1>9, <3>3, <5>1, <5>2
      <4>2. ASSUME NEW x \in KernelsRead'
            PROVE  x[2] \in F1 /\ x[1] \in ToSet(Kernels[x[2]]) /\ x = <<x[1], kernel2function[x[1]]>>
        <5>1. PICK i \in 1..n : x = kItem[i]
          BY <3>3
        <5>2. x[1] = ks[i] /\ x[2] = kernel2function[ks[i]] /\ ks[i] \in K1
          BY <1>2, <1>9, <5>1
        <5>3. PICK f \in F1 : ks[i] \in ToSet(Kernels[f])
          BY <2>1, <5>2 DEF Entered
        <5>4. kernel2function[ks[i]] = f
          BY <2>1, <5>3 DEF Entered
        <5> QED BY <1>9, <5>1, <5>2, <5>3, <5>4
      <4>3. \A x, y \in KernelsRead' : x[1] = y[1] => x = y
        BY <4>2
      <4>4. ASSUME NEW f \in F1
            PROVE  \E x \in FunctionsRead' : x[1] = f
        <5>1. PICK i \in 1..c : fs[i] = f
          BY <1>3
        <5>2. fItem[i][1] = f /\ fItem[i] \in FunctionsRead'
          BY <1>9, <3>3, <5>1
        <5> QED BY <5>2
      <4>5. ASSUME NEW x \in FunctionsRead'
            PROVE  /\ x[1] \in F1 /\ x[2].size = Size[x[1]]
                   /\ [at |-> x[2].at, of |-> x[1]] \in db'.binaries
        <5>1. PICK i \in 1..c : x = fItem[i]
          BY <3>3
        <5>2. x[1] = fs[i] /\ x[2] = function2binaries[fs[i]] /\ fs[i] \in F1
          BY <1>3, <1>9, <5>1
        <5> QED BY <1>4, <1>14, <2>1, <5>2 DEF Entered
      <4> QED BY <1>4, <4>1, <4>2, <4>3, <4>4, <4>5 DEF ItemsRight
    <3> QED BY <1>4, <2>5, <3>2, <3>4 DEF OnDisk
  <2> QED BY <1>1, <2>4, <2>5
<1>17. DOMAIN kernel2function' = {} /\ DOMAIN function2binaries' = {}
  BY <1>4
<1>18. MapsTyped'
  BY <1>17 DEF MapsTyped
<1> QED BY <1>1, <1>4, <1>7, <1>8, <1>15, <1>16, <1>17, <1>18 DEF DatabaseInv

(* What prepareManager and loadBinariesInfo leave *)
LEMMA RetrieveBegun ==
  ASSUME DatabaseInv, K!BeginRetrieve
  PROVE  DatabaseInv'
<1> DEFINE ks == KernelsRead
           fs == FunctionsRead
<1>1. /\ mode = "none" /\ db.length > 0 /\ mgr' = db.header
      /\ db' = db /\ dbFiled' = dbFiled /\ first' = first /\ clash' = clash
      /\ kernel2function' = [k \in {i[1] : i \in ks} |-> (CHOOSE i \in ks : i[1] = k)[2]]
      /\ function2binaries' = [f \in {i[1] : i \in fs} |-> (CHOOSE i \in fs : i[1] = f)[2]]
      /\ mode' = IF Loads THEN "retrieve" ELSE "failed"
  BY DEF K!BeginRetrieve, KernelsRead, FunctionsRead, Loads, Reached,
         K!KernelItemSize, K!FunctionItemSize
<1>2. /\ FileInv /\ MapsTyped /\ first \in BOOLEAN /\ clash \in BOOLEAN
      /\ clash = FALSE => OnDisk
  BY <1>1 DEF DatabaseInv
<1>3. /\ \A i \in ks : i \in KernelName \X Function
      /\ \A i \in fs : i \in Function \X Place
  BY <1>2 DEF KernelsRead, FunctionsRead, K!Read, FileInv, DbFile, KernelItems, FunctionItems
<1> HIDE DEF ks, fs
<1>4. \A k \in DOMAIN kernel2function' :
        \E i \in ks : i[1] = k /\ kernel2function'[k] = i[2]
  BY <1>1
<1>5. \A f \in DOMAIN function2binaries' :
        \E i \in fs : i[1] = f /\ function2binaries'[f] = i[2]
  BY <1>1
<1>6. /\ \A i \in ks : i[1] \in DOMAIN kernel2function'
      /\ \A i \in fs : i[1] \in DOMAIN function2binaries'
  BY <1>1
<1>7. MapsTyped'
  BY <1>3, <1>4, <1>5 DEF MapsTyped
<1>8. ASSUME Loads, clash = FALSE
      PROVE  first = TRUE /\ K!MapsAreRight'
  <2>1. first = TRUE /\ ItemsRight
    BY <1>1, <1>2, <1>8 DEF OnDisk
  <2>2. \A f \in dbFiled : \A k \in ToSet(Kernels[f]) :
          k \in DOMAIN kernel2function' /\ kernel2function'[k] = f
    <3> SUFFICES ASSUME NEW f \in dbFiled, NEW k \in ToSet(Kernels[f])
                 PROVE  k \in DOMAIN kernel2function' /\ kernel2function'[k] = f
      OBVIOUS
    <3>1. <<k, f>> \in ks /\ <<k, f>>[1] = k /\ <<k, f>>[2] = f
      BY <2>1 DEF ItemsRight, ks
    <3>2. k \in DOMAIN kernel2function'
      BY <1>6, <3>1
    <3>3. PICK i \in ks : i[1] = k /\ kernel2function'[k] = i[2]
      BY <1>4, <3>2
    <3>4. i = <<k, f>>
      BY <2>1, <3>1, <3>3 DEF ItemsRight, ks
    <3> QED BY <3>2, <3>3, <3>4
  <2>3. \A k \in DOMAIN kernel2function' :
          kernel2function'[k] \in dbFiled /\ k \in ToSet(Kernels[kernel2function'[k]])
    BY <1>4, <2>1 DEF ItemsRight, ks
  <2>4. DOMAIN function2binaries' = dbFiled
    <3>1. \A f \in dbFiled : \E i \in fs : i[1] = f
      BY <2>1 DEF ItemsRight, fs
    <3>2. \A i \in fs : i[1] \in dbFiled
      BY <2>1 DEF ItemsRight, fs
    <3>3. DOMAIN function2binaries' \subseteq dbFiled
      BY <1>5, <3>2
    <3>4. dbFiled \subseteq DOMAIN function2binaries'
      BY <1>6, <3>1
    <3> QED BY <3>3, <3>4
  <2>5. \A f \in dbFiled : /\ function2binaries'[f].size = Size[f]
                           /\ [at |-> function2binaries'[f].at, of |-> f] \in db.binaries
    BY <1>5, <2>1, <2>4 DEF ItemsRight, fs
  <2>6. \A s : K!ToSet(s) = ToSet(s)
    BY DEF K!ToSet, ToSet
  <2>7. DOMAIN kernel2function' = UNION {K!ToSet(Kernels[f]) : f \in dbFiled}
    <3>1. DOMAIN kernel2function' \subseteq UNION {ToSet(Kernels[f]) : f \in dbFiled}
      BY <2>3
    <3>2. UNION {ToSet(Kernels[f]) : f \in dbFiled} \subseteq DOMAIN kernel2function'
      BY <2>2
    <3>3. UNION {ToSet(Kernels[f]) : f \in dbFiled} = UNION {K!ToSet(Kernels[f]) : f \in dbFiled}
      BY <2>6
    <3> QED BY <3>1, <3>2, <3>3
  <2>8. ASSUME NEW f \in Function, NEW k \in DOMAIN kernel2function'
        PROVE  K!Retrieved(f[1], k)' = {g \in dbFiled : k \in K!ToSet(Kernels[g]) /\ g[1] = f[1]}
    <3> DEFINE h == kernel2function'[k]
               at == function2binaries'[h].at
    <3>1. h \in dbFiled /\ k \in ToSet(Kernels[h])
          /\ \A g \in dbFiled : k \in ToSet(Kernels[g]) => g = h
      BY <2>2, <2>3
    <3>2. {g \in dbFiled : k \in K!ToSet(Kernels[g]) /\ g[1] = f[1]} =
            IF h[1] = f[1] THEN {h} ELSE {}
      <4> HIDE DEF h
      <4> QED BY <2>6, <3>1
    <3>3. CASE h[1] # f[1]
      BY <3>2, <3>3 DEF K!Retrieved
    <3>4. CASE h[1] = f[1]
      <4>1. h \in DOMAIN function2binaries' /\ function2binaries'[h].size = Size[h]
            /\ [at |-> at, of |-> h] \in db.binaries
        BY <2>4, <2>5, <3>1
      <4>2. K!Retrieved(f[1], k)' =
              {r.of : r \in {s \in db.binaries : s.at = at /\ Size[s.of] = function2binaries'[h].size}}
        BY <1>1, <3>4, <4>1 DEF K!Retrieved
      <4>3. \A s \in db.binaries : s.at = at => s = [at |-> at, of |-> h]
        <5> HIDE DEF h, at
        <5> QED BY <1>2, <4>1 DEF FileInv, BinariesApart
      <4> HIDE DEF h, at
      <4>4. {s \in db.binaries : s.at = at /\ Size[s.of] = function2binaries'[h].size} =
              {[at |-> at, of |-> h]}
        BY <4>1, <4>3
      <4>5. [at |-> at, of |-> h].of = h
        OBVIOUS
      <4>6. {r.of : r \in {[at |-> at, of |-> h]}} = {h}
        BY <4>5
      <4> QED BY <3>2, <3>4, <4>2, <4>4, <4>6
    <3> QED BY <3>3, <3>4
  <2> QED BY <1>1, <2>1, <2>7, <2>8 DEF K!MapsAreRight
<1>9. ASSUME ~Loads, clash = FALSE
      PROVE  first = FALSE
  BY <1>1, <1>2, <1>9 DEF OnDisk
<1>10. FileInv' /\ (clash = FALSE => OnDisk')
  BY <1>1, <1>2 DEF FileInv, BinariesApart, OnDisk, Loads, ItemsRight, Reached, KernelsRead,
                    FunctionsRead, K!LongEnough
<1>11. mgr' \in K!Manager /\ Counts(mgr')
  BY <1>1, <1>2 DEF FileInv
<1>12. mode' \in {"retrieve", "failed"} /\ (mode' = "retrieve" <=> Loads)
  BY <1>1
<1> QED BY <1>1, <1>2, <1>7, <1>8, <1>9, <1>10, <1>11, <1>12 DEF DatabaseInv

LEMMA KernelRetrieved ==
  ASSUME DatabaseInv, NEW k \in DOMAIN kernel2function, K!Retrieve(k)
  PROVE  DatabaseInv'
<1> DEFINE at == function2binaries[kernel2function[k]].at
<1>1. /\ mode = "retrieve" /\ mgr' = [mgr EXCEPT !.functionOffset = at]
      /\ UNCHANGED <<mode, kernel2function, function2binaries, db, dbFiled, first, clash>>
      /\ kernel2function[k] \in DOMAIN function2binaries
  BY DEF K!Retrieve
<1>2. at \in Nat
  BY <1>1 DEF DatabaseInv, MapsTyped, Place
<1> HIDE DEF at
<1>3. mgr \in K!Manager /\ Counts(mgr)
  BY <1>1 DEF DatabaseInv
<1>4. mgr' \in K!Manager /\ Counts(mgr')
  BY <1>1, <1>2, <1>3 DEF K!Manager, Counts
<1>5. FileInv' /\ MapsTyped'
  BY <1>1 DEF DatabaseInv, FileInv, BinariesApart, MapsTyped
<1>6. clash = FALSE => OnDisk'
  BY <1>1 DEF DatabaseInv, OnDisk, Loads, ItemsRight, Reached, KernelsRead,
              FunctionsRead, K!LongEnough
<1>7. clash = FALSE => K!MapsAreRight'
  BY <1>1 DEF DatabaseInv, K!MapsAreRight, K!Retrieved
<1> QED BY <1>1, <1>4, <1>5, <1>6, <1>7 DEF DatabaseInv

LEMMA RetrieveEnded ==
  ASSUME DatabaseInv, K!EndRetrieve
  PROVE  DatabaseInv'
<1>1. /\ mode \in {"retrieve", "failed"} /\ mode' = "none"
      /\ kernel2function' = <<>> /\ function2binaries' = <<>>
      /\ UNCHANGED <<mgr, db, dbFiled, first, clash>>
  BY DEF K!EndRetrieve
<1>2. DOMAIN kernel2function' = {} /\ DOMAIN function2binaries' = {}
  BY <1>1
<1>3. FileInv' /\ MapsTyped'
  BY <1>1, <1>2 DEF DatabaseInv, FileInv, BinariesApart, MapsTyped
<1>4. clash = FALSE => OnDisk'
  BY <1>1 DEF DatabaseInv, OnDisk, Loads, ItemsRight, Reached, KernelsRead,
              FunctionsRead, K!LongEnough
<1> QED BY <1>1, <1>2, <1>3, <1>4 DEF DatabaseInv

(* A file whose writer died: its maps are empty if the counts are 0, and *)
(* are not where it says otherwise.                                      *)
LEMMA Unfinished == FileInv /\ Writing /\ first \in BOOLEAN => OnDisk
<1> SUFFICES ASSUME FileInv, Writing, first \in BOOLEAN PROVE OnDisk
  OBVIOUS
<1> DEFINE h == db.header
<1>1. /\ h.kernelCount \in Nat /\ h.functionCount \in Nat /\ Counts(h)
      /\ h.kernelOffset = 2 /\ h.functionOffset = 2
      /\ first = TRUE <=> h.kernelCount = 0
  <2>1. db.length > 0
    BY DEF FileInv, DbFile, Writing
  <2> QED BY <2>1 DEF FileInv, Writing, K!Manager
<1> HIDE DEF h
<1>2. Reached = 2 + h.kernelCount * 7
  BY <1>1 DEF Reached, h
<1>3. ASSUME first = FALSE
      PROVE  ~Loads
  <2>1. h.kernelCount > 0
    BY <1>1, <1>3
  <2>2. Reached # 2
    BY <1>1, <1>2, <2>1
  <2> QED BY <1>1, <2>2 DEF Loads, h
<1>4. ASSUME first = TRUE
      PROVE  Loads /\ ItemsRight
  <2>1. h.kernelCount = 0 /\ h.functionCount = 0 /\ Reached = 2
    BY <1>1, <1>2, <1>4 DEF Counts
  <2>2. Loads
    BY <1>1, <2>1 DEF Loads, K!LongEnough, h
  <2>3. KernelsRead = {} /\ FunctionsRead = {}
    BY DEF Writing, KernelsRead, FunctionsRead, K!Read
  <2>4. dbFiled = {}
    BY DEF Writing
  <2> QED BY <2>2, <2>3, <2>4 DEF ItemsRight
<1> QED BY <1>3, <1>4 DEF OnDisk

LEMMA Restarted ==
  ASSUME DatabaseInv, K!Restart
  PROVE  DatabaseInv'
<1>1. /\ mode' = "none"
      /\ mgr' = [kernelOffset |-> 0, kernelCount |-> 0, functionOffset |-> 0, functionCount |-> 0]
      /\ kernel2function' = <<>> /\ function2binaries' = <<>>
      /\ UNCHANGED <<dbFiled, first, clash>>
      /\ \/ db' = db
         \/ db' = [header |-> <<>>, length |-> 0, binaries |-> {}, kernels |-> {}, functions |-> {}]
  BY DEF K!Restart, K!NewManager, K!NoFile, K!FileOf
<1>2. FileInv /\ first \in BOOLEAN /\ clash \in BOOLEAN
      /\ (mode = "compile" => Writing) /\ (mode # "compile" /\ clash = FALSE => OnDisk)
  BY DEF DatabaseInv
<1>3. clash = FALSE => OnDisk
  BY <1>2, Unfinished
<1>4. mgr' \in K!Manager /\ Counts(mgr')
  BY <1>1 DEF K!Manager, Counts
<1>5. DOMAIN kernel2function' = {} /\ DOMAIN function2binaries' = {}
  BY <1>1
<1>6. MapsTyped'
  BY <1>5 DEF MapsTyped
<1>7. CASE db' = db
  <2>1. FileInv' /\ (clash = FALSE => OnDisk')
    BY <1>1, <1>2, <1>3, <1>7 DEF FileInv, BinariesApart, OnDisk, Loads, ItemsRight, Reached,
                                  KernelsRead, FunctionsRead, K!LongEnough
  <2> QED BY <1>1, <1>2, <1>4, <1>5, <1>6, <2>1 DEF DatabaseInv
<1>8. CASE db' = [header |-> <<>>, length |-> 0, binaries |-> {}, kernels |-> {}, functions |-> {}]
  <2>1. {} \in Binaries /\ {} \in KernelItems /\ {} \in FunctionItems
    BY DEF Binaries, KernelItems, FunctionItems
  <2>2. FileInv'
    BY <1>1, <1>2, <1>8, <2>1 DEF FileInv, BinariesApart, DbFile
  <2>3. OnDisk'
    BY <1>8 DEF OnDisk
  <2> QED BY <1>1, <1>2, <1>4, <1>5, <1>6, <2>2, <2>3 DEF DatabaseInv
<1> QED BY <1>1, <1>7, <1>8

LEMMA DatabaseNext ==
  ASSUME DatabaseInv, K!Next
  PROVE  DatabaseInv'
<1>1. CASE K!BeginCompile
  BY <1>1, CompileBegun
<1>2. CASE K!EndCompile
  BY <1>2, CompileEnded
<1>3. ASSUME NEW f \in Function, K!Store(f) PROVE DatabaseInv'
  BY <1>3, FunctionStored
<1>4. CASE K!BeginRetrieve
  BY <1>4, RetrieveBegun
<1>5. CASE K!EndRetrieve
  BY <1>5, RetrieveEnded
<1>6. ASSUME NEW k \in DOMAIN kernel2function, K!Retrieve(k) PROVE DatabaseInv'
  BY <1>6, KernelRetrieved
<1>7. CASE K!Restart
  BY <1>7, Restarted
<1> QED BY <1>1, <1>2, <1>3, <1>4, <1>5, <1>6, <1>7 DEF K!Next

LEMMA DatabaseSafe == DatabaseInv => K!TypeOK /\ K!RetrievedIsStored
<1> SUFFICES ASSUME DatabaseInv PROVE K!TypeOK /\ K!RetrievedIsStored
  OBVIOUS
<1>1. K!RetrievedIsStored
  BY DEF DatabaseInv, K!RetrievedIsStored
<1>2. \A r \in db.binaries : r.at < db.length /\ r.of \in Function
  <2>1. \A r \in db.binaries : r.at \in Nat /\ r.of \in Function
                               /\ Size[r.of] \in Nat /\ Size[r.of] > 0
    BY Sizes DEF DatabaseInv, FileInv, DbFile, Binaries
  <2>2. \A r \in db.binaries : r.at + Size[r.of] <= db.length
    BY DEF DatabaseInv, FileInv, BinariesApart
  <2>3. db.length \in Nat
    BY DEF DatabaseInv, FileInv, DbFile
  <2> QED BY <2>1, <2>2, <2>3
<1>3. \A r \in db.kernels : r.at < db.length /\ r.of[2] \in Function
  BY DEF DatabaseInv, FileInv, DbFile, KernelItems
<1>4. \A r \in db.functions : r.at < db.length /\ r.of[1] \in Function
  BY DEF DatabaseInv, FileInv, DbFile, FunctionItems
<1> QED BY <1>1, <1>2, <1>3, <1>4 DEF DatabaseInv, FileInv, MapsTyped, K!TypeOK

-----------------------------------------------------------------------------
(***************************************************************************)
(* The archive of compiled programs.  Lists are sorted, and a group in the *)
(* file or in memory gives each of its chunks the binary that was saved;   *)
(* only the last group of the file may be without its end.                 *)
(***************************************************************************)

(* A claim that holds of round 0, and of each round if it does of the one  *)
(* before, holds of all n.                                                 *)
LEMMA AllRounds ==
  ASSUME NEW n \in Nat, NEW A \in SUBSET (0..n), 0 \in A,
         \A i \in 1..n : i - 1 \in A => i \in A
  PROVE  A = 0..n
<1> DEFINE Q == {k \in Nat : k <= n => k \in A}
<1>1. 0 \in Q
  OBVIOUS
<1>2. ASSUME NEW k \in Q PROVE k + 1 \in Q
  <2>0. k \in Nat /\ k + 1 \in Nat /\ (k <= n => k \in A)
    OBVIOUS
  <2> SUFFICES ASSUME k + 1 <= n PROVE k + 1 \in A
    BY <2>0
  <2>1. k + 1 \in 1..n /\ k <= n /\ (k + 1) - 1 = k
    BY <2>0
  <2> QED BY <2>0, <2>1
<1>3. Q = Nat
  <2>1. Q \in SUBSET Nat
    OBVIOUS
  <2> HIDE DEF Q
  <2> QED BY <1>1, <1>2, <2>1, Induction
<1>4. ASSUME NEW k \in 0..n PROVE k \in A
  <2>1. k \in Q /\ k <= n
    <3> HIDE DEF Q
    <3> QED BY <1>3
  <2> QED BY <2>1
<1> QED BY <1>4

(* What a recursive definition has, the next value from the one before *)
Stepping(n, S, x, h) == n \in Nat /\ x \in S /\ h \in [1..n -> [S -> S]]
Repeated(n, S, x, h) ==
  \E f \in [0..n -> S] : f[0] = x /\ \A i \in 1..n : f[i] = h[i][f[i - 1]]

LEMMA Rounds ==
  ASSUME NEW n, NEW S, NEW x, NEW h, Stepping(n, S, x, h)
  PROVE  Repeated(n, S, x, h)
<1> SUFFICES ASSUME n \in Nat, x \in S, h \in [1..n -> [S -> S]] PROVE Repeated(n, S, x, h)
  BY DEF Stepping
<1> DEFINE T(k) == \E f \in [0..k -> S] : f[0] = x /\ \A i \in 1..k : f[i] = h[i][f[i - 1]]
           Q == {k \in Nat : k <= n => T(k)}
<1>1. 0 \in Q
  <2> DEFINE f == [i \in 0..0 |-> x]
  <2>1. f \in [0..0 -> S] /\ f[0] = x /\ \A i \in 1..0 : f[i] = h[i][f[i - 1]]
    OBVIOUS
  <2> HIDE DEF f
  <2>2. T(0)
    BY <2>1
  <2> QED BY <2>2
<1>2. ASSUME NEW k \in Q PROVE k + 1 \in Q
  <2>0. k \in Nat /\ k + 1 \in Nat /\ (k <= n => T(k))
    OBVIOUS
  <2> SUFFICES ASSUME k + 1 <= n PROVE T(k + 1)
    BY <2>0
  <2>1. k <= n /\ k + 1 \in 1..n
    BY <2>0
  <2>2. PICK f \in [0..k -> S] : f[0] = x /\ \A i \in 1..k : f[i] = h[i][f[i - 1]]
    BY <2>0, <2>1
  <2> DEFINE g == [i \in 0..(k + 1) |-> IF i = k + 1 THEN h[k + 1][f[k]] ELSE f[i]]
  <2>3. f[k] \in S /\ h[k + 1][f[k]] \in S
    BY <2>0, <2>1, <2>2
  <2>4. /\ g \in [0..(k + 1) -> S] /\ g[k + 1] = h[k + 1][f[k]]
        /\ \A i \in 0..k : g[i] = f[i]
    <3>1. \A i \in 0..(k + 1) : i = k + 1 \/ i \in 0..k
      BY <2>0
    <3>2. \A i \in 0..k : i \in 0..(k + 1) /\ i # k + 1
      BY <2>0
    <3>3. k + 1 \in 0..(k + 1)
      BY <2>0
    <3> QED BY <2>2, <2>3, <3>1, <3>2, <3>3
  <2> HIDE DEF g
  <2>5. g[0] = x
    BY <2>0, <2>2, <2>4
  <2>6. ASSUME NEW i \in 1..(k + 1) PROVE g[i] = h[i][g[i - 1]]
    <3>1. CASE i = k + 1
      <4>1. i - 1 = k /\ k \in 0..k
        BY <2>0, <3>1
      <4> QED BY <2>4, <3>1, <4>1
    <3>2. CASE i # k + 1
      <4>1. i \in 1..k /\ i \in 0..k /\ i - 1 \in 0..k
        BY <2>0, <3>2
      <4> QED BY <2>2, <2>4, <4>1
    <3> QED BY <3>1, <3>2
  <2> QED BY <2>4, <2>5, <2>6
<1>3. Q = Nat
  <2> HIDE DEF T
  <2>1. Q \in SUBSET Nat
    OBVIOUS
  <2> HIDE DEF Q
  <2> QED BY <1>1, <1>2, <2>1, Induction
<1>4. T(n)
  <2>1. n \in Q
    <3> HIDE DEF Q
    <3> QED BY <1>3
  <2> QED BY <2>1
<1> QED BY <1>4 DEF Repeated

LEMMA Smallest ==
  ASSUME NEW I \in SUBSET Nat
  PROVE  /\ I = {} => B!First(I) = 0
         /\ I # {} => B!First(I) \in I /\ \A i \in I : B!First(I) <= i
<1>1. CASE I = {}
  BY <1>1 DEF B!First
<1>2. CASE I # {}
  <2> DEFINE Q == {x \in Nat : \A y \in I : x <= y}
  <2>1. ASSUME \A x \in I : \E y \in I : ~(x <= y) PROVE FALSE
    <3>1. 0 \in Q /\ \A x \in Q : x + 1 \in Q
      BY <2>1
    <3>2. Q = Nat
      BY <3>1, Induction
    <3>3. PICK s \in I : TRUE
      BY <1>2
    <3>4. s + 1 \in Q
      <4>1. s + 1 \in Nat
        OBVIOUS
      <4> HIDE DEF Q
      <4> QED BY <3>2, <4>1
    <3> QED BY <3>4
  <2>2. \E x \in I : \A y \in I : x <= y
    BY <2>1
  <2>3. B!First(I) = CHOOSE x \in I : \A y \in I : x <= y
    BY <1>2 DEF B!First, B!Min
  <2> QED BY <1>2, <2>2, <2>3
<1> QED BY <1>1, <1>2

Byte == Ns \X Names0 \X Names1 \X (1..2)
Saved == [name0 : Names0, name1 : Names1, data : Seq(Byte)]
Listing == [ns : Ns, list : Seq(Saved)]
Header == [name0 : Names0, name1 : Names1, offset : Nat, size : Nat]
Archived == [ns : Ns, size : Nat, chunks : Seq(Header), data : Seq(Byte)]

Sorted(s) == \A i, j \in DOMAIN s : i < j => B!Compare(s[i], s[j].name0, s[j].name1) < 0
Ids(ns, s) == {<<ns, s[i].name0, s[i].name1>> : i \in DOMAIN s}

(* A list of binaries that were saved *)
ListSound(g) ==
  /\ g \in Listing /\ g.list # <<>> /\ Sorted(g.list) /\ Ids(g.ns, g.list) \subseteq ChunkId
  /\ \A i \in DOMAIN g.list : g.list[i].data = B!Content(g.ns, g.list[i].name0, g.list[i].name1)

(* A group, maybe without the end of its data *)
Shape(g) ==
  /\ g \in Archived /\ Sorted(g.chunks) /\ Ids(g.ns, g.chunks) \subseteq ChunkId
  /\ B!WellFormed(g) /\ Len(g.data) <= g.size - 1 - Len(g.chunks)
Full(g) == Len(g.data) = g.size - 1 - Len(g.chunks)
Right(g) ==
  \A i \in DOMAIN g.chunks :
    B!Bytes(g, g.chunks[i].offset, g.chunks[i].size)
      = B!Content(g.ns, g.chunks[i].name0, g.chunks[i].name1)
GroupSound(g) == Shape(g) /\ Full(g) /\ Right(g)

LEMMA ContentTyped ==
  ASSUME NEW ns \in Ns, NEW n0 \in Names0, NEW n1 \in Names1
  PROVE  B!Content(ns, n0, n1) \in Seq(Byte)
<1> DEFINE m == (n0 + n1) % 3
           s == [i \in 1..m |-> <<ns, n0, n1, i>>]
<1>1. n0 \in Nat /\ n1 \in Nat
  BY ArchiveAssumption
<1>2. m \in 0..2
  BY <1>1
<1>3. B!Content(ns, n0, n1) = s
  BY DEF B!Content
<1> HIDE DEF m
<1>4. \A i \in 1..m : <<ns, n0, n1, i>> \in Byte
  BY <1>2 DEF Byte
<1>5. s \in [1..m -> Byte]
  BY <1>4
<1> QED BY <1>2, <1>3, <1>5, IsASeq

(* The order of the names *)
LEMMA CompareIs ==
  ASSUME NEW c, NEW n0 \in Nat, c.name0 \in Nat, c.name1 \in Nat
  PROVE  /\ \A n1 \in Nat :
              /\ B!Compare(c, n0, n1) \in Int
              /\ B!Compare(c, n0, n1) < 0 <=> c.name0 < n0 \/ (c.name0 = n0 /\ c.name1 < n1)
              /\ B!Compare(c, n0, n1) = 0 <=> c.name0 = n0 /\ c.name1 = n1
         /\ B!Compare(c, n0, B!Null) \in Int
         /\ B!Compare(c, n0, B!Null) < 0 <=> c.name0 < n0
         /\ B!Compare(c, n0, B!Null) = 0 <=> c.name0 = n0
<1> DEFINE x == c.name0
           y == c.name1
<1>1. \A n1 : B!Compare(c, n0, n1) =
        IF x # n0 THEN x - n0 ELSE IF n1 = B!Null THEN 0 ELSE y - n1
  BY DEF B!Compare
<1>2. x \in Nat /\ y \in Nat /\ B!Null = -1
  BY DEF B!Null
<1> HIDE DEF x, y
<1>3. \A n1 \in Nat : n1 # B!Null
  BY <1>2
<1>4. \A n1 \in Nat :
         /\ B!Compare(c, n0, n1) \in Int
         /\ B!Compare(c, n0, n1) < 0 <=> x < n0 \/ (x = n0 /\ y < n1)
         /\ B!Compare(c, n0, n1) = 0 <=> x = n0 /\ y = n1
  BY <1>1, <1>2, <1>3
<1>5. /\ B!Compare(c, n0, B!Null) \in Int
      /\ B!Compare(c, n0, B!Null) < 0 <=> x < n0
      /\ B!Compare(c, n0, B!Null) = 0 <=> x = n0
  BY <1>1, <1>2
<1> QED BY <1>4, <1>5 DEF x, y

(* Of two pairs of names *)
Before(c, d) == c.name0 < d.name0 \/ (c.name0 = d.name0 /\ c.name1 < d.name1)
SameNames(c, d) == c.name0 = d.name0 /\ c.name1 = d.name1

LEMMA BeforeIs ==
  ASSUME NEW c, NEW d, c.name0 \in Names0, c.name1 \in Names1, d.name0 \in Names0, d.name1 \in Names1
  PROVE  /\ B!Compare(c, d.name0, d.name1) \in Int
         /\ B!Compare(c, d.name0, d.name1) < 0 <=> Before(c, d)
         /\ B!Compare(c, d.name0, d.name1) = 0 <=> SameNames(c, d)
         /\ B!Compare(c, d.name0, d.name1) > 0 <=> Before(d, c)
<1>1. c.name0 \in Nat /\ c.name1 \in Nat /\ d.name0 \in Nat /\ d.name1 \in Nat
  BY ArchiveAssumption
<1>2. /\ B!Compare(c, d.name0, d.name1) \in Int
      /\ B!Compare(c, d.name0, d.name1) < 0 <=> Before(c, d)
      /\ B!Compare(c, d.name0, d.name1) = 0 <=> SameNames(c, d)
  BY <1>1, CompareIs DEF Before, SameNames
<1>3. Before(d, c) <=> ~Before(c, d) /\ ~SameNames(c, d)
  BY <1>1 DEF Before, SameNames
<1> QED BY <1>2, <1>3

(* In terms of the names, of listed binaries as of those in a group *)
LEMMA SortedIs ==
  ASSUME NEW s, s \in Seq(Saved) \/ s \in Seq(Header)
  PROVE  /\ Sorted(s) <=> \A i, j \in DOMAIN s : i < j => Before(s[i], s[j])
         /\ \A i \in DOMAIN s : s[i].name0 \in Names0 /\ s[i].name1 \in Names1
<1>1. \A i \in DOMAIN s : s[i] \in Saved \/ s[i] \in Header
  OBVIOUS
<1>2. \A i \in DOMAIN s : s[i].name0 \in Names0 /\ s[i].name1 \in Names1
  BY <1>1 DEF Saved, Header
<1>3. \A i, j \in DOMAIN s :
         B!Compare(s[i], s[j].name0, s[j].name1) < 0 <=> Before(s[i], s[j])
  <2> SUFFICES ASSUME NEW i \in DOMAIN s, NEW j \in DOMAIN s
               PROVE  B!Compare(s[i], s[j].name0, s[j].name1) < 0 <=> Before(s[i], s[j])
    OBVIOUS
  <2> QED BY <1>2, BeforeIs
<1> QED BY <1>2, <1>3, Zenon DEF Sorted

LEMMA InsertedAt ==
  ASSUME NEW S, NEW s \in Seq(S), NEW j \in 1..Len(s), NEW c \in S
  PROVE  /\ B!InsertAt(s, j, c) \in Seq(S) /\ Len(B!InsertAt(s, j, c)) = Len(s) + 1
         /\ \A i \in 1..(Len(s) + 1) :
              /\ i < j => B!InsertAt(s, j, c)[i] = s[i]
              /\ i = j => B!InsertAt(s, j, c)[i] = c
              /\ i > j => B!InsertAt(s, j, c)[i] = s[i - 1]
<1> DEFINE p == SubSeq(s, 1, j - 1)
           q == SubSeq(s, j, Len(s))
           u == p \o <<c>>
<1>0. Len(s) \in Nat /\ j \in Nat /\ 1 <= j /\ j <= Len(s)
  OBVIOUS
<1>1. /\ p \in Seq(S) /\ Len(p) = j - 1
      /\ \A i \in 1..(j - 1) : p[i] = s[i]
  <2>1. CASE j = 1
    <3>1. p = <<>>
      BY <2>1, SubSeqEmpty
    <3> QED BY <2>1, <3>1
  <2>2. CASE j # 1
    <3>1. j - 1 \in 1..Len(s)
      BY <1>0, <2>2
    <3> QED BY <1>0, <3>1, SubSeqProperties
  <2> QED BY <2>1, <2>2
<1>2. /\ q \in Seq(S) /\ Len(q) = Len(s) - j + 1
      /\ \A i \in 1..(Len(s) - j + 1) : q[i] = s[j + i - 1]
  BY <1>0, SubSeqProperties
<1>3. /\ <<c>> \in Seq(S) /\ Len(<<c>>) = 1 /\ <<c>>[1] = c
  OBVIOUS
<1> HIDE DEF p, q
<1>4. /\ u \in Seq(S) /\ Len(u) = j
      /\ \A i \in 1..(j - 1) : u[i] = s[i]
      /\ u[j] = c
  <2>1. /\ u \in Seq(S) /\ Len(u) = Len(p) + 1
        /\ \A i \in 1..(Len(p) + 1) : u[i] = IF i <= Len(p) THEN p[i] ELSE <<c>>[i - Len(p)]
    BY <1>1, <1>3, ConcatProperties
  <2> HIDE DEF u
  <2> QED BY <1>0, <1>1, <1>3, <2>1
<1> HIDE DEF u
<1>5. B!InsertAt(s, j, c) = u \o q
  BY DEF B!InsertAt, u, p, q
<1>6. /\ u \o q \in Seq(S) /\ Len(u \o q) = Len(s) + 1
      /\ \A i \in 1..(Len(s) + 1) : (u \o q)[i] = IF i <= j THEN u[i] ELSE q[i - j]
  <2> DEFINE v == u \o q
  <2>1. /\ v \in Seq(S) /\ Len(v) = Len(u) + Len(q)
        /\ \A i \in 1..(Len(u) + Len(q)) : v[i] = IF i <= Len(u) THEN u[i] ELSE q[i - Len(u)]
    BY <1>2, <1>4, ConcatProperties
  <2> HIDE DEF v
  <2> QED BY <1>0, <1>2, <1>4, <2>1 DEF v
<1>7. ASSUME NEW i \in 1..(Len(s) + 1)
      PROVE  /\ i < j => (u \o q)[i] = s[i]
             /\ i = j => (u \o q)[i] = c
             /\ i > j => (u \o q)[i] = s[i - 1]
  <2>1. CASE i < j
    BY <1>0, <1>4, <1>6, <2>1
  <2>2. CASE i = j
    BY <1>0, <1>4, <1>6, <2>2
  <2>3. CASE i > j
    <3>1. i - j \in 1..(Len(s) - j + 1) /\ j + (i - j) - 1 = i - 1 /\ ~(i <= j)
      BY <1>0, <2>3
    <3>2. (u \o q)[i] = q[i - j]
      BY <1>6, <3>1
    <3>3. q[i - j] = s[i - 1]
      BY <1>2, <3>1
    <3> QED BY <1>0, <2>3, <3>2, <3>3
  <2> QED BY <1>0, <2>1, <2>2, <2>3
<1> QED BY <1>5, <1>6, <1>7

(* A list stays sorted, keeps what it has and gets c, if it has none of its names. *)
LEMMA InsertedSound ==
  ASSUME NEW s \in Seq(Saved), Sorted(s), NEW c \in Saved
  PROVE  /\ B!Inserted(s, c) \in Seq(Saved) /\ Sorted(B!Inserted(s, c))
         /\ \A i \in DOMAIN B!Inserted(s, c) :
              B!Inserted(s, c)[i] = c \/ \E j \in DOMAIN s : B!Inserted(s, c)[i] = s[j]
         /\ \A j \in DOMAIN s : \E i \in DOMAIN B!Inserted(s, c) : B!Inserted(s, c)[i] = s[j]
         /\ \E i \in DOMAIN B!Inserted(s, c) : SameNames(B!Inserted(s, c)[i], c)
<1> DEFINE n == Len(s)
           I == {i \in DOMAIN s : B!Compare(s[i], c.name0, c.name1) >= 0}
           j == B!First(I)
           t == B!Inserted(s, c)
<1>0. n \in Nat /\ DOMAIN s = 1..n /\ c.name0 \in Names0 /\ c.name1 \in Names1
  BY DEF Saved
<1>1. t = IF j = 0 THEN Append(s, c)
          ELSE IF B!Compare(s[j], c.name0, c.name1) = 0 THEN s
          ELSE B!InsertAt(s, j, c)
  BY DEF B!Inserted
<1>2. /\ \A i \in 1..n : s[i].name0 \in Names0 /\ s[i].name1 \in Names1
      /\ \A i, k \in 1..n : i < k => Before(s[i], s[k])
  BY <1>0, SortedIs
<1>3. \A i \in 1..n :
        /\ i \in I <=> ~Before(s[i], c)
        /\ B!Compare(s[i], c.name0, c.name1) = 0 <=> SameNames(s[i], c)
  <2> SUFFICES ASSUME NEW i \in 1..n
               PROVE  /\ i \in I <=> ~Before(s[i], c)
                      /\ B!Compare(s[i], c.name0, c.name1) = 0 <=> SameNames(s[i], c)
    OBVIOUS
  <2>1. /\ B!Compare(s[i], c.name0, c.name1) \in Int
        /\ B!Compare(s[i], c.name0, c.name1) < 0 <=> Before(s[i], c)
        /\ B!Compare(s[i], c.name0, c.name1) = 0 <=> SameNames(s[i], c)
    BY <1>0, <1>2, BeforeIs
  <2>2. i \in I <=> B!Compare(s[i], c.name0, c.name1) >= 0
    BY <1>0
  <2> HIDE DEF I
  <2> QED BY <2>1, <2>2
<1>4. I \subseteq 1..n
  BY <1>0
<1> HIDE DEF I
<1>5. /\ j = 0 => I = {}
      /\ j # 0 => j \in 1..n /\ j \in I /\ \A i \in 1..n : i < j => i \notin I
  <2>1. I \in SUBSET Nat
    BY <1>4
  <2>2. I = {} => j = 0
    BY <2>1, Smallest
  <2>3. I # {} => j \in I /\ \A i \in I : j <= i
    BY <2>1, Smallest
  <2> HIDE DEF j
  <2>4. j = 0 => I = {}
    BY <1>0, <1>4, <2>3
  <2>5. ASSUME j # 0 PROVE j \in 1..n /\ j \in I
    BY <1>4, <2>2, <2>3, <2>5
  <2>6. ASSUME j # 0, NEW i \in 1..n, i < j PROVE i \notin I
    BY <1>0, <2>3, <2>5, <2>6
  <2> QED BY <2>4, <2>5, <2>6
<1> HIDE DEF j
<1>6. CASE j = 0
  <2>1. /\ t = Append(s, c) /\ t \in Seq(Saved) /\ Len(t) = n + 1 /\ DOMAIN t = 1..(n + 1)
        /\ \A i \in 1..n : t[i] = s[i]
        /\ t[n + 1] = c
    <3>1. t = Append(s, c)
      BY <1>1, <1>6
    <3> HIDE DEF t
    <3> QED BY <3>1
  <2> HIDE DEF t, n
  <2>2. \A i \in 1..(n + 1) : i = n + 1 \/ i \in 1..n
    BY <1>0
  <2>3. \A i \in 1..n : i \in 1..(n + 1)
    BY <1>0
  <2>4. n + 1 \in 1..(n + 1)
    BY <1>0
  <2>5. ASSUME NEW i \in 1..(n + 1), NEW k \in 1..(n + 1), i < k PROVE Before(t[i], t[k])
    <3>1. i \in 1..n
      BY <1>0, <2>5
    <3>2. CASE k = n + 1
      BY <1>3, <1>5, <1>6, <2>1, <3>1, <3>2
    <3>3. CASE k \in 1..n
      BY <1>2, <2>1, <2>5, <3>1, <3>3
    <3> QED BY <2>2, <3>2, <3>3
  <2>6. Sorted(t)
    BY <2>1, <2>5, SortedIs
  <2>7. SameNames(t[n + 1], c)
    BY <2>1 DEF SameNames
  <2>8. /\ \A i \in DOMAIN t : t[i] = c \/ \E k \in DOMAIN s : t[i] = s[k]
        /\ \A k \in DOMAIN s : \E i \in DOMAIN t : t[i] = s[k]
        /\ \E i \in DOMAIN t : SameNames(t[i], c)
    BY <1>0, <2>1, <2>2, <2>3, <2>4, <2>7
  <2>9. t \in Seq(Saved)
    BY <2>1
  <2> QED BY <2>6, <2>8, <2>9 DEF t
<1>7. CASE j # 0 /\ SameNames(s[j], c)
  <2>1. t = s
    BY <1>1, <1>3, <1>5, <1>7
  <2> HIDE DEF t
  <2> QED BY <1>0, <1>5, <1>7, <2>1 DEF t
<1>8. CASE j # 0 /\ ~SameNames(s[j], c)
  <2>1. j \in 1..n /\ t = B!InsertAt(s, j, c)
    BY <1>1, <1>3, <1>5, <1>8
  <2> HIDE DEF t
  <2>2. /\ t \in Seq(Saved) /\ Len(t) = n + 1 /\ DOMAIN t = 1..(n + 1)
        /\ \A i \in 1..(n + 1) :
             /\ i < j => t[i] = s[i]
             /\ i = j => t[i] = c
             /\ i > j => t[i] = s[i - 1]
    <3>1. /\ t \in Seq(Saved) /\ Len(t) = n + 1
          /\ \A i \in 1..(n + 1) :
               /\ i < j => t[i] = s[i]
               /\ i = j => t[i] = c
               /\ i > j => t[i] = s[i - 1]
      BY <2>1, InsertedAt
    <3> HIDE DEF n
    <3> QED BY <3>1
  <2>3. \A i \in 1..n : /\ i < j => Before(s[i], c)
                        /\ i >= j => Before(c, s[i])
    <3>1. ~Before(s[j], c)
      BY <1>3, <1>5, <2>1, <1>8
    <3>2. Before(c, s[j])
      <4>1. /\ s[j].name0 \in Nat /\ s[j].name1 \in Nat /\ c.name0 \in Nat /\ c.name1 \in Nat
        BY <1>0, <1>2, <2>1, ArchiveAssumption
      <4> QED BY <1>8, <3>1, <4>1 DEF Before, SameNames
    <3> SUFFICES ASSUME NEW i \in 1..n
                 PROVE  /\ i < j => Before(s[i], c)
                        /\ i >= j => Before(c, s[i])
      OBVIOUS
    <3>3. i < j => Before(s[i], c)
      BY <1>3, <1>5, <2>1, <1>8
    <3>4. ASSUME i > j PROVE Before(c, s[i])
      <4>1. Before(s[j], s[i])
        BY <1>2, <2>1, <3>4
      <4>2. /\ s[j].name0 \in Nat /\ s[j].name1 \in Nat /\ c.name0 \in Nat /\ c.name1 \in Nat
            /\ s[i].name0 \in Nat /\ s[i].name1 \in Nat
        BY <1>0, <1>2, <2>1, ArchiveAssumption
      <4> QED BY <3>2, <4>1, <4>2 DEF Before
    <3>5. i < j \/ i = j \/ i > j
      BY <2>1
    <3>6. i < j => ~(i >= j)
      BY <2>1
    <3> QED BY <3>2, <3>3, <3>4, <3>5, <3>6
  <2> HIDE DEF n
  <2>4. ASSUME NEW i \in 1..(n + 1), NEW k \in 1..(n + 1), i < k PROVE Before(t[i], t[k])
    <3>1. CASE k < j
      <4>1. i \in 1..n /\ k \in 1..n /\ i < j
        BY <1>0, <2>1, <2>4, <3>1
      <4> QED BY <1>2, <2>2, <2>4, <3>1, <4>1
    <3>2. CASE k = j
      <4>1. i \in 1..n /\ i < j
        BY <1>0, <2>1, <2>4, <3>2
      <4> QED BY <2>2, <2>3, <3>2, <4>1
    <3>3. CASE k > j
      <4>1. k - 1 \in 1..n /\ k - 1 >= j /\ t[k] = s[k - 1]
        BY <1>0, <2>1, <2>2, <3>3
      <4>2. CASE i = j
        BY <2>2, <2>3, <4>1, <4>2
      <4>3. CASE i < j
        <5>1. i \in 1..n /\ i < k - 1
          BY <1>0, <2>1, <4>1, <4>3
        <5> QED BY <1>2, <2>2, <4>1, <4>3, <5>1
      <4>4. CASE i > j
        <5>1. i - 1 \in 1..n /\ i - 1 < k - 1
          BY <1>0, <2>1, <2>4, <4>4
        <5> QED BY <1>2, <2>2, <4>1, <4>4, <5>1
      <4> QED BY <2>1, <4>2, <4>3, <4>4
    <3> QED BY <2>1, <3>1, <3>2, <3>3
  <2>5. Sorted(t)
    BY <2>2, <2>4, SortedIs
  <2>6. \A i \in DOMAIN t : t[i] = c \/ \E k \in DOMAIN s : t[i] = s[k]
    <3> SUFFICES ASSUME NEW i \in 1..(n + 1)
                 PROVE  t[i] = c \/ \E k \in 1..n : t[i] = s[k]
      BY <1>0, <2>2
    <3>1. i < j => i \in 1..n
      BY <1>0, <2>1
    <3>2. i > j => i - 1 \in 1..n
      BY <1>0, <2>1
    <3>3. i < j \/ i = j \/ i > j
      BY <2>1
    <3> QED BY <2>2, <3>1, <3>2, <3>3
  <2>7. \A k \in DOMAIN s : \E i \in DOMAIN t : t[i] = s[k]
    <3> SUFFICES ASSUME NEW k \in 1..n PROVE \E i \in 1..(n + 1) : t[i] = s[k]
      BY <1>0, <2>2
    <3>1. CASE k < j
      <4>1. k \in 1..(n + 1)
        BY <1>0
      <4> QED BY <2>2, <3>1, <4>1
    <3>2. CASE k >= j
      <4>1. k + 1 \in 1..(n + 1) /\ k + 1 > j /\ (k + 1) - 1 = k
        BY <1>0, <2>1, <3>2
      <4> QED BY <2>2, <4>1
    <3> QED BY <2>1, <3>1, <3>2
  <2>8. \E i \in DOMAIN t : SameNames(t[i], c)
    <3>1. j \in 1..(n + 1) /\ t[j] = c
      BY <1>0, <2>1, <2>2
    <3> QED BY <2>2, <3>1 DEF SameNames
  <2> QED BY <2>2, <2>5, <2>6, <2>7, <2>8 DEF t
<1> QED BY <1>6, <1>7, <1>8

(* Where the parts of a concatenation are *)
LEMMA PartsOf ==
  ASSUME NEW n \in Nat, NEW e \in [1..n -> Seq(Byte)], NEW d \in [0..n -> Seq(Byte)],
         d[0] = <<>>, \A i \in 1..n : d[i] = d[i - 1] \o e[i]
  PROVE  \A i \in 1..n :
           /\ Len(d[i]) = Len(d[i - 1]) + Len(e[i]) /\ Len(d[i]) <= Len(d[n])
           /\ \A k \in 1..Len(e[i]) : /\ Len(d[i - 1]) + k \in 1..Len(d[n])
                                      /\ d[n][Len(d[i - 1]) + k] = e[i][k]
<1>0. /\ \A i \in 0..n : d[i] \in Seq(Byte) /\ Len(d[i]) \in Nat
      /\ \A i \in 1..n : i - 1 \in 0..n /\ i \in 0..n /\ e[i] \in Seq(Byte) /\ Len(e[i]) \in Nat
  <2>1. \A i \in 0..n : d[i] \in Seq(Byte)
    OBVIOUS
  <2>2. \A i \in 1..n : e[i] \in Seq(Byte)
    OBVIOUS
  <2>3. \A i \in 1..n : i - 1 \in 0..n /\ i \in 0..n
    OBVIOUS
  <2>4. \A s \in Seq(Byte) : Len(s) \in Nat
    OBVIOUS
  <2> QED BY <2>1, <2>2, <2>3, <2>4, Zenon
<1>1. ASSUME NEW i \in 1..n
      PROVE  /\ Len(d[i]) = Len(d[i - 1]) + Len(e[i])
             /\ \A x \in 1..Len(d[i - 1]) : d[i][x] = d[i - 1][x]
             /\ \A k \in 1..Len(e[i]) : d[i][Len(d[i - 1]) + k] = e[i][k]
  <2> DEFINE p == d[i - 1]
             q == e[i]
  <2>1. p \in Seq(Byte) /\ q \in Seq(Byte) /\ Len(p) \in Nat /\ Len(q) \in Nat /\ d[i] = p \o q
    BY <1>0
  <2> HIDE DEF p, q
  <2>2. /\ Len(p \o q) = Len(p) + Len(q)
        /\ \A x \in 1..(Len(p) + Len(q)) :
             (p \o q)[x] = IF x <= Len(p) THEN p[x] ELSE q[x - Len(p)]
    BY <2>1, ConcatProperties
  <2>3. \A x \in 1..Len(p) : x \in 1..(Len(p) + Len(q)) /\ x <= Len(p)
    BY <2>1
  <2>4. \A k \in 1..Len(q) :
          /\ Len(p) + k \in 1..(Len(p) + Len(q)) /\ ~(Len(p) + k <= Len(p))
          /\ (Len(p) + k) - Len(p) = k
    <3> DEFINE a == Len(p)
               b == Len(q)
    <3>1. a \in Nat /\ b \in Nat
      BY <2>1
    <3> HIDE DEF a, b
    <3>2. \A k \in 1..b : a + k \in 1..(a + b) /\ ~(a + k <= a) /\ (a + k) - a = k
      BY <3>1
    <3> QED BY <3>2 DEF a, b
  <2>5. /\ Len(d[i]) = Len(p) + Len(q)
        /\ \A x \in 1..Len(p) : d[i][x] = p[x]
        /\ \A k \in 1..Len(q) : d[i][Len(p) + k] = q[k]
    BY <2>1, <2>2, <2>3, <2>4
  <2> QED BY <2>5 DEF p, q
<1> SUFFICES ASSUME NEW i \in 1..n
             PROVE  /\ Len(d[i]) = Len(d[i - 1]) + Len(e[i]) /\ Len(d[i]) <= Len(d[n])
                    /\ \A k \in 1..Len(e[i]) : /\ Len(d[i - 1]) + k \in 1..Len(d[n])
                                               /\ d[n][Len(d[i - 1]) + k] = e[i][k]
  OBVIOUS
<1> DEFINE A == {m \in 0..n : m >= i => /\ Len(d[i]) <= Len(d[m])
                                        /\ \A x \in 1..Len(d[i]) : d[m][x] = d[i][x]}
<1>2. 0 \in A
  OBVIOUS
<1>3. ASSUME NEW m \in 1..n, m - 1 \in A PROVE m \in A
  <2> SUFFICES ASSUME m >= i
               PROVE  Len(d[i]) <= Len(d[m]) /\ \A x \in 1..Len(d[i]) : d[m][x] = d[i][x]
    BY <1>0
  <2>1. CASE m = i
    BY <1>0, <2>1
  <2>2. CASE m # i
    <3>1. m - 1 >= i
      BY <2>2
    <3>2. Len(d[i]) <= Len(d[m - 1]) /\ \A x \in 1..Len(d[i]) : d[m - 1][x] = d[i][x]
      BY <1>3, <3>1
    <3>3. /\ Len(d[m]) = Len(d[m - 1]) + Len(e[m])
          /\ \A x \in 1..Len(d[m - 1]) : d[m][x] = d[m - 1][x]
      BY <1>1
    <3>4. Len(d[i]) \in Nat /\ Len(d[m - 1]) \in Nat /\ Len(e[m]) \in Nat
      BY <1>0
    <3>5. Len(d[i]) <= Len(d[m])
      BY <3>2, <3>3, <3>4
    <3>6. \A x \in 1..Len(d[i]) : x \in 1..Len(d[m - 1])
      BY <3>2, <3>4
    <3> QED BY <3>2, <3>3, <3>5, <3>6
  <2> QED BY <2>1, <2>2
<1>4. A \in SUBSET (0..n)
  OBVIOUS
<1> HIDE DEF A
<1>5. A = 0..n
  BY <1>2, <1>3, <1>4, AllRounds
<1>6. n \in A /\ n >= i
  BY <1>5
<1>7. Len(d[i]) <= Len(d[n]) /\ \A x \in 1..Len(d[i]) : d[n][x] = d[i][x]
  BY <1>6 DEF A
<1>8. Len(d[i]) = Len(d[i - 1]) + Len(e[i])
  BY <1>1
<1>9. /\ Len(d[i]) \in Nat /\ Len(d[i - 1]) \in Nat /\ Len(e[i]) \in Nat /\ Len(d[n]) \in Nat
      /\ i - 1 \in 0..n
  <2>1. n \in 0..n
    OBVIOUS
  <2> QED BY <1>0, <2>1
<1>10. ASSUME NEW k \in 1..Len(e[i])
       PROVE  Len(d[i - 1]) + k \in 1..Len(d[n]) /\ d[n][Len(d[i - 1]) + k] = e[i][k]
  <2>1. Len(d[i - 1]) + k \in 1..Len(d[i]) /\ Len(d[i - 1]) + k \in 1..Len(d[n])
    <3> DEFINE a == Len(d[i - 1])
               b == Len(d[i])
               c == Len(d[n])
               l == Len(e[i])
    <3>1. a \in Nat /\ b \in Nat /\ c \in Nat /\ l \in Nat /\ b = a + l /\ b <= c /\ k \in 1..l
      BY <1>7, <1>8, <1>9
    <3> HIDE DEF a, b, c, l
    <3>2. a + k \in 1..b /\ a + k \in 1..c
      BY <3>1
    <3> QED BY <3>2 DEF a, b, c
  <2>2. d[i][Len(d[i - 1]) + k] = e[i][k]
    BY <1>1
  <2> QED BY <1>7, <2>1, <2>2
<1> QED BY <1>7, <1>8, <1>10

(* The data of a list follow each other, and its size is theirs with a byte for each. *)
DataUpTo(list) ==
  CHOOSE data : data =
    [i \in 0..Len(list) |-> IF i = 0 THEN <<>> ELSE data[i - 1] \o list[i].data]

LEMMA DataOf ==
  ASSUME NEW list \in Seq(Saved)
  PROVE  /\ DataUpTo(list) \in [0..Len(list) -> Seq(Byte)] /\ DataUpTo(list)[0] = <<>>
         /\ \A i \in 1..Len(list) : DataUpTo(list)[i] = DataUpTo(list)[i - 1] \o list[i].data
<1> DEFINE n == Len(list)
           data == DataUpTo(list)
<1>0. n \in Nat
  OBVIOUS
<1> DEFINE e == [i \in 1..n |-> list[i].data]
           h == [i \in 1..n |-> [y \in Seq(Byte) |-> y \o e[i]]]
           Step(d) == [i \in 0..n |-> IF i = 0 THEN <<>> ELSE d[i - 1] \o list[i].data]
<1>1. \A i \in 1..n : e[i] = list[i].data /\ list[i].data \in Seq(Byte)
  <2>1. \A i \in 1..n : list[i] \in Saved
    BY <1>0
  <2> QED BY <2>1 DEF Saved
<1>2. /\ \A i \in 1..n : \A y \in Seq(Byte) : h[i][y] = y \o list[i].data
      /\ h \in [1..n -> [Seq(Byte) -> Seq(Byte)]]
  <2>1. \A i \in 1..n : \A y \in Seq(Byte) : y \o e[i] \in Seq(Byte)
    BY <1>1
  <2>2. \A i \in 1..n : [y \in Seq(Byte) |-> y \o e[i]] \in [Seq(Byte) -> Seq(Byte)]
    BY <2>1
  <2> QED BY <1>1, <2>2
<1> HIDE DEF e, h, n
<1>3. /\ 0 \in 0..n /\ \A i \in 1..n : i \in 0..n /\ i # 0 /\ i - 1 \in 0..n
      /\ \A i \in 0..n : i = 0 \/ i \in 1..n
  BY <1>0
<1>4. \E f : f = Step(f)
  <2>1. Stepping(n, Seq(Byte), <<>>, h)
    BY <1>0, <1>2 DEF Stepping
  <2>2. Repeated(n, Seq(Byte), <<>>, h)
    BY <2>1, Rounds
  <2>3. PICK f \in [0..n -> Seq(Byte)] : f[0] = <<>> /\ \A i \in 1..n : f[i] = h[i][f[i - 1]]
    BY <2>2 DEF Repeated
  <2>4. f = Step(f)
    BY <1>2, <1>3, <2>3
  <2> QED BY <2>4
<1>5. data = Step(data)
  BY <1>4, Zenon DEF DataUpTo, n
<1> HIDE DEF data
<1>6. data[0] = <<>> /\ \A i \in 1..n : data[i] = data[i - 1] \o list[i].data
  <2>1. \A i \in 0..n : data[i] = IF i = 0 THEN <<>> ELSE data[i - 1] \o list[i].data
    BY <1>5
  <2> QED BY <1>3, <2>1
<1> HIDE DEF Step
<1> DEFINE A == {i \in 0..n : data[i] \in Seq(Byte)}
<1>7. A = 0..n
  <2>1. 0 \in A
    <3>1. <<>> \in Seq(Byte)
      OBVIOUS
    <3> QED BY <1>3, <1>6, <3>1
  <2>2. ASSUME NEW i \in 1..n, i - 1 \in A PROVE i \in A
    <3>1. i \in 0..n /\ data[i - 1] \in Seq(Byte) /\ list[i].data \in Seq(Byte)
      BY <1>1, <1>3, <2>2
    <3>2. data[i] \in Seq(Byte)
      <4>1. data[i] = data[i - 1] \o list[i].data
        BY <1>6
      <4>2. \A p, q \in Seq(Byte) : p \o q \in Seq(Byte)
        OBVIOUS
      <4> QED BY <3>1, <4>1, <4>2
    <3> QED BY <3>1, <3>2
  <2>3. A \in SUBSET (0..n)
    OBVIOUS
  <2> HIDE DEF A
  <2> QED BY <2>1, <2>2, <2>3, <1>0, AllRounds
<1>8. \A i \in 0..n : data[i] \in Seq(Byte)
  BY <1>7
<1>9. DOMAIN data = 0..n /\ data = [i \in 0..n |-> data[i]]
  BY <1>5 DEF Step
<1> QED BY <1>6, <1>8, <1>9 DEF data, n

(* A sum is what adds up to it. *)
LEMMA TotalIs ==
  ASSUME NEW n \in Nat, NEW size \in [1..n -> Nat], NEW t \in [0..n -> Nat],
         t[0] = 0, \A i \in 1..n : t[i] = t[i - 1] + size[i]
  PROVE  B!Total(size) = t[n]
<1> DEFINE Step(d) == [i \in 0..n |-> IF i = 0 THEN 0 ELSE d[i - 1] + size[i]]
           total == CHOOSE d : d = Step(d)
<1>1. Len(size) = n
  OBVIOUS
<1>2. B!Total(size) = total[n]
  BY <1>1, Zenon DEF B!Total
<1>3. /\ 0 \in 0..n /\ n \in 0..n /\ \A i \in 1..n : i \in 0..n /\ i # 0 /\ i - 1 \in 0..n
      /\ \A i \in 0..n : i = 0 \/ i \in 1..n
  OBVIOUS
<1>4. \E d : d = Step(d)
  <2>1. \A i \in 0..n : t[i] = IF i = 0 THEN 0 ELSE t[i - 1] + size[i]
    BY <1>3
  <2>2. t = Step(t)
    BY <2>1
  <2> QED BY <2>2
<1>5. total = Step(total)
  BY <1>4, Zenon
<1> HIDE DEF total
<1>6. total[0] = 0 /\ \A i \in 1..n : total[i] = total[i - 1] + size[i]
  BY <1>3, <1>5
<1> DEFINE A == {i \in 0..n : total[i] = t[i]}
<1>7. A = 0..n
  <2>1. 0 \in A
    BY <1>3, <1>6
  <2>2. ASSUME NEW i \in 1..n, i - 1 \in A PROVE i \in A
    <3>1. total[i] = total[i - 1] + size[i]
      BY <1>6
    <3>2. t[i] = t[i - 1] + size[i]
      OBVIOUS
    <3> QED BY <1>3, <2>2, <3>1, <3>2
  <2>3. A \in SUBSET (0..n)
    OBVIOUS
  <2> HIDE DEF A
  <2> QED BY <2>1, <2>2, <2>3, AllRounds
<1>8. total[n] = t[n]
  BY <1>3, <1>7
<1> QED BY <1>2, <1>8

(***************************************************************************)
(* What is written of a list is a whole group with the binaries of the     *)
(* list, as long as the room that is measured for it.                      *)
(***************************************************************************)
LEMMA ChunkGroupIs ==
  ASSUME NEW g, ListSound(g)
  PROVE  /\ GroupSound(B!ChunkGroup(g)) /\ B!ChunkGroup(g).ns = g.ns
         /\ Ids(g.ns, B!ChunkGroup(g).chunks) = Ids(g.ns, g.list)
         /\ B!ChunkGroup(g).size = B!RoomFor(g)
<1> DEFINE n == Len(g.list)
           list == g.list
           data == DataUpTo(g.list)
           cg == B!ChunkGroup(g)
           Named(i) == [name0 |-> g.list[i].name0, name1 |-> g.list[i].name1,
                        offset |-> (1 + n) + Len(data[i - 1]), size |-> Len(g.list[i].data)]
           chunks == [i \in 1..n |-> Named(i)]
<1>0. /\ g \in Listing /\ g.ns \in Ns /\ list \in Seq(Saved) /\ n \in Nat /\ DOMAIN list = 1..n
      /\ Sorted(list) /\ Ids(g.ns, list) \subseteq ChunkId
      /\ \A i \in 1..n : list[i].data = B!Content(g.ns, list[i].name0, list[i].name1)
  BY DEF ListSound, Listing
<1>1. /\ data \in [0..n -> Seq(Byte)] /\ data[0] = <<>>
      /\ \A i \in 1..n : data[i] = data[i - 1] \o list[i].data
  BY <1>0, DataOf
<1>2. cg = [ns |-> g.ns, size |-> (1 + n) + Len(data[(n + 1) - 1]), chunks |-> chunks, data |-> data[n]]
  BY Zenon DEF B!ChunkGroup, B!ChunkDataOffset, DataUpTo
<1>3. /\ \A i \in 0..n : data[i] \in Seq(Byte) /\ Len(data[i]) \in Nat
      /\ \A i \in 1..n : /\ list[i].name0 \in Names0 /\ list[i].name1 \in Names1
                         /\ list[i].data \in Seq(Byte) /\ Len(list[i].data) \in Nat
      /\ \A i \in 1..n : i \in 0..n /\ i - 1 \in 0..n /\ i # 0
      /\ 0 \in 0..n /\ n \in 0..n /\ (n + 1) - 1 = n
  <2>1. \A i \in 1..n : list[i] \in Saved
    BY <1>0
  <2>2. \A i \in 1..n : /\ list[i].name0 \in Names0 /\ list[i].name1 \in Names1
                        /\ list[i].data \in Seq(Byte)
    BY <2>1 DEF Saved
  <2> HIDE DEF data, list, n
  <2>3. \A i \in 0..n : data[i] \in Seq(Byte)
    BY <1>1
  <2>4. \A s \in Seq(Byte) : Len(s) \in Nat
    OBVIOUS
  <2>5. /\ \A i \in 1..n : i \in 0..n /\ i - 1 \in 0..n /\ i # 0
        /\ 0 \in 0..n /\ n \in 0..n /\ (n + 1) - 1 = n
    BY <1>0
  <2> QED BY <2>2, <2>3, <2>4, <2>5, Zenon
<1> HIDE DEF data
<1>4. /\ chunks \in Seq(Header) /\ Len(chunks) = n /\ DOMAIN chunks = 1..n
      /\ \A i \in 1..n : /\ chunks[i].name0 = list[i].name0 /\ chunks[i].name1 = list[i].name1
                         /\ chunks[i].offset = (1 + n) + Len(data[i - 1])
                         /\ chunks[i].size = Len(list[i].data)
  <2> HIDE DEF n
  <2>1. \A i \in 1..n : Named(i) \in Header
    <3>1. \A x \in Nat : (1 + n) + x \in Nat
      BY <1>0
    <3>2. \A i \in 1..n : (1 + n) + Len(data[i - 1]) \in Nat
      BY <1>3, <3>1
    <3> QED BY <1>3, <3>2 DEF Header
  <2>2. \A i \in 1..n : chunks[i] = Named(i)
    OBVIOUS
  <2>3. chunks \in [1..n -> Header]
    <3> HIDE DEF Named
    <3> QED BY <2>1
  <2>4. \A i \in 1..n : /\ chunks[i].name0 = list[i].name0 /\ chunks[i].name1 = list[i].name1
                        /\ chunks[i].offset = (1 + n) + Len(data[i - 1])
                        /\ chunks[i].size = Len(list[i].data)
    BY <2>2
  <2> HIDE DEF chunks
  <2>5. chunks \in Seq(Header) /\ Len(chunks) = n /\ DOMAIN chunks = 1..n
    BY <1>0, <2>3, IsSequence
  <2> QED BY <2>4, <2>5
<1> HIDE DEF chunks, cg, n, list
<1>5. /\ cg.ns = g.ns /\ cg.size = (1 + n) + Len(data[n]) /\ cg.chunks = chunks /\ cg.data = data[n]
      /\ cg \in Archived
  <2>1. cg = [ns |-> g.ns, size |-> (1 + n) + Len(data[n]), chunks |-> chunks, data |-> data[n]]
    BY <1>2, <1>3
  <2>2. (1 + n) + Len(data[n]) \in Nat
    <3>1. Len(data[n]) \in Nat
      BY <1>3
    <3>2. n \in Nat
      BY <1>0
    <3>3. \A x \in Nat : (1 + n) + x \in Nat
      BY <3>2
    <3> QED BY <3>1, <3>3
  <2> QED BY <1>0, <1>3, <1>4, <2>1, <2>2 DEF Archived
<1>6. \A i \in 1..n :
        /\ Len(data[i]) = Len(data[i - 1]) + Len(list[i].data) /\ Len(data[i]) <= Len(data[n])
        /\ \A k \in 1..Len(list[i].data) :
             /\ Len(data[i - 1]) + k \in 1..Len(data[n])
             /\ data[n][Len(data[i - 1]) + k] = list[i].data[k]
  <2> DEFINE e == [i \in 1..n |-> list[i].data]
  <2>1. e \in [1..n -> Seq(Byte)] /\ \A i \in 1..n : e[i] = list[i].data
    BY <1>3
  <2> HIDE DEF e
  <2>2. \A i \in 1..n : data[i] = data[i - 1] \o e[i]
    BY <1>1, <2>1
  <2>3. \A i \in 1..n :
          /\ Len(data[i]) = Len(data[i - 1]) + Len(e[i]) /\ Len(data[i]) <= Len(data[n])
          /\ \A k \in 1..Len(e[i]) : /\ Len(data[i - 1]) + k \in 1..Len(data[n])
                                     /\ data[n][Len(data[i - 1]) + k] = e[i][k]
    BY <1>0, <1>1, <2>1, <2>2, PartsOf
  <2> SUFFICES ASSUME NEW i \in 1..n
               PROVE  /\ Len(data[i]) = Len(data[i - 1]) + Len(list[i].data)
                      /\ Len(data[i]) <= Len(data[n])
                      /\ \A k \in 1..Len(list[i].data) :
                           /\ Len(data[i - 1]) + k \in 1..Len(data[n])
                           /\ data[n][Len(data[i - 1]) + k] = list[i].data[k]
    OBVIOUS
  <2>4. e[i] = list[i].data
    BY <2>1
  <2> QED BY <2>3, <2>4
<1>7. Sorted(chunks) /\ Ids(g.ns, chunks) = Ids(g.ns, list)
  <2>1. \A i, j \in 1..n : i < j => Before(list[i], list[j])
    BY <1>0, SortedIs
  <2>2. \A i, j \in 1..n : i < j => Before(chunks[i], chunks[j])
    BY <1>4, <2>1 DEF Before
  <2>3. Sorted(chunks)
    BY <1>4, <2>2, SortedIs
  <2>4. Ids(g.ns, chunks) = Ids(g.ns, list)
    BY <1>0, <1>4 DEF Ids
  <2> QED BY <2>3, <2>4
<1> DEFINE d(i) == Len(data[i])
           z(i) == Len(list[i].data)
<1>8. /\ \A i \in 0..n : d(i) \in Nat
      /\ \A i \in 1..n : z(i) \in Nat /\ d(i) = d(i - 1) + z(i) /\ d(i) <= d(n) /\ d(i - 1) \in Nat
      /\ d(0) = 0 /\ d(n) \in Nat
  BY <1>1, <1>3, <1>6
<1>9. B!WellFormed(cg)
  <2> DEFINE size == [i \in 1..n |-> cg.chunks[i].size]
             t == [i \in 0..n |-> d(i)]
  <2>1. Len(cg.chunks) = n
    BY <1>4, <1>5
  <2>2. size = [i \in 1..n |-> z(i)]
    BY <1>4, <1>5
  <2> HIDE DEF d, z
  <2>3. size \in [1..n -> Nat] /\ t \in [0..n -> Nat] /\ t[0] = 0
        /\ \A i \in 1..n : t[i] = t[i - 1] + size[i]
    BY <1>3, <1>8, <2>2
  <2>4. t[n] = d(n)
    BY <1>3
  <2> HIDE DEF t, size
  <2>5. B!Total(size) = d(n)
    BY <1>0, <2>3, <2>4, TotalIs
  <2>6. \A i \in 1..n : cg.chunks[i].offset = (1 + n) + d(i - 1) /\ cg.chunks[i].size = z(i)
    BY <1>4, <1>5 DEF d, z
  <2>7. cg.size = (1 + n) + d(n)
    BY <1>5 DEF d
  <2>8. ASSUME NEW i \in 1..n PROVE cg.chunks[i].offset + cg.chunks[i].size <= cg.size
    <3>1. d(i) = d(i - 1) + z(i) /\ d(i) <= d(n)
      BY <1>8
    <3>2. cg.chunks[i].offset = (1 + n) + d(i - 1) /\ cg.chunks[i].size = z(i)
      BY <2>6
    <3>3. d(i - 1) \in Nat /\ z(i) \in Nat /\ d(n) \in Nat /\ d(i) \in Nat /\ n \in Nat
      BY <1>0, <1>3, <1>8
    <3> QED BY <2>7, <3>1, <3>2, <3>3
  <2>9. cg.size >= 1 + n /\ B!Total(size) = cg.size - (1 + n)
    BY <1>0, <1>8, <2>5, <2>7
  <2>10. B!WellFormed(cg) <=> /\ cg.size >= 1 + n
                              /\ \A i \in 1..n : cg.chunks[i].offset + cg.chunks[i].size <= cg.size
                              /\ B!Total(size) = cg.size - (1 + n)
    BY <2>1, Zenon DEF B!WellFormed, size
  <2> QED BY <2>8, <2>9, <2>10
<1>10. Full(cg) /\ Shape(cg)
  <2>1. Len(cg.data) = d(n) /\ cg.size = (1 + n) + d(n) /\ Len(cg.chunks) = n
    BY <1>4, <1>5
  <2> HIDE DEF d
  <2>2. Len(cg.data) = cg.size - 1 - Len(cg.chunks)
    BY <1>0, <1>8, <2>1
  <2>3. Len(cg.data) <= cg.size - 1 - Len(cg.chunks)
    BY <1>0, <1>8, <2>1
  <2> QED BY <1>0, <1>5, <1>7, <1>9, <2>2, <2>3 DEF Full, Shape
<1>11. Right(cg)
  <2> SUFFICES ASSUME NEW i \in 1..n
               PROVE  B!Bytes(cg, cg.chunks[i].offset, cg.chunks[i].size)
                        = B!Content(cg.ns, cg.chunks[i].name0, cg.chunks[i].name1)
    BY <1>4, <1>5 DEF Right
  <2>1. /\ cg.chunks[i].offset = (1 + n) + d(i - 1) /\ cg.chunks[i].size = z(i)
        /\ cg.chunks[i].name0 = list[i].name0 /\ cg.chunks[i].name1 = list[i].name1
        /\ Len(cg.chunks) = n /\ cg.data = data[n]
    BY <1>4, <1>5
  <2> DEFINE start == cg.chunks[i].offset - (1 + Len(cg.chunks))
  <2>2. start = d(i - 1)
    <3>1. d(i - 1) \in Nat
      BY <1>3, <1>8
    <3> HIDE DEF d
    <3> QED BY <1>0, <2>1, <3>1
  <2>3. B!Bytes(cg, cg.chunks[i].offset, cg.chunks[i].size) =
          [k \in 1..z(i) |-> IF d(i - 1) + k \in DOMAIN data[n] THEN data[n][d(i - 1) + k] ELSE <<>>]
    <3> HIDE DEF d, z
    <3> QED BY <2>1, <2>2 DEF B!Bytes
  <2>4. \A k \in 1..z(i) : /\ d(i - 1) + k \in DOMAIN data[n]
                           /\ data[n][d(i - 1) + k] = list[i].data[k]
    <3>1. DOMAIN data[n] = 1..d(n)
      BY <1>3
    <3> QED BY <1>6, <3>1
  <2>5. B!Bytes(cg, cg.chunks[i].offset, cg.chunks[i].size) = [k \in 1..z(i) |-> list[i].data[k]]
    <3> HIDE DEF d, z
    <3> QED BY <2>3, <2>4
  <2>6. [k \in 1..z(i) |-> list[i].data[k]] = list[i].data
    <3>1. \A s \in Seq(Byte) : [k \in 1..Len(s) |-> s[k]] = s
      OBVIOUS
    <3> QED BY <1>3, <3>1
  <2> QED BY <1>0, <1>5, <2>1, <2>5, <2>6
<1>12. cg.size = B!RoomFor(g)
  <2> DEFINE size == [i \in DOMAIN list |-> 1 + Len(list[i].data)]
             t == [i \in 0..n |-> i + d(i)]
  <2>1. B!RoomFor(g) = 1 + B!Total(size)
    BY Zenon DEF B!RoomFor, B!SizeOfList, list
  <2>2. size = [i \in 1..n |-> 1 + z(i)]
    BY <1>0
  <2> HIDE DEF d, z
  <2>3. size \in [1..n -> Nat] /\ \A i \in 1..n : size[i] = 1 + z(i)
    <3>1. \A i \in 1..n : 1 + z(i) \in Nat
      BY <1>8
    <3> QED BY <2>2, <3>1
  <2>4. t \in [0..n -> Nat] /\ t[0] = 0 /\ t[n] = n + d(n)
    BY <1>0, <1>3, <1>8
  <2>5. ASSUME NEW i \in 1..n PROVE t[i] = t[i - 1] + size[i]
    <3>1. t[i] = i + d(i) /\ t[i - 1] = (i - 1) + d(i - 1) /\ size[i] = 1 + z(i)
      BY <1>3, <2>3
    <3>2. d(i) = d(i - 1) + z(i) /\ d(i - 1) \in Nat /\ z(i) \in Nat
      BY <1>8
    <3> QED BY <3>1, <3>2
  <2> HIDE DEF t, size
  <2>6. B!Total(size) = n + d(n)
    BY <1>0, <2>3, <2>4, <2>5, TotalIs
  <2>7. cg.size = (1 + n) + d(n)
    BY <1>5 DEF d
  <2> QED BY <1>0, <1>8, <2>1, <2>6, <2>7
<1> QED BY <1>5, <1>7, <1>10, <1>11, <1>12 DEF GroupSound, cg, list

(***************************************************************************)
(* The search in a group.  The names compare with those of the chunks in   *)
(* their order; each round halves the range and keeps what may match.      *)
(***************************************************************************)
LEMMA Ordered ==
  ASSUME NEW s \in Seq(Header), Sorted(s), NEW n0 \in Names0, NEW n1 \in Names1 \cup {B!Null}
  PROVE  /\ \A i \in DOMAIN s : B!Compare(s[i], n0, n1) \in Int
         /\ \A i, j \in DOMAIN s : i < j =>
              /\ B!Compare(s[j], n0, n1) < 0 => B!Compare(s[i], n0, n1) < 0
              /\ B!Compare(s[i], n0, n1) > 0 => B!Compare(s[j], n0, n1) > 0
<1>1. /\ \A i, j \in DOMAIN s : i < j => Before(s[i], s[j])
      /\ \A i \in DOMAIN s : s[i].name0 \in Names0 /\ s[i].name1 \in Names1
  BY SortedIs
<1>2. \A i \in DOMAIN s : s[i].name0 \in Nat /\ s[i].name1 \in Nat
  BY <1>1, ArchiveAssumption
<1>3. n0 \in Nat /\ (n1 \in Nat \/ n1 = B!Null)
  BY ArchiveAssumption
<1>4. \A i \in DOMAIN s : B!Compare(s[i], n0, n1) \in Int
  BY <1>2, <1>3, CompareIs
<1>5. ASSUME NEW i \in DOMAIN s, NEW j \in DOMAIN s, i < j
      PROVE  /\ B!Compare(s[j], n0, n1) < 0 => B!Compare(s[i], n0, n1) < 0
             /\ B!Compare(s[i], n0, n1) > 0 => B!Compare(s[j], n0, n1) > 0
  <2> DEFINE c == s[i]
             d == s[j]
             x == B!Compare(c, n0, n1)
             y == B!Compare(d, n0, n1)
  <2>1. Before(c, d)
    BY <1>1, <1>5
  <2>2. c.name0 \in Nat /\ c.name1 \in Nat /\ d.name0 \in Nat /\ d.name1 \in Nat
    BY <1>2
  <2>3. x \in Int /\ y \in Int
    BY <1>4
  <2> HIDE DEF c, d
  <2>4. CASE n1 \in Nat
    <3>1. /\ x < 0 <=> c.name0 < n0 \/ (c.name0 = n0 /\ c.name1 < n1)
          /\ x = 0 <=> c.name0 = n0 /\ c.name1 = n1
      BY <1>3, <2>2, <2>4, CompareIs
    <3>2. /\ y < 0 <=> d.name0 < n0 \/ (d.name0 = n0 /\ d.name1 < n1)
          /\ y = 0 <=> d.name0 = n0 /\ d.name1 = n1
      BY <1>3, <2>2, <2>4, CompareIs
    <3> HIDE DEF x, y
    <3>3. y < 0 => x < 0
      BY <1>3, <2>1, <2>2, <2>3, <2>4, <3>1, <3>2 DEF Before
    <3>4. x > 0 => y > 0
      BY <1>3, <2>1, <2>2, <2>3, <2>4, <3>1, <3>2 DEF Before
    <3> QED BY <3>3, <3>4 DEF x, y, c, d
  <2>5. CASE n1 = B!Null
    <3>1. /\ x < 0 <=> c.name0 < n0
          /\ x = 0 <=> c.name0 = n0
      BY <1>3, <2>2, <2>5, CompareIs
    <3>2. /\ y < 0 <=> d.name0 < n0
          /\ y = 0 <=> d.name0 = n0
      BY <1>3, <2>2, <2>5, CompareIs
    <3> HIDE DEF x, y
    <3>3. y < 0 => x < 0
      BY <1>3, <2>1, <2>2, <2>3, <3>1, <3>2 DEF Before
    <3>4. x > 0 => y > 0
      BY <1>3, <2>1, <2>2, <2>3, <3>1, <3>2 DEF Before
    <3> QED BY <3>3, <3>4 DEF x, y, c, d
  <2> QED BY <1>3, <2>4, <2>5
<1> QED BY <1>4, <1>5

Span(n) == [begin : 0..n, end : 0..n]

(* What matches is in the range r; left rounds are enough for it. *)
Holds(r, g, n0, n1, left) ==
  /\ \A k \in DOMAIN g.chunks : B!Compare(g.chunks[k], n0, n1) = 0 => r.begin < k /\ k <= r.end
  /\ r.begin < r.end =>
       \/ B!Compare(g.chunks[B!Middle(r) + 1], n0, n1) = 0
       \/ r.end - r.begin <= left

LEMMA MiddleIs ==
  ASSUME NEW n \in Nat, NEW r \in Span(n)
  PROVE  /\ B!Middle(r) \in Nat /\ r.begin \in 0..n /\ r.end \in 0..n
         /\ r.begin < r.end => /\ r.begin <= B!Middle(r) /\ B!Middle(r) < r.end
                               /\ B!Middle(r) + 1 \in 1..n
<1> DEFINE a == r.begin
           b == r.end
           m == (a + b) \div 2
<1>1. a \in 0..n /\ b \in 0..n
  BY DEF Span
<1>2. B!Middle(r) = m
  BY DEF B!Middle
<1> HIDE DEF a, b
<1>3. m \in Nat /\ (a < b => a <= m /\ m < b /\ m + 1 \in 1..n)
  BY <1>1
<1> QED BY <1>1, <1>2, <1>3 DEF a, b

LEMMA OneRound ==
  ASSUME NEW g, g.chunks \in Seq(Header), Sorted(g.chunks), NEW n0 \in Names0,
         NEW n1 \in Names1 \cup {B!Null}, NEW r \in Span(Len(g.chunks))
  PROVE  /\ B!Narrowed(r, g, n0, n1) \in Span(Len(g.chunks))
         /\ \A left \in Int :
              Holds(r, g, n0, n1, left) => Holds(B!Narrowed(r, g, n0, n1), g, n0, n1, left - 1)
<1> DEFINE n == Len(g.chunks)
           m == B!Middle(r)
           rc == B!Compare(g.chunks[m + 1], n0, n1)
           q == B!Narrowed(r, g, n0, n1)
<1>0. n \in Nat /\ DOMAIN g.chunks = 1..n
  OBVIOUS
<1>1. q = IF r.begin >= r.end \/ rc = 0 THEN r
          ELSE IF rc < 0 THEN [begin |-> m + 1, end |-> r.end]
          ELSE [begin |-> r.begin, end |-> m]
  BY DEF B!Narrowed
<1>2. /\ m \in Nat /\ r.begin \in 0..n /\ r.end \in 0..n
      /\ r.begin < r.end => r.begin <= m /\ m < r.end /\ m + 1 \in 1..n
  BY <1>0, MiddleIs
<1>3. /\ \A i \in 1..n : B!Compare(g.chunks[i], n0, n1) \in Int
      /\ \A i, j \in 1..n : i < j =>
           /\ B!Compare(g.chunks[j], n0, n1) < 0 => B!Compare(g.chunks[i], n0, n1) < 0
           /\ B!Compare(g.chunks[i], n0, n1) > 0 => B!Compare(g.chunks[j], n0, n1) > 0
  BY <1>0, Ordered
<1> HIDE DEF n, m, q
<1>4. CASE r.begin >= r.end \/ rc = 0
  <2>1. q = r
    BY <1>1, <1>4
  <2>2. \A left \in Int : Holds(r, g, n0, n1, left) => Holds(r, g, n0, n1, left - 1)
    <3>1. r.begin < r.end => rc = 0
      BY <1>2, <1>4
    <3> QED BY <3>1 DEF Holds, m
  <2> QED BY <2>1, <2>2 DEF q, n
<1>5. CASE r.begin < r.end /\ rc # 0
  <2>1. m + 1 \in 1..n /\ r.begin <= m /\ m < r.end /\ rc \in Int
    BY <1>2, <1>3, <1>5
  <2>2. ~(r.begin >= r.end \/ rc = 0)
    BY <1>2, <1>5
  <2>3. ASSUME NEW k \in 1..n, B!Compare(g.chunks[k], n0, n1) = 0
        PROVE  /\ k # m + 1
               /\ rc < 0 => k > m + 1
               /\ rc > 0 => k < m + 1
    <3>1. k # m + 1
      BY <1>5, <2>3
    <3>2. rc < 0 => ~(k < m + 1)
      BY <1>3, <2>1, <2>3
    <3>3. rc > 0 => ~(k > m + 1)
      BY <1>3, <2>1, <2>3
    <3> HIDE DEF rc
    <3> QED BY <2>1, <3>1, <3>2, <3>3
  <2>4. CASE rc < 0
    <3>1. q = [begin |-> m + 1, end |-> r.end]
      BY <1>1, <2>2, <2>4
    <3>2. q.begin = m + 1 /\ q.end = r.end
      BY <3>1
    <3>3. q \in Span(n)
      <4>1. m + 1 \in 0..n
        BY <2>1
      <4> QED BY <1>2, <3>1, <4>1 DEF Span
    <3>4. ASSUME NEW left \in Int, Holds(r, g, n0, n1, left) PROVE Holds(q, g, n0, n1, left - 1)
      <4>1. ASSUME NEW k \in 1..n, B!Compare(g.chunks[k], n0, n1) = 0
            PROVE  q.begin < k /\ k <= q.end
        <5>1. k <= r.end
          BY <1>0, <3>4, <4>1 DEF Holds
        <5> QED BY <2>3, <2>4, <3>2, <4>1, <5>1
      <4>2. r.end - r.begin <= left
        BY <1>5, <3>4 DEF Holds, m
      <4>3. q.end - q.begin <= left - 1
        BY <1>2, <2>1, <3>2, <4>2
      <4> QED BY <1>0, <4>1, <4>3 DEF Holds
    <3> QED BY <3>3, <3>4 DEF q, n
  <2>5. CASE rc > 0
    <3>1. q = [begin |-> r.begin, end |-> m]
      BY <1>1, <2>1, <2>2, <2>5
    <3>2. q.begin = r.begin /\ q.end = m
      BY <3>1
    <3>3. q \in Span(n)
      <4>1. m \in 0..n
        BY <1>0, <1>2, <2>1
      <4> QED BY <1>2, <3>1, <4>1 DEF Span
    <3>4. ASSUME NEW left \in Int, Holds(r, g, n0, n1, left) PROVE Holds(q, g, n0, n1, left - 1)
      <4>1. ASSUME NEW k \in 1..n, B!Compare(g.chunks[k], n0, n1) = 0
            PROVE  q.begin < k /\ k <= q.end
        <5>1. r.begin < k
          BY <1>0, <3>4, <4>1 DEF Holds
        <5>2. k < m + 1
          BY <2>3, <2>5, <4>1
        <5> QED BY <1>2, <3>2, <5>1, <5>2
      <4>2. r.end - r.begin <= left
        BY <1>5, <3>4 DEF Holds, m
      <4>3. q.end - q.begin <= left - 1
        BY <1>2, <2>1, <3>2, <4>2
      <4> QED BY <1>0, <4>1, <4>3 DEF Holds
    <3> QED BY <3>3, <3>4 DEF q, n
  <2> QED BY <1>5, <2>1, <2>4, <2>5
<1>6. (r.begin >= r.end \/ rc = 0) \/ (r.begin < r.end /\ rc # 0)
  BY <1>2
<1> QED BY <1>4, <1>5, <1>6

LEMMA SearchIsRight ==
  ASSUME NEW g, g.chunks \in Seq(Header), Sorted(g.chunks), NEW n0 \in Names0,
         NEW n1 \in Names1 \cup {B!Null}
  PROVE  /\ B!FindChunkInGroup(g, n0, n1) \in 0..Len(g.chunks)
         /\ B!FindChunkInGroup(g, n0, n1) # 0 =>
              B!Compare(g.chunks[B!FindChunkInGroup(g, n0, n1)], n0, n1) = 0
         /\ B!FindChunkInGroup(g, n0, n1) = 0 =>
              \A k \in DOMAIN g.chunks : B!Compare(g.chunks[k], n0, n1) # 0
<1> DEFINE n == Len(g.chunks)
           start == [begin |-> 0, end |-> n]
           Step(s) == [i \in 0..n |-> IF i = 0 THEN start ELSE B!Narrowed(s[i - 1], g, n0, n1)]
           search == CHOOSE s : s = Step(s)
           found == B!FindChunkInGroup(g, n0, n1)
           h == [i \in 1..n |-> [r \in Span(n) |-> B!Narrowed(r, g, n0, n1)]]
           last == search[n]
<1>0. n \in Nat /\ DOMAIN g.chunks = 1..n
  OBVIOUS
<1>1. found = IF last.begin >= last.end THEN 0 ELSE B!Middle(last) + 1
  BY Zenon DEF B!FindChunkInGroup
<1>2. /\ \A r \in Span(n) : B!Narrowed(r, g, n0, n1) \in Span(n)
      /\ \A r \in Span(n) : \A left \in Int :
           Holds(r, g, n0, n1, left) => Holds(B!Narrowed(r, g, n0, n1), g, n0, n1, left - 1)
  BY OneRound
<1>3. /\ start \in Span(n) /\ start.begin = 0 /\ start.end = n
      /\ 0 \in 0..n /\ n \in 0..n /\ \A i \in 1..n : i \in 0..n /\ i # 0 /\ i - 1 \in 0..n
      /\ \A i \in 0..n : i = 0 \/ i \in 1..n
  <2> HIDE DEF n
  <2> QED BY <1>0 DEF Span
<1> HIDE DEF n, start, found
<1>4. \E s : s = Step(s)
  <2>1. \A i \in 1..n : h[i] \in [Span(n) -> Span(n)]
    BY <1>2
  <2>2. h \in [1..n -> [Span(n) -> Span(n)]]
    BY <2>1
  <2>3. \A i \in 1..n : \A r \in Span(n) : h[i][r] = B!Narrowed(r, g, n0, n1)
    OBVIOUS
  <2> HIDE DEF h
  <2>4. Repeated(n, Span(n), start, h)
    <3>1. Stepping(n, Span(n), start, h)
      BY <1>0, <1>3, <2>2 DEF Stepping
    <3> QED BY <3>1, Rounds
  <2>5. PICK f \in [0..n -> Span(n)] : f[0] = start /\ \A i \in 1..n : f[i] = h[i][f[i - 1]]
    BY <2>4 DEF Repeated
  <2>6. \A i \in 1..n : f[i] = B!Narrowed(f[i - 1], g, n0, n1)
    BY <1>3, <2>3, <2>5
  <2>7. f = Step(f)
    BY <1>3, <2>5, <2>6
  <2> QED BY <2>7
<1>5. search = Step(search)
  BY <1>4, Zenon
<1> HIDE DEF search, h
<1>6. search[0] = start /\ \A i \in 1..n : search[i] = B!Narrowed(search[i - 1], g, n0, n1)
  <2>1. \A i \in 0..n : search[i] = IF i = 0 THEN start ELSE B!Narrowed(search[i - 1], g, n0, n1)
    BY <1>5
  <2> QED BY <1>3, <2>1
<1> HIDE DEF Step
<1> DEFINE A == {i \in 0..n : search[i] \in Span(n) /\ Holds(search[i], g, n0, n1, n - i)}
<1>7. 0 \in A
  <2>1. \A k \in 1..n : start.begin < k /\ k <= start.end
    BY <1>0, <1>3
  <2>2. start.end - start.begin <= n - 0
    BY <1>0, <1>3
  <2>3. Holds(start, g, n0, n1, n - 0)
    BY <1>0, <2>1, <2>2 DEF Holds
  <2> QED BY <1>3, <1>6, <2>3
<1>8. ASSUME NEW i \in 1..n, i - 1 \in A PROVE i \in A
  <2>1. search[i - 1] \in Span(n) /\ Holds(search[i - 1], g, n0, n1, n - (i - 1))
    BY <1>8
  <2>2. n - (i - 1) \in Int /\ (n - (i - 1)) - 1 = n - i
    BY <1>0
  <2>3. search[i] = B!Narrowed(search[i - 1], g, n0, n1)
    BY <1>6
  <2>4. search[i] \in Span(n)
    BY <1>2, <2>1, <2>3
  <2>5. Holds(search[i], g, n0, n1, (n - (i - 1)) - 1)
    BY <1>2, <2>1, <2>2, <2>3
  <2>6. Holds(search[i], g, n0, n1, n - i)
    BY <2>2, <2>5
  <2> QED BY <1>3, <2>4, <2>6
<1>9. A = 0..n
  <2>1. A \in SUBSET (0..n)
    OBVIOUS
  <2> HIDE DEF A
  <2> QED BY <1>0, <1>7, <1>8, <2>1, AllRounds
<1>10. last \in Span(n) /\ Holds(last, g, n0, n1, n - n)
  BY <1>3, <1>9
<1> HIDE DEF last, A
<1>11. /\ B!Middle(last) \in Nat /\ last.begin \in 0..n /\ last.end \in 0..n
       /\ last.begin < last.end => B!Middle(last) + 1 \in 1..n
  BY <1>0, <1>10, MiddleIs
<1>12. CASE last.begin >= last.end
  <2>1. found = 0
    BY <1>1, <1>12
  <2>2. \A k \in 1..n : B!Compare(g.chunks[k], n0, n1) = 0 => last.begin < k /\ k <= last.end
    BY <1>0, <1>10 DEF Holds
  <2>3. \A k \in 1..n : ~(last.begin < k /\ k <= last.end)
    BY <1>11, <1>12
  <2> QED BY <1>0, <1>3, <2>1, <2>2, <2>3 DEF found, n
<1>13. CASE last.begin < last.end
  <2>1. found = B!Middle(last) + 1
    BY <1>1, <1>11, <1>13
  <2>2. found \in 1..n /\ found # 0
    BY <1>11, <1>13, <2>1
  <2>3. ~(last.end - last.begin <= n - n)
    BY <1>0, <1>11, <1>13
  <2>4. B!Compare(g.chunks[found], n0, n1) = 0
    BY <1>10, <1>13, <2>1, <2>3 DEF Holds
  <2> QED BY <1>3, <2>2, <2>4 DEF found, n
<1>14. last.begin >= last.end \/ last.begin < last.end
  BY <1>11
<1> QED BY <1>12, <1>13, <1>14

(***************************************************************************)
(* What holds of the archive at all times                                  *)
(***************************************************************************)

(* The lists that are in memory, and what they list is what was saved. *)
ListsInv ==
  /\ group \in Seq(Listing) /\ \A k \in DOMAIN group : ListSound(group[k])
  /\ \A j, k \in DOMAIN group : group[j].ns = group[k].ns => j = k
  /\ saved \subseteq ChunkId /\ B!Cardinality(saved) <= MaxSaved
  /\ \A id \in ChunkId :
       id \in saved <=> \E k \in DOMAIN group : id \in Ids(group[k].ns, group[k].list)

(* The groups in the file: only the last may be without its end.           *)
ArchiveInv ==
  /\ file \in Seq(Archived) /\ writing \in Nat
  /\ \A k \in DOMAIN file :
       /\ Shape(file[k]) /\ (Full(file[k]) => Right(file[k]))
       /\ Full(file[k]) \/ (writing = 0 /\ k = Len(file))
  /\ filed \subseteq ChunkId
  /\ \A id \in ChunkId :
       id \in filed <=>
         \E k \in DOMAIN file : Full(file[k]) /\ id \in Ids(file[k].ns, file[k].chunks)

(* While the file is written, it follows the lists. *)
WritingInv ==
  /\ writing # 0 =>
       /\ Len(file) = writing - 1 /\ writing <= Len(group) + 1
       /\ \A k \in DOMAIN file : file[k].ns = group[k].ns
  /\ room # B!None =>
       writing \in DOMAIN group /\ (room = B!RoomFor(group[writing]) \/ careless = TRUE)
  /\ overrun = TRUE => careless = TRUE
  /\ careless \in BOOLEAN /\ overrun \in BOOLEAN

(* The groups in memory are whole, and theirs is what was loaded. *)
LoadedInv ==
  /\ chunkMap \in [Ns -> Seq(Archived)]
  /\ \A ns \in Ns : \A k \in DOMAIN chunkMap[ns] :
       GroupSound(chunkMap[ns][k]) /\ chunkMap[ns][k].ns = ns
  /\ loaded \subseteq ChunkId
  /\ \A id \in ChunkId :
       id \in loaded <=>
         \E k \in DOMAIN chunkMap[id[1]] : id \in Ids(id[1], chunkMap[id[1]][k].chunks)

StoreInv == ListsInv /\ ArchiveInv /\ WritingInv /\ LoadedInv

(* The chunks that a search may give *)
Wanted(ns, n0, n1) == {id \in loaded : id[1] = ns /\ id[2] = n0 /\ (n1 = B!Null \/ id[3] = n1)}

LEMMA SearchFinds ==
  ASSUME LoadedInv, NEW ns \in Ns, NEW n0 \in Names0, NEW n1 \in Names1 \cup {B!Null}
  PROVE  /\ Wanted(ns, n0, n1) = {} => B!FindChunk(ns, n0, n1) = {}
         /\ Wanted(ns, n0, n1) # {} =>
              \E id \in Wanted(ns, n0, n1) :
                B!FindChunk(ns, n0, n1) = {B!Content(id[1], id[2], id[3])}
<1> DEFINE gs == chunkMap[ns]
           F1(k) == B!FindChunkInGroup(gs[k], n0, n1)
           I == {k \in DOMAIN gs : F1(k) # 0}
           j == B!First(I)
           c == gs[j].chunks[F1(j)]
<1>1. /\ gs \in Seq(Archived)
      /\ \A k \in DOMAIN gs : /\ gs[k].ns = ns /\ gs[k] \in Archived /\ gs[k].chunks \in Seq(Header)
                              /\ Sorted(gs[k].chunks) /\ Ids(ns, gs[k].chunks) \subseteq ChunkId
                              /\ Right(gs[k])
  <2>1. gs \in Seq(Archived)
    BY DEF LoadedInv
  <2>2. \A k \in DOMAIN gs : GroupSound(gs[k]) /\ gs[k].ns = ns
    BY DEF LoadedInv
  <2> SUFFICES ASSUME NEW k \in DOMAIN gs
               PROVE  /\ gs[k].ns = ns /\ gs[k] \in Archived /\ gs[k].chunks \in Seq(Header)
                      /\ Sorted(gs[k].chunks) /\ Ids(ns, gs[k].chunks) \subseteq ChunkId
                      /\ Right(gs[k])
    BY <2>1
  <2>3. GroupSound(gs[k]) /\ gs[k].ns = ns
    BY <2>2
  <2> HIDE DEF gs
  <2>4. /\ gs[k] \in Archived /\ Sorted(gs[k].chunks) /\ Ids(ns, gs[k].chunks) \subseteq ChunkId
        /\ Right(gs[k])
    BY <2>3 DEF GroupSound, Shape
  <2> QED BY <2>3, <2>4 DEF Archived
<1>2. B!FindChunk(ns, n0, n1) = IF j = 0 THEN {} ELSE {B!Bytes(gs[j], c.offset, c.size)}
  BY Zenon DEF B!FindChunk
<1>3. \A k \in DOMAIN gs :
        /\ F1(k) \in 0..Len(gs[k].chunks)
        /\ F1(k) # 0 => B!Compare(gs[k].chunks[F1(k)], n0, n1) = 0
        /\ F1(k) = 0 => \A i \in DOMAIN gs[k].chunks : B!Compare(gs[k].chunks[i], n0, n1) # 0
  <2> SUFFICES ASSUME NEW k \in DOMAIN gs
               PROVE  /\ F1(k) \in 0..Len(gs[k].chunks)
                      /\ F1(k) # 0 => B!Compare(gs[k].chunks[F1(k)], n0, n1) = 0
                      /\ F1(k) = 0 => \A i \in DOMAIN gs[k].chunks :
                                        B!Compare(gs[k].chunks[i], n0, n1) # 0
    BY Zenon
  <2>1. gs[k].chunks \in Seq(Header) /\ Sorted(gs[k].chunks)
    BY <1>1
  <2> HIDE DEF gs
  <2> QED BY <2>1, SearchIsRight
<1>4. ASSUME NEW k \in DOMAIN gs, NEW i \in DOMAIN gs[k].chunks
      PROVE  LET d == gs[k].chunks[i]
             IN  /\ <<ns, d.name0, d.name1>> \in loaded
                 /\ B!Compare(d, n0, n1) = 0 <=>
                      <<ns, d.name0, d.name1>> \in Wanted(ns, n0, n1)
                 /\ B!Bytes(gs[k], d.offset, d.size) = B!Content(ns, d.name0, d.name1)
  <2> DEFINE d == gs[k].chunks[i]
             id == <<ns, d.name0, d.name1>>
  <2>1. d \in Header
    BY <1>1
  <2>2. d.name0 \in Nat /\ d.name1 \in Nat /\ n0 \in Nat /\ (n1 \in Nat \/ n1 = B!Null)
    BY <2>1, ArchiveAssumption DEF Header
  <2>3. id \in Ids(ns, gs[k].chunks) /\ id \in ChunkId
    <3>1. id \in Ids(ns, gs[k].chunks)
      BY DEF Ids
    <3> QED BY <1>1, <3>1
  <2>4. id \in loaded
    <3>1. id[1] = ns
      OBVIOUS
    <3>2. \E l \in DOMAIN chunkMap[id[1]] : id \in Ids(id[1], chunkMap[id[1]][l].chunks)
      BY <2>3, <3>1
    <3> HIDE DEF id
    <3> QED BY <2>3, <3>2 DEF LoadedInv
  <2>5. B!Bytes(gs[k], d.offset, d.size) = B!Content(ns, d.name0, d.name1)
    BY <1>1 DEF Right
  <2> HIDE DEF d
  <2>6. id \in Wanted(ns, n0, n1) <=> d.name0 = n0 /\ (n1 = B!Null \/ d.name1 = n1)
    BY <2>4 DEF Wanted
  <2>7. B!Compare(d, n0, n1) = 0 <=> d.name0 = n0 /\ (n1 = B!Null \/ d.name1 = n1)
    <3>1. CASE n1 = B!Null
      BY <2>2, <3>1, CompareIs
    <3>2. CASE n1 \in Nat /\ n1 # B!Null
      BY <2>2, <3>2, CompareIs
    <3> QED BY <2>2, <3>1, <3>2
  <2> QED BY <2>4, <2>5, <2>6, <2>7 DEF d
<1>5. I \in SUBSET Nat /\ 0 \notin I
  BY <1>1
<1>6. CASE I = {}
  <2>1. B!FindChunk(ns, n0, n1) = {}
    BY <1>2, <1>5, <1>6, Smallest
  <2>2. ASSUME NEW id \in Wanted(ns, n0, n1) PROVE FALSE
    <3>1. id \in loaded /\ id[1] = ns /\ id \in ChunkId
      BY DEF Wanted, LoadedInv
    <3>2. PICK k \in DOMAIN gs : id \in Ids(ns, gs[k].chunks)
      BY <3>1 DEF LoadedInv
    <3>3. PICK i \in DOMAIN gs[k].chunks :
            id = <<ns, gs[k].chunks[i].name0, gs[k].chunks[i].name1>>
      BY <3>2 DEF Ids
    <3>4. B!Compare(gs[k].chunks[i], n0, n1) = 0
      BY <1>4, <3>3
    <3>5. F1(k) = 0
      BY <1>6
    <3> QED BY <1>3, <3>4, <3>5
  <2> QED BY <2>1, <2>2
<1>7. CASE I # {}
  <2>1. j \in I /\ j # 0
    BY <1>5, <1>7, Smallest
  <2>2. j \in DOMAIN gs /\ F1(j) # 0
    BY <2>1
  <2> HIDE DEF j, I
  <2>3. F1(j) \in DOMAIN gs[j].chunks /\ B!Compare(c, n0, n1) = 0
    <3>1. gs[j].chunks \in Seq(Header)
      BY <1>1, <2>2
    <3>2. F1(j) \in 0..Len(gs[j].chunks) /\ B!Compare(c, n0, n1) = 0
      BY <1>3, <2>2
    <3> HIDE DEF F1, gs
    <3> QED BY <2>2, <3>1, <3>2
  <2> DEFINE id == <<ns, c.name0, c.name1>>
  <2>4. id \in Wanted(ns, n0, n1) /\ B!Bytes(gs[j], c.offset, c.size) = B!Content(ns, c.name0, c.name1)
    <3> HIDE DEF F1
    <3> QED BY <1>4, <2>2, <2>3
  <2>5. B!FindChunk(ns, n0, n1) = {B!Content(ns, c.name0, c.name1)}
    BY <1>2, <2>1, <2>4
  <2> HIDE DEF c
  <2>6. id[1] = ns /\ id[2] = c.name0 /\ id[3] = c.name1
    OBVIOUS
  <2> HIDE DEF id
  <2> QED BY <2>4, <2>5, <2>6
<1> QED BY <1>6, <1>7

LEMMA StoreSafe == StoreInv => B!TypeOK /\ B!SavedIsFound
<1> SUFFICES ASSUME StoreInv PROVE B!TypeOK /\ B!SavedIsFound
  OBVIOUS
<1>0. ListsInv /\ ArchiveInv /\ WritingInv /\ LoadedInv
  BY DEF StoreInv
<1>1. B!TypeOK
  <2>1. ASSUME NEW k \in DOMAIN group PROVE group[k].ns \in Ns /\ Len(group[k].list) > 0
    <3> DEFINE g == group[k]
    <3>1. g \in Listing /\ g.list # <<>>
      BY <1>0 DEF ListsInv, ListSound
    <3> HIDE DEF g
    <3>2. g.ns \in Ns /\ g.list \in Seq(Saved)
      BY <3>1 DEF Listing
    <3>3. Len(g.list) > 0
      BY <3>1, <3>2, EmptySeq
    <3> QED BY <3>2, <3>3 DEF g
  <2>2. saved \cup filed \cup loaded \subseteq ChunkId /\ B!Cardinality(saved) <= MaxSaved
    BY <1>0 DEF ListsInv, ArchiveInv, LoadedInv
  <2>3. \A k \in DOMAIN file : file[k].ns \in Ns /\ B!WellFormed(file[k])
    <3> SUFFICES ASSUME NEW k \in DOMAIN file PROVE file[k].ns \in Ns /\ B!WellFormed(file[k])
      OBVIOUS
    <3>1. file[k] \in Archived /\ B!WellFormed(file[k])
      BY <1>0 DEF ArchiveInv, Shape
    <3> QED BY <3>1 DEF Archived
  <2> QED BY <2>1, <2>2, <2>3 DEF B!TypeOK
<1>2. B!SavedIsFound
  <2>1. overrun => careless
    BY <1>0 DEF WritingInv
  <2>2. ASSUME NEW ns \in Ns, NEW n0 \in Names0, NEW n1 \in Names1
        PROVE  B!FindChunk(ns, n0, n1) =
                 IF <<ns, n0, n1>> \in loaded THEN {B!Content(ns, n0, n1)} ELSE {}
    <3>1. n1 # B!Null
      BY ArchiveAssumption DEF B!Null
    <3>2. \A id \in ChunkId : id = <<id[1], id[2], id[3]>>
      BY ArchiveAssumption
    <3>3. loaded \subseteq ChunkId
      BY <1>0 DEF LoadedInv
    <3>4. \A id \in Wanted(ns, n0, n1) : id = <<ns, n0, n1>> /\ <<ns, n0, n1>> \in loaded
      BY <3>1, <3>2, <3>3 DEF Wanted
    <3>5. <<ns, n0, n1>> \in loaded => <<ns, n0, n1>> \in Wanted(ns, n0, n1)
      BY DEF Wanted
    <3>6. /\ Wanted(ns, n0, n1) = {} => B!FindChunk(ns, n0, n1) = {}
          /\ Wanted(ns, n0, n1) # {} =>
               \E id \in Wanted(ns, n0, n1) :
                 B!FindChunk(ns, n0, n1) = {B!Content(id[1], id[2], id[3])}
      BY <1>0, SearchFinds
    <3>7. CASE <<ns, n0, n1>> \in loaded
      <4>1. PICK id \in Wanted(ns, n0, n1) :
              B!FindChunk(ns, n0, n1) = {B!Content(id[1], id[2], id[3])}
        BY <3>5, <3>6, <3>7
      <4>2. id[1] = ns /\ id[2] = n0 /\ id[3] = n1
        BY <3>4
      <4> QED BY <3>7, <4>1, <4>2
    <3>8. CASE <<ns, n0, n1>> \notin loaded
      <4>1. Wanted(ns, n0, n1) = {}
        BY <3>4, <3>8
      <4> QED BY <3>6, <3>8, <4>1
    <3> QED BY <3>7, <3>8
  <2>3. ASSUME NEW ns \in Ns, NEW n0 \in Names0
        PROVE  LET named == {id \in loaded : id[1] = ns /\ id[2] = n0}
               IN  IF named = {} THEN B!FindChunk(ns, n0, B!Null) = {}
                   ELSE \E id \in named :
                          B!FindChunk(ns, n0, B!Null) = {B!Content(id[1], id[2], id[3])}
    <3> DEFINE named == {id \in loaded : id[1] = ns /\ id[2] = n0}
    <3>1. Wanted(ns, n0, B!Null) = named
      BY DEF Wanted
    <3>2. /\ Wanted(ns, n0, B!Null) = {} => B!FindChunk(ns, n0, B!Null) = {}
          /\ Wanted(ns, n0, B!Null) # {} =>
               \E id \in Wanted(ns, n0, B!Null) :
                 B!FindChunk(ns, n0, B!Null) = {B!Content(id[1], id[2], id[3])}
      BY <1>0, SearchFinds
    <3> HIDE DEF named
    <3>3. IF named = {} THEN B!FindChunk(ns, n0, B!Null) = {}
          ELSE \E id \in named :
                 B!FindChunk(ns, n0, B!Null) = {B!Content(id[1], id[2], id[3])}
      BY <3>1, <3>2, Zenon
    <3> QED BY <3>3 DEF named
  <2> QED BY <2>1, <2>2, <2>3, Zenon DEF B!SavedIsFound
<1> QED BY <1>1, <1>2

(* What leaves the variables of a part leaves what holds of it. *)
LEMMA ListsKept == ListsInv /\ UNCHANGED <<group, saved>> => ListsInv'
BY DEF ListsInv

LEMMA ArchiveKept == ArchiveInv /\ UNCHANGED <<file, filed, writing>> => ArchiveInv'
BY DEF ArchiveInv

LEMMA LoadedKept == LoadedInv /\ UNCHANGED <<chunkMap, loaded>> => LoadedInv'
BY DEF LoadedInv

LEMMA WritingKept ==
  WritingInv /\ UNCHANGED <<group, file, writing, room, careless, overrun>> => WritingInv'
BY DEF WritingInv

LEMMA StoreKept == StoreInv /\ UNCHANGED storeVars => StoreInv'
<1> SUFFICES ASSUME StoreInv, UNCHANGED storeVars PROVE StoreInv'
  OBVIOUS
<1>1. /\ UNCHANGED <<group, saved>> /\ UNCHANGED <<file, filed, writing>>
      /\ UNCHANGED <<chunkMap, loaded>>
      /\ UNCHANGED <<group, file, writing, room, careless, overrun>>
  BY DEF storeVars
<1> QED BY <1>1, ListsKept, ArchiveKept, WritingKept, LoadedKept DEF StoreInv

LEMMA StoreInit == B!Init => StoreInv
<1> SUFFICES ASSUME B!Init PROVE StoreInv
  OBVIOUS
<1>1. /\ group = <<>> /\ file = <<>> /\ chunkMap = [ns \in Ns |-> <<>>]
      /\ saved = {} /\ filed = {} /\ loaded = {}
      /\ writing = 0 /\ room = B!None /\ careless = FALSE /\ overrun = FALSE
  BY DEF B!Init
<1>2. DOMAIN <<>> = {} /\ \A S : <<>> \in Seq(S)
  OBVIOUS
<1>3. B!Cardinality(saved) <= MaxSaved
  <2>1. B!Cardinality({}) = Cardinality({})
    BY Zenon DEF B!Cardinality, Cardinality
  <2>2. Cardinality({}) = 0
    BY FS_EmptySet
  <2> QED BY <1>1, <2>1, <2>2, ArchiveAssumption
<1>4. ListsInv
  BY <1>1, <1>2, <1>3 DEF ListsInv
<1>5. ArchiveInv
  BY <1>1, <1>2 DEF ArchiveInv
<1>6. WritingInv
  BY <1>1 DEF WritingInv
<1>7. LoadedInv
  <2>1. chunkMap \in [Ns -> Seq(Archived)] /\ \A ns \in Ns : DOMAIN chunkMap[ns] = {}
    BY <1>1, <1>2
  <2>2. \A id \in ChunkId : id[1] \in Ns
    BY ArchiveAssumption
  <2> QED BY <1>1, <2>1, <2>2 DEF LoadedInv
<1> QED BY <1>4, <1>5, <1>6, <1>7 DEF StoreInv

(* A list takes a binary in. *)
Binary(ns, n0, n1) == [name0 |-> n0, name1 |-> n1, data |-> B!Content(ns, n0, n1)]

LEMMA BinaryIsSaved ==
  ASSUME NEW ns \in Ns, NEW n0 \in Names0, NEW n1 \in Names1
  PROVE  /\ Binary(ns, n0, n1) \in Saved
         /\ Binary(ns, n0, n1).name0 = n0 /\ Binary(ns, n0, n1).name1 = n1
         /\ Binary(ns, n0, n1).data = B!Content(ns, n0, n1)
BY ContentTyped DEF Binary, Saved

LEMMA ListGrows ==
  ASSUME NEW g, ListSound(g), NEW n0 \in Names0, NEW n1 \in Names1, <<g.ns, n0, n1>> \in ChunkId,
         NEW t, t = B!Inserted(g.list, Binary(g.ns, n0, n1))
  PROVE  /\ ListSound([ns |-> g.ns, list |-> t])
         /\ Ids(g.ns, t) = Ids(g.ns, g.list) \cup {<<g.ns, n0, n1>>}
<1> DEFINE c == Binary(g.ns, n0, n1)
           s == g.list
           new == [ns |-> g.ns, list |-> t]
<1>1. /\ g.ns \in Ns /\ s \in Seq(Saved) /\ s # <<>> /\ Sorted(s) /\ Ids(g.ns, s) \subseteq ChunkId
      /\ \A i \in DOMAIN s : s[i].data = B!Content(g.ns, s[i].name0, s[i].name1)
  BY DEF ListSound, Listing
<1>2. /\ c \in Saved /\ c.name0 = n0 /\ c.name1 = n1 /\ c.data = B!Content(g.ns, n0, n1)
  BY <1>1, BinaryIsSaved
<1> HIDE DEF c, s
<1>3. /\ t \in Seq(Saved) /\ Sorted(t)
      /\ \A i \in DOMAIN t : t[i] = c \/ \E j \in DOMAIN s : t[i] = s[j]
      /\ \A j \in DOMAIN s : \E i \in DOMAIN t : t[i] = s[j]
      /\ \E i \in DOMAIN t : SameNames(t[i], c)
  <2>1. t = B!Inserted(s, c)
    BY DEF s, c
  <2>2. s \in Seq(Saved) /\ Sorted(s) /\ c \in Saved
    BY <1>1, <1>2
  <2> DEFINE u == B!Inserted(s, c)
  <2>3. /\ u \in Seq(Saved) /\ Sorted(u)
        /\ \A i \in DOMAIN u : u[i] = c \/ \E j \in DOMAIN s : u[i] = s[j]
        /\ \A j \in DOMAIN s : \E i \in DOMAIN u : u[i] = s[j]
        /\ \E i \in DOMAIN u : SameNames(u[i], c)
    BY <2>2, InsertedSound
  <2>4. t = u
    BY <2>1
  <2> HIDE DEF u
  <2> QED BY <2>3, <2>4
<1>4. Ids(g.ns, t) = Ids(g.ns, s) \cup {<<g.ns, n0, n1>>}
  <2>1. Ids(g.ns, t) \subseteq Ids(g.ns, s) \cup {<<g.ns, n0, n1>>}
    BY <1>2, <1>3 DEF Ids
  <2>2. Ids(g.ns, s) \subseteq Ids(g.ns, t)
    BY <1>3 DEF Ids
  <2>3. <<g.ns, n0, n1>> \in Ids(g.ns, t)
    BY <1>2, <1>3 DEF Ids, SameNames
  <2> QED BY <2>1, <2>2, <2>3
<1>5. t # <<>>
  BY <1>3
<1>6. \A i \in DOMAIN t : t[i].data = B!Content(g.ns, t[i].name0, t[i].name1)
  <2> SUFFICES ASSUME NEW i \in DOMAIN t PROVE t[i].data = B!Content(g.ns, t[i].name0, t[i].name1)
    OBVIOUS
  <2>1. CASE t[i] = c
    BY <1>2, <2>1
  <2>2. CASE \E j \in DOMAIN s : t[i] = s[j]
    BY <1>1, <2>2
  <2> QED BY <1>3, <2>1, <2>2
<1>7. new.ns = g.ns /\ new.list = t /\ new \in Listing
  BY <1>1, <1>3 DEF Listing
<1> HIDE DEF new
<1>8. ListSound(new)
  BY <1>1, <1>3, <1>4, <1>5, <1>6, <1>7 DEF ListSound
<1> QED BY <1>4, <1>8 DEF new, s

(* A list of one binary *)
LEMMA ListStarts ==
  ASSUME NEW ns \in Ns, NEW n0 \in Names0, NEW n1 \in Names1, <<ns, n0, n1>> \in ChunkId
  PROVE  /\ ListSound([ns |-> ns, list |-> <<Binary(ns, n0, n1)>>])
         /\ Ids(ns, <<Binary(ns, n0, n1)>>) = {<<ns, n0, n1>>}
<1> DEFINE c == Binary(ns, n0, n1)
           t == <<c>>
           new == [ns |-> ns, list |-> t]
<1>1. c \in Saved /\ c.name0 = n0 /\ c.name1 = n1 /\ c.data = B!Content(ns, n0, n1)
  BY BinaryIsSaved
<1> HIDE DEF c
<1>2. t \in Seq(Saved) /\ DOMAIN t = {1} /\ t[1] = c /\ t # <<>>
  BY <1>1
<1> HIDE DEF t
<1>3. Sorted(t)
  BY <1>2 DEF Sorted
<1>4. Ids(ns, t) = {<<ns, n0, n1>>}
  BY <1>1, <1>2 DEF Ids
<1>5. new.ns = ns /\ new.list = t /\ new \in Listing
  BY <1>2 DEF Listing
<1> HIDE DEF new
<1>6. \A i \in DOMAIN t : t[i].data = B!Content(ns, t[i].name0, t[i].name1)
  BY <1>1, <1>2
<1>7. ListSound(new)
  BY <1>2, <1>3, <1>4, <1>5, <1>6 DEF ListSound
<1> QED BY <1>4, <1>7 DEF new, t, c

(* Names are those of a chunk that may be saved. *)
LEMMA ChunkNames ==
  ASSUME NEW id \in ChunkId
  PROVE  id[1] \in Ns /\ id[2] \in Names0 /\ id[3] \in Names1 /\ id = <<id[1], id[2], id[3]>>
<1>1. id \in Ns \X Names0 \X Names1
  BY ArchiveAssumption
<1> QED BY <1>1

LEMMA StoreInsertNode ==
  ASSUME NEW ns \in Ns, NEW n0 \in Names0, NEW n1 \in Names1, <<ns, n0, n1>> \in ChunkId,
         StoreInv, B!InsertNode(ns, n0, n1)
  PROVE  StoreInv'
<1> DEFINE id == <<ns, n0, n1>>
           I == {i \in DOMAIN group : group[i].ns = ns}
           k == B!First(I)
           c == Binary(ns, n0, n1)
           start == [ns |-> ns, list |-> <<c>>]
           t == B!Inserted(group[k].list, c)
           grown == [ns |-> ns, list |-> t]
           n == Len(group)
<1>0. ListsInv /\ ArchiveInv /\ WritingInv /\ LoadedInv
  BY DEF StoreInv
<1>1. /\ B!Cardinality(saved') <= MaxSaved /\ saved' = saved \cup {id}
      /\ group' = IF k = 0 THEN B!CreateBinHeader(ns, c)
                  ELSE [group EXCEPT ![k].list = B!Inserted(@, c)]
      /\ careless' = (careless \/ writing # 0)
      /\ UNCHANGED <<file, chunkMap, filed, loaded, writing, room, overrun>>
  BY DEF B!InsertNode, Binary
<1>2. /\ group \in Seq(Listing) /\ n \in Nat /\ DOMAIN group = 1..n
      /\ \A i \in 1..n : ListSound(group[i]) /\ group[i] \in Listing
      /\ \A i, j \in 1..n : group[i].ns = group[j].ns => i = j
      /\ saved \subseteq ChunkId
      /\ \A x \in ChunkId : x \in saved <=> \E i \in 1..n : x \in Ids(group[i].ns, group[i].list)
  BY <1>0 DEF ListsInv
<1>3. /\ k = 0 => \A i \in 1..n : group[i].ns # ns
      /\ k # 0 => k \in 1..n /\ group[k].ns = ns
  <2>1. I \in SUBSET Nat /\ \A i \in I : i \in 1..n /\ group[i].ns = ns /\ i # 0
    BY <1>2
  <2>2. \A i \in 1..n : group[i].ns = ns => i \in I
    BY <1>2
  <2> HIDE DEF I
  <2>3. (I = {} => k = 0) /\ (I # {} => k \in I)
    BY <2>1, Smallest
  <2> HIDE DEF k
  <2> QED BY <2>1, <2>2, <2>3
<1> HIDE DEF k, I
<1>4. /\ n <= Len(group') /\ group' \in Seq(Listing)
      /\ \A i \in 1..Len(group') : ListSound(group'[i])
      /\ \A i, j \in 1..Len(group') : group'[i].ns = group'[j].ns => i = j
      /\ \A i \in 1..n : group'[i].ns = group[i].ns
      /\ \A x : (\E i \in 1..Len(group') : x \in Ids(group'[i].ns, group'[i].list)) <=>
                (\E i \in 1..n : x \in Ids(group[i].ns, group[i].list)) \/ x = id
  <2>1. CASE k = 0
    <3>1. ListSound(start) /\ Ids(ns, <<c>>) = {id} /\ start.ns = ns /\ start.list = <<c>>
      BY ListStarts
    <3>2. group' = Append(group, start)
      BY <1>1, <2>1 DEF B!CreateBinHeader
    <3> HIDE DEF start, id, c
    <3>3. start \in Listing
      BY <3>1 DEF ListSound
    <3>4. /\ group' \in Seq(Listing) /\ Len(group') = n + 1 /\ group'[n + 1] = start
          /\ \A i \in 1..n : group'[i] = group[i]
      BY <1>2, <3>2, <3>3, AppendProperties
    <3> HIDE DEF n
    <3>5. \A i \in 1..(n + 1) : i \in 1..n \/ i = n + 1
      BY <1>2
    <3>6. /\ n + 1 \in 1..(n + 1) /\ n <= n + 1 /\ \A i \in 1..n : i \in 1..(n + 1)
      BY <1>2
    <3>7. \A i \in 1..(n + 1) : ListSound(group'[i])
      BY <1>2, <3>1, <3>4, <3>5
    <3>8. ASSUME NEW i \in 1..(n + 1), NEW j \in 1..(n + 1), group'[i].ns = group'[j].ns
          PROVE  i = j
      <4>1. CASE i \in 1..n /\ j \in 1..n
        BY <1>2, <3>4, <3>8, <4>1
      <4>2. CASE i \in 1..n /\ j = n + 1
        BY <1>3, <2>1, <3>1, <3>4, <3>8, <4>2
      <4>3. CASE i = n + 1 /\ j \in 1..n
        BY <1>3, <2>1, <3>1, <3>4, <3>8, <4>3
      <4> QED BY <3>5, <4>1, <4>2, <4>3
    <3>9. \A x : (\E i \in 1..(n + 1) : x \in Ids(group'[i].ns, group'[i].list)) <=>
                 (\E i \in 1..n : x \in Ids(group[i].ns, group[i].list)) \/ x = id
      <4> SUFFICES ASSUME NEW x
                   PROVE  (\E i \in 1..(n + 1) : x \in Ids(group'[i].ns, group'[i].list)) <=>
                          (\E i \in 1..n : x \in Ids(group[i].ns, group[i].list)) \/ x = id
        OBVIOUS
      <4>1. x \in Ids(group'[n + 1].ns, group'[n + 1].list) <=> x = id
        BY <3>1, <3>4
      <4>2. \A i \in 1..n : x \in Ids(group'[i].ns, group'[i].list) <=>
                            x \in Ids(group[i].ns, group[i].list)
        BY <3>4
      <4> QED BY <3>5, <3>6, <4>1, <4>2
    <3> QED BY <3>4, <3>6, <3>7, <3>8, <3>9
  <2>2. CASE k # 0
    <3>1. k \in 1..n /\ group[k].ns = ns /\ ListSound(group[k]) /\ group[k] \in Listing
      BY <1>2, <1>3, <2>2
    <3>2. ListSound(grown) /\ Ids(ns, t) = Ids(ns, group[k].list) \cup {id}
      <4> DEFINE g == group[k]
      <4>1. ListSound(g) /\ g.ns = ns /\ t = B!Inserted(g.list, Binary(g.ns, n0, n1))
            /\ <<g.ns, n0, n1>> \in ChunkId
        BY <3>1
      <4> HIDE DEF g, t
      <4>2. /\ ListSound([ns |-> g.ns, list |-> t])
            /\ Ids(g.ns, t) = Ids(g.ns, g.list) \cup {<<g.ns, n0, n1>>}
        BY <4>1, ListGrows
      <4> QED BY <4>1, <4>2 DEF g
    <3>3. group' = [group EXCEPT ![k].list = t]
      BY <1>1, <2>2
    <3>4. [group[k] EXCEPT !.list = t] = grown
      <4>1. group[k] = [ns |-> group[k].ns, list |-> group[k].list]
        BY <3>1 DEF Listing
      <4> DEFINE a == group[k].ns
                 b == group[k].list
      <4>2. group[k] = [ns |-> a, list |-> b] /\ a = ns
        BY <3>1, <4>1
      <4> HIDE DEF a, b, t
      <4> QED BY <4>2
    <3> HIDE DEF t
    <3>5. group' = [group EXCEPT ![k] = grown]
      BY <3>3, <3>4
    <3>6. grown.ns = ns /\ grown.list = t
      OBVIOUS
    <3> HIDE DEF grown, id, c
    <3>7. grown \in Listing
      BY <3>2 DEF ListSound
    <3>8. /\ group' \in Seq(Listing) /\ Len(group') = n
          /\ group'[k] = grown /\ \A i \in 1..n : i # k => group'[i] = group[i]
      BY <1>2, <3>1, <3>5, <3>7
    <3> HIDE DEF n
    <3>9. \A i \in 1..n : ListSound(group'[i]) /\ group'[i].ns = group[i].ns
      BY <1>2, <3>1, <3>2, <3>6, <3>8
    <3>10. \A x : (\E i \in 1..n : x \in Ids(group'[i].ns, group'[i].list)) <=>
                  (\E i \in 1..n : x \in Ids(group[i].ns, group[i].list)) \/ x = id
      <4> SUFFICES ASSUME NEW x
                   PROVE  (\E i \in 1..n : x \in Ids(group'[i].ns, group'[i].list)) <=>
                          (\E i \in 1..n : x \in Ids(group[i].ns, group[i].list)) \/ x = id
        OBVIOUS
      <4>1. x \in Ids(group'[k].ns, group'[k].list) <=>
              x \in Ids(group[k].ns, group[k].list) \/ x = id
        BY <3>1, <3>2, <3>6, <3>8
      <4>2. \A i \in 1..n : i # k =>
              (x \in Ids(group'[i].ns, group'[i].list) <=> x \in Ids(group[i].ns, group[i].list))
        BY <3>8
      <4> QED BY <3>1, <4>1, <4>2
    <3>11. n <= n
      BY <1>2
    <3> QED BY <1>2, <3>8, <3>9, <3>10, <3>11
  <2> QED BY <2>1, <2>2
<1> HIDE DEF id, c, t, start, grown
<1>5. ListsInv'
  <2>1. DOMAIN group' = 1..Len(group')
    BY <1>4
  <2>2. id \in ChunkId
    BY DEF id
  <2>3. \A x \in ChunkId : x \in saved' <=>
          \E i \in 1..Len(group') : x \in Ids(group'[i].ns, group'[i].list)
    BY <1>1, <1>2, <1>4
  <2>4. saved' \subseteq ChunkId
    BY <1>1, <1>2, <2>2
  <2>5. (B!Cardinality(saved) <= MaxSaved)'
    BY <1>1
  <2>6. \A i, j \in DOMAIN group' : group'[i].ns = group'[j].ns => i = j
    BY <1>4, <2>1
  <2>7. \A i \in DOMAIN group' : ListSound(group'[i])
    BY <1>4, <2>1
  <2>8. \A x \in ChunkId : x \in saved' <=>
          \E i \in DOMAIN group' : x \in Ids(group'[i].ns, group'[i].list)
    BY <2>1, <2>3
  <2> QED BY <1>4, <2>4, <2>5, <2>6, <2>7, <2>8 DEF ListsInv
<1>6. ArchiveInv' /\ LoadedInv'
  BY <1>0, <1>1, ArchiveKept, LoadedKept
<1>7. WritingInv'
  <2>1. ASSUME writing # 0
        PROVE  /\ Len(file) = writing - 1 /\ writing <= Len(group') + 1
               /\ \A i \in DOMAIN file : file[i].ns = group'[i].ns
    <3>1. /\ Len(file) = writing - 1 /\ writing <= n + 1 /\ writing \in Nat /\ file \in Seq(Archived)
          /\ \A i \in DOMAIN file : file[i].ns = group[i].ns
      BY <1>0, <2>1 DEF WritingInv, ArchiveInv
    <3>2. Len(group') \in Nat /\ n \in Nat /\ DOMAIN file = 1..Len(file)
      BY <1>2, <1>4, <3>1
    <3>3. n <= Len(group')
      BY <1>4
    <3> DEFINE m == Len(group')
    <3> HIDE DEF n, m
    <3>4. writing <= m + 1
      BY <3>1, <3>2, <3>3 DEF m
    <3>5. \A i \in DOMAIN file : i \in 1..n
      BY <3>1, <3>2
    <3> QED BY <1>4, <3>1, <3>4, <3>5 DEF m
  <2>2. ASSUME room # B!None PROVE writing \in DOMAIN group' /\ careless' = TRUE
    <3>1. writing \in 1..n
      BY <1>0, <1>2, <2>2 DEF WritingInv
    <3>2. writing # 0 /\ writing \in 1..Len(group')
      BY <1>2, <1>4, <3>1
    <3>3. careless' = TRUE
      BY <1>1, <3>2, Zenon
    <3>4. DOMAIN group' = 1..Len(group')
      BY <1>4
    <3> QED BY <3>2, <3>3, <3>4
  <2>3. careless \in BOOLEAN /\ overrun \in BOOLEAN /\ (overrun = TRUE => careless = TRUE)
    BY <1>0 DEF WritingInv
  <2>4. careless' \in BOOLEAN /\ (careless = TRUE => careless' = TRUE)
    BY <1>1, <2>3
  <2> QED BY <1>1, <2>1, <2>2, <2>3, <2>4 DEF WritingInv
<1> QED BY <1>5, <1>6, <1>7 DEF StoreInv

LEMMA StoreOpen == StoreInv /\ B!Open => StoreInv'
<1> SUFFICES ASSUME StoreInv, B!Open PROVE StoreInv'
  OBVIOUS
<1>0. ListsInv /\ ArchiveInv /\ WritingInv /\ LoadedInv
  BY DEF StoreInv
<1>1. /\ writing = 0 /\ file' = <<>> /\ filed' = {} /\ writing' = 1
      /\ UNCHANGED <<group, chunkMap, saved, loaded, room, careless, overrun>>
  BY DEF B!Open
<1>2. ListsInv' /\ LoadedInv'
  BY <1>0, <1>1, ListsKept, LoadedKept
<1>3. DOMAIN <<>> = {} /\ Len(<<>>) = 0 /\ <<>> \in Seq(Archived)
  OBVIOUS
<1>4. ArchiveInv'
  BY <1>1, <1>3 DEF ArchiveInv
<1>5. group \in Seq(Listing)
  BY <1>0 DEF ListsInv
<1>6. Len(group) \in Nat /\ DOMAIN group = 1..Len(group)
  BY <1>5
<1>7. room = B!None
  BY <1>0, <1>1, <1>6 DEF WritingInv
<1>8. 0 = 1 - 1 /\ 1 <= Len(group) + 1
  BY <1>6
<1>9. WritingInv'
  BY <1>0, <1>1, <1>3, <1>7, <1>8 DEF WritingInv
<1> QED BY <1>2, <1>4, <1>9 DEF StoreInv

LEMMA StoreMeasure == StoreInv /\ B!Measure => StoreInv'
<1> SUFFICES ASSUME StoreInv, B!Measure PROVE StoreInv'
  OBVIOUS
<1>0. ListsInv /\ ArchiveInv /\ WritingInv /\ LoadedInv
  BY DEF StoreInv
<1>1. /\ writing \in DOMAIN group /\ room' = B!RoomFor(group[writing])
      /\ UNCHANGED <<group, file, chunkMap, saved, filed, loaded, writing, careless, overrun>>
  BY DEF B!Measure
<1>2. ListsInv' /\ ArchiveInv' /\ LoadedInv'
  BY <1>0, <1>1, ListsKept, ArchiveKept, LoadedKept
<1>3. (B!RoomFor(group[writing]))' = B!RoomFor(group[writing])
  BY <1>1
<1>4. WritingInv'
  BY <1>0, <1>1, <1>3 DEF WritingInv
<1> QED BY <1>2, <1>4 DEF StoreInv

LEMMA StoreClose == StoreInv /\ ~overrun /\ B!Close => StoreInv'
<1> SUFFICES ASSUME StoreInv, ~overrun, B!Close PROVE StoreInv'
  OBVIOUS
<1>0. ListsInv /\ ArchiveInv /\ WritingInv /\ LoadedInv
  BY DEF StoreInv
<1>1. /\ writing = Len(group) + 1 /\ writing' = 0 /\ careless' = FALSE
      /\ UNCHANGED <<group, file, chunkMap, saved, filed, loaded, room, overrun>>
  BY DEF B!Close
<1>2. ListsInv' /\ LoadedInv'
  BY <1>0, <1>1, ListsKept, LoadedKept
<1>3. group \in Seq(Listing) /\ writing # 0
  <2>1. group \in Seq(Listing)
    BY <1>0 DEF ListsInv
  <2>2. Len(group) \in Nat
    BY <2>1
  <2> QED BY <1>1, <2>1, <2>2
<1>4. writing \notin DOMAIN group
  BY <1>1, <1>3
<1>5. ArchiveInv'
  BY <1>0, <1>1, <1>3 DEF ArchiveInv
<1>6. WritingInv'
  <2>1. room = B!None /\ overrun = FALSE
    BY <1>0, <1>4 DEF WritingInv
  <2> QED BY <1>1, <2>1 DEF WritingInv
<1> QED BY <1>2, <1>5, <1>6 DEF StoreInv

LEMMA StoreCopy == StoreInv /\ B!Copy => StoreInv'
<1> SUFFICES ASSUME StoreInv, B!Copy PROVE StoreInv'
  OBVIOUS
<1> DEFINE g == B!ChunkGroup(group[writing])
           w == writing
           n == Len(file)
<1>0. ListsInv /\ ArchiveInv /\ WritingInv /\ LoadedInv
  BY DEF StoreInv
<1>1. /\ room # B!None /\ file' = Append(file, g)
      /\ overrun' = (g.size > room)
      /\ filed' = filed \cup {id \in saved : id[1] = group[w].ns}
      /\ writing' = w + 1 /\ room' = B!None
      /\ UNCHANGED <<group, chunkMap, saved, loaded, careless>>
  BY DEF B!Copy
<1>2. ListsInv' /\ LoadedInv'
  BY <1>0, <1>1, ListsKept, LoadedKept
<1>3. /\ w \in DOMAIN group /\ (room = B!RoomFor(group[w]) \/ careless = TRUE)
      /\ group \in Seq(Listing) /\ ListSound(group[w]) /\ w \in 1..Len(group) /\ w # 0
  <2>1. w \in DOMAIN group /\ (room = B!RoomFor(group[w]) \/ careless = TRUE)
    BY <1>0, <1>1 DEF WritingInv
  <2>2. group \in Seq(Listing) /\ ListSound(group[w])
    BY <1>0, <2>1 DEF ListsInv
  <2>3. w \in 1..Len(group)
    BY <2>1, <2>2
  <2> QED BY <2>1, <2>2, <2>3
<1>4. /\ GroupSound(g) /\ g.ns = group[w].ns /\ g.size = B!RoomFor(group[w])
      /\ Ids(g.ns, g.chunks) = Ids(group[w].ns, group[w].list)
      /\ g \in Archived /\ g.size \in Nat
  <2>1. /\ GroupSound(g) /\ g.ns = group[w].ns /\ g.size = B!RoomFor(group[w])
        /\ Ids(group[w].ns, g.chunks) = Ids(group[w].ns, group[w].list)
    BY <1>3, ChunkGroupIs
  <2> HIDE DEF g
  <2>2. g \in Archived
    BY <2>1 DEF GroupSound, Shape
  <2>3. g.size \in Nat
    BY <2>2 DEF Archived
  <2> QED BY <2>1, <2>2, <2>3
<1> HIDE DEF g
<1>5. /\ file \in Seq(Archived) /\ n \in Nat /\ DOMAIN file = 1..n /\ w \in Nat
      /\ \A k \in 1..n : Shape(file[k]) /\ Full(file[k]) /\ Right(file[k])
      /\ filed \subseteq ChunkId
      /\ \A id \in ChunkId : id \in filed <=> \E k \in 1..n : id \in Ids(file[k].ns, file[k].chunks)
      /\ n = w - 1 /\ \A k \in 1..n : file[k].ns = group[k].ns
  <2>1. file \in Seq(Archived) /\ w \in Nat
    BY <1>0 DEF ArchiveInv
  <2>2. n \in Nat /\ DOMAIN file = 1..n
    BY <2>1
  <2> HIDE DEF n
  <2>3. \A k \in 1..n : Shape(file[k]) /\ Full(file[k]) /\ Right(file[k])
    BY <1>0, <1>3, <2>2 DEF ArchiveInv
  <2>4. filed \subseteq ChunkId /\
        \A id \in ChunkId : id \in filed <=> \E k \in 1..n : id \in Ids(file[k].ns, file[k].chunks)
    BY <1>0, <2>2, <2>3 DEF ArchiveInv
  <2>5. n = w - 1 /\ \A k \in 1..n : file[k].ns = group[k].ns
    BY <1>0, <1>3, <2>2 DEF WritingInv, n
  <2> QED BY <2>1, <2>2, <2>3, <2>4, <2>5
<1>6. /\ file' \in Seq(Archived) /\ Len(file') = n + 1 /\ DOMAIN file' = 1..(n + 1)
      /\ file'[n + 1] = g /\ \A k \in 1..n : file'[k] = file[k]
  <2>1. /\ file' \in Seq(Archived) /\ Len(file') = n + 1
        /\ file'[n + 1] = g /\ \A k \in 1..n : file'[k] = file[k]
    BY <1>1, <1>4, <1>5, AppendProperties
  <2> HIDE DEF n
  <2> QED BY <2>1
<1> HIDE DEF n
<1>7. /\ \A k \in 1..(n + 1) : k \in 1..n \/ k = n + 1
      /\ n + 1 \in 1..(n + 1) /\ \A k \in 1..n : k \in 1..(n + 1)
      /\ n + 1 = w /\ writing' \in Nat /\ writing' # 0
  BY <1>1, <1>5
<1>8. \A id \in ChunkId : id \in saved /\ id[1] = group[w].ns <=> id \in Ids(g.ns, g.chunks)
  <2> SUFFICES ASSUME NEW id \in ChunkId
               PROVE  id \in saved /\ id[1] = group[w].ns <=> id \in Ids(group[w].ns, group[w].list)
    BY <1>4
  <2>1. \A k : id \in Ids(group[k].ns, group[k].list) => id[1] = group[k].ns
    BY DEF Ids
  <2>2. id \in saved <=> \E k \in DOMAIN group : id \in Ids(group[k].ns, group[k].list)
    BY <1>0 DEF ListsInv
  <2>3. \A j, k \in DOMAIN group : group[j].ns = group[k].ns => j = k
    BY <1>0 DEF ListsInv
  <2> QED BY <1>3, <2>1, <2>2, <2>3
<1>9. ArchiveInv'
  <2>1. \A k \in 1..(n + 1) : Shape(file'[k]) /\ Full(file'[k]) /\ Right(file'[k])
    BY <1>4, <1>5, <1>6, <1>7 DEF GroupSound
  <2>2. filed' \subseteq ChunkId
    BY <1>0, <1>1, <1>5 DEF ListsInv
  <2>3. ASSUME NEW id \in ChunkId
        PROVE  id \in filed' <=> \E k \in 1..(n + 1) : id \in Ids(file'[k].ns, file'[k].chunks)
    <3>1. id \in filed' <=> id \in filed \/ id \in Ids(g.ns, g.chunks)
      BY <1>1, <1>8
    <3>2. id \in filed <=> \E k \in 1..n : id \in Ids(file[k].ns, file[k].chunks)
      BY <1>5
    <3>3. \A k \in 1..n : id \in Ids(file'[k].ns, file'[k].chunks) <=>
                          id \in Ids(file[k].ns, file[k].chunks)
      BY <1>6
    <3>4. id \in Ids(file'[n + 1].ns, file'[n + 1].chunks) <=> id \in Ids(g.ns, g.chunks)
      BY <1>6
    <3> QED BY <1>7, <3>1, <3>2, <3>3, <3>4
  <2>4. \A id \in ChunkId :
          id \in filed' <=>
            \E k \in DOMAIN file' : Full(file'[k]) /\ id \in Ids(file'[k].ns, file'[k].chunks)
    BY <1>6, <2>1, <2>3
  <2>5. \A k \in DOMAIN file' :
          /\ Shape(file'[k]) /\ (Full(file'[k]) => Right(file'[k]))
          /\ Full(file'[k]) \/ (writing' = 0 /\ k = Len(file'))
    BY <1>6, <2>1
  <2> QED BY <1>6, <1>7, <2>2, <2>4, <2>5 DEF ArchiveInv
<1>10. WritingInv'
  <2>1. Len(file') = writing' - 1 /\ writing' <= Len(group') + 1
    <3>1. Len(group) \in Nat
      BY <1>3
    <3>2. w <= Len(group)
      BY <1>3, <3>1
    <3> QED BY <1>1, <1>5, <1>6, <3>1, <3>2
  <2>2. \A k \in DOMAIN file' : file'[k].ns = group'[k].ns
    BY <1>1, <1>4, <1>5, <1>6, <1>7
  <2>3. careless' \in BOOLEAN /\ overrun' \in BOOLEAN
    BY <1>0, <1>1 DEF WritingInv
  <2>4. ASSUME overrun' = TRUE PROVE careless' = TRUE
    <3>1. g.size > room
      BY <1>1, <2>4
    <3>2. room # g.size
      BY <1>4, <3>1
    <3> QED BY <1>1, <1>3, <1>4, <3>2
  <2> QED BY <1>1, <2>1, <2>2, <2>3, <2>4 DEF WritingInv
<1> QED BY <1>2, <1>9, <1>10 DEF StoreInv

(* The groups of the file that are whole have what is filed. *)
LEMMA ReadableIs ==
  ASSUME ArchiveInv
  PROVE  /\ B!Readable \in Seq(Archived)
         /\ \A k \in 1..Len(B!Readable) : GroupSound(B!Readable[k])
         /\ \A id \in ChunkId :
              id \in filed <=> \E k \in 1..Len(B!Readable) :
                                 id \in Ids(B!Readable[k].ns, B!Readable[k].chunks)
<1> DEFINE n == Len(file)
           I == {k \in DOMAIN file :
                   Len(file[k].data) < file[k].size - 1 - Len(file[k].chunks)}
           cut == B!First(I)
           rs == B!Readable
<1>1. /\ file \in Seq(Archived) /\ n \in Nat /\ DOMAIN file = 1..n
      /\ \A k \in 1..n : /\ Shape(file[k]) /\ (Full(file[k]) => Right(file[k]))
                         /\ Full(file[k]) \/ k = n
      /\ \A id \in ChunkId :
           id \in filed <=> \E k \in 1..n : Full(file[k]) /\ id \in Ids(file[k].ns, file[k].chunks)
  BY DEF ArchiveInv
<1>2. rs = IF cut = 0 THEN file ELSE SubSeq(file, 1, cut - 1)
  BY DEF B!Readable
<1>3. ASSUME NEW k \in 1..n PROVE k \in I <=> ~Full(file[k])
  <2> DEFINE g == file[k]
             a == Len(g.data)
             b == g.size - 1 - Len(g.chunks)
  <2>1. g \in Archived /\ a <= b
    BY <1>1 DEF Shape
  <2>2. a \in Int /\ b \in Int
    <3> HIDE DEF g
    <3>1. g.data \in Seq(Byte) /\ g.chunks \in Seq(Header) /\ g.size \in Nat
      BY <2>1 DEF Archived
    <3>2. Len(g.data) \in Nat /\ Len(g.chunks) \in Nat
      BY <3>1
    <3> QED BY <3>1, <3>2
  <2>3. Full(g) <=> a = b
    BY DEF Full
  <2>4. k \in I <=> a < b
    BY <1>1
  <2> HIDE DEF a, b, I
  <2> QED BY <2>1, <2>2, <2>3, <2>4
<1>4. I \in SUBSET Nat /\ I \subseteq 1..n
  <2>1. I \subseteq DOMAIN file
    BY Zenon
  <2>2. 1..n \subseteq Nat
    OBVIOUS
  <2> HIDE DEF I, n
  <2> QED BY <1>1, <2>1, <2>2
<1> HIDE DEF I, n, rs
<1>5. /\ I = {} => cut = 0
      /\ I # {} => cut \in I /\ \A i \in I : cut <= i
  BY <1>4, Smallest
<1> HIDE DEF cut
<1>6. CASE I = {}
  <2>1. rs = file /\ \A k \in 1..n : Full(file[k])
    BY <1>2, <1>3, <1>5, <1>6
  <2>2. \A k \in 1..n : GroupSound(file[k])
    BY <1>1, <2>1 DEF GroupSound
  <2>3. \A id \in ChunkId :
          id \in filed <=> \E k \in 1..n : id \in Ids(file[k].ns, file[k].chunks)
    BY <1>1, <2>1
  <2> QED BY <1>1, <2>1, <2>2, <2>3 DEF n, rs
<1>7. CASE I # {}
  <2>1. cut \in 1..n /\ ~Full(file[cut]) /\ cut = n /\ cut # 0
    <3>1. cut \in 1..n /\ cut \in I
      BY <1>4, <1>5, <1>7
    <3>2. ~Full(file[cut])
      BY <1>3, <3>1
    <3> QED BY <1>1, <3>1, <3>2
  <2>2. rs = SubSeq(file, 1, n - 1) /\ n - 1 \in Nat /\ n - 1 <= n
    BY <1>1, <1>2, <2>1
  <2>3. /\ rs \in Seq(Archived) /\ Len(rs) = n - 1
        /\ \A k \in 1..(n - 1) : rs[k] = file[k]
    <3>1. CASE n = 1
      <4>1. SubSeq(file, 1, 0) = <<>>
        OBVIOUS
      <4>2. rs = <<>>
        BY <2>2, <3>1, <4>1
      <4> QED BY <3>1, <4>2
    <3>2. CASE n # 1
      <4>1. n - 1 \in 1..n
        BY <1>1, <2>1, <3>2
      <4>2. n - 1 \in 1..Len(file) /\ 1 \in 1..Len(file)
        <5>1. 1 \in 1..n
          BY <1>1, <2>1
        <5> QED BY <4>1, <5>1 DEF n
      <4>3. /\ SubSeq(file, 1, n - 1) \in Seq(Archived)
            /\ Len(SubSeq(file, 1, n - 1)) = (n - 1) - 1 + 1
            /\ \A k \in 1..((n - 1) - 1 + 1) : SubSeq(file, 1, n - 1)[k] = file[1 + k - 1]
        BY <1>1, <4>2, SubSeqProperties
      <4>4. (n - 1) - 1 + 1 = n - 1 /\ \A k \in 1..(n - 1) : 1 + k - 1 = k
        BY <1>1
      <4> QED BY <2>2, <4>3, <4>4
    <3> QED BY <3>1, <3>2
  <2>4. \A k \in 1..(n - 1) : k \in 1..n /\ k # n
    BY <1>1
  <2>5. \A k \in 1..(n - 1) : Full(file[k]) /\ GroupSound(file[k])
    BY <1>1, <2>4 DEF GroupSound
  <2>6. \A k \in 1..n : k = n \/ k \in 1..(n - 1)
    BY <1>1
  <2>7. \A id \in ChunkId :
          id \in filed <=> \E k \in 1..(n - 1) : id \in Ids(file[k].ns, file[k].chunks)
    BY <1>1, <2>1, <2>4, <2>5, <2>6
  <2>8. \A k \in 1..Len(rs) : GroupSound(rs[k])
    BY <2>3, <2>5
  <2>9. \A id \in ChunkId :
          id \in filed <=> \E k \in 1..Len(rs) : id \in Ids(rs[k].ns, rs[k].chunks)
    <3> SUFFICES ASSUME NEW id \in ChunkId
                 PROVE  id \in filed <=> \E k \in 1..(n - 1) : id \in Ids(rs[k].ns, rs[k].chunks)
      BY <2>3
    <3>1. \A k \in 1..(n - 1) : id \in Ids(rs[k].ns, rs[k].chunks) <=>
                                id \in Ids(file[k].ns, file[k].chunks)
      BY <2>3
    <3> QED BY <2>7, <3>1
  <2> QED BY <2>3, <2>8, <2>9 DEF rs
<1> QED BY <1>6, <1>7

Maps == [Ns -> Seq(Archived)]
MapSound(m) ==
  \A ns \in Ns : \A k \in DOMAIN m[ns] : GroupSound(m[ns][k]) /\ m[ns][k].ns = ns
Has(m, id) == \E k \in DOMAIN m[id[1]] : id \in Ids(id[1], m[id[1]][k].chunks)

(* A whole group is taken, and adds its binaries. *)
LEMMA OneGroup ==
  ASSUME NEW m \in Maps, NEW g, GroupSound(g)
  PROVE  /\ B!InsertChunkGroup(m, g) \in Maps
         /\ MapSound(m) => MapSound(B!InsertChunkGroup(m, g))
         /\ \A id \in ChunkId : Has(B!InsertChunkGroup(m, g), id) <=>
                                Has(m, id) \/ id \in Ids(g.ns, g.chunks)
<1> DEFINE p == B!InsertChunkGroup(m, g)
           gs == m[g.ns]
           n == Len(gs)
<1>1. g \in Archived /\ g.ns \in Ns /\ B!WellFormed(g)
  <2>1. g \in Archived /\ B!WellFormed(g)
    BY DEF GroupSound, Shape
  <2> QED BY <2>1 DEF Archived
<1>2. p = [m EXCEPT ![g.ns] = Append(@, g)]
  BY <1>1 DEF B!InsertChunkGroup
<1>3. gs \in Seq(Archived) /\ n \in Nat /\ DOMAIN gs = 1..n
  BY <1>1 DEF Maps
<1>4. /\ Append(gs, g) \in Seq(Archived) /\ DOMAIN Append(gs, g) = 1..(n + 1)
      /\ Append(gs, g)[n + 1] = g /\ \A k \in 1..n : Append(gs, g)[k] = gs[k]
  <2> DEFINE q == Append(gs, g)
  <2>1. q \in Seq(Archived) /\ Len(q) = n + 1 /\ q[n + 1] = g /\ \A k \in 1..n : q[k] = gs[k]
    BY <1>1, <1>3, AppendProperties
  <2> HIDE DEF q, n
  <2>2. DOMAIN q = 1..Len(q)
    BY <2>1
  <2> QED BY <2>1, <2>2 DEF q
<1>5. /\ p \in Maps /\ DOMAIN p[g.ns] = 1..(n + 1) /\ p[g.ns][n + 1] = g
      /\ \A k \in 1..n : p[g.ns][k] = gs[k]
      /\ \A ns \in Ns : ns # g.ns => p[ns] = m[ns]
  <2> DEFINE q == Append(gs, g)
  <2>1. p = [m EXCEPT ![g.ns] = q]
    BY <1>2
  <2>2. q \in Seq(Archived)
    BY <1>4
  <2> HIDE DEF q, p
  <2>3. p \in Maps /\ p[g.ns] = q /\ \A ns \in Ns : ns # g.ns => p[ns] = m[ns]
    BY <1>1, <2>1, <2>2 DEF Maps
  <2> QED BY <1>4, <2>3 DEF q
<1> HIDE DEF p
<1>6. /\ \A k \in 1..(n + 1) : k \in 1..n \/ k = n + 1
      /\ n + 1 \in 1..(n + 1) /\ \A k \in 1..n : k \in 1..(n + 1)
  <2> HIDE DEF n
  <2> QED BY <1>3
<1>7. ASSUME MapSound(m) PROVE MapSound(p)
  <2> SUFFICES ASSUME NEW ns \in Ns, NEW k \in DOMAIN p[ns]
               PROVE  GroupSound(p[ns][k]) /\ p[ns][k].ns = ns
    BY DEF MapSound
  <2>1. CASE ns # g.ns
    BY <1>5, <1>7, <2>1 DEF MapSound
  <2>2. CASE ns = g.ns /\ k = n + 1
    BY <1>5, <2>2
  <2>3. CASE ns = g.ns /\ k \in 1..n
    BY <1>1, <1>3, <1>5, <1>7, <2>3 DEF MapSound
  <2>4. ns = g.ns => k \in 1..n \/ k = n + 1
    BY <1>5, <1>6
  <2> QED BY <2>1, <2>2, <2>3, <2>4
<1>8. ASSUME NEW id \in ChunkId
      PROVE  Has(p, id) <=> Has(m, id) \/ id \in Ids(g.ns, g.chunks)
  <2>1. id \in Ids(g.ns, g.chunks) => id[1] = g.ns
    BY DEF Ids
  <2>2. id[1] \in Ns
    BY ChunkNames
  <2>3. CASE id[1] # g.ns
    BY <1>5, <2>1, <2>2, <2>3 DEF Has
  <2>4. CASE id[1] = g.ns
    <3>1. Has(p, id) <=> \E k \in 1..(n + 1) : id \in Ids(g.ns, p[g.ns][k].chunks)
      BY <1>5, <2>4 DEF Has
    <3>2. Has(m, id) <=> \E k \in 1..n : id \in Ids(g.ns, gs[k].chunks)
      BY <1>3, <2>4 DEF Has
    <3>3. id \in Ids(g.ns, p[g.ns][n + 1].chunks) <=> id \in Ids(g.ns, g.chunks)
      BY <1>5
    <3>4. \A k \in 1..n : id \in Ids(g.ns, p[g.ns][k].chunks) <=> id \in Ids(g.ns, gs[k].chunks)
      BY <1>5
    <3> QED BY <1>6, <3>1, <3>2, <3>3, <3>4
  <2> QED BY <2>3, <2>4
<1> QED BY <1>5, <1>7, <1>8 DEF p

(* Group after group, the map gets what is filed. *)
LEMMA FileIsLoaded ==
  ASSUME LoadedInv, ArchiveInv, B!LoadFile
  PROVE  /\ chunkMap' \in Maps /\ MapSound(chunkMap')
         /\ \A id \in ChunkId : Has(chunkMap', id) <=> Has(chunkMap, id) \/ id \in filed
<1> DEFINE rs == B!Readable
           n == Len(rs)
           Step(a) == [k \in 0..n |-> IF k = 0 THEN chunkMap ELSE B!InsertChunkGroup(a[k - 1], rs[k])]
           after == CHOOSE a : a = Step(a)
           h == [k \in 1..n |-> [m \in Maps |-> B!InsertChunkGroup(m, rs[k])]]
<1>1. /\ rs \in Seq(Archived) /\ \A k \in 1..n : GroupSound(rs[k])
      /\ \A id \in ChunkId : id \in filed <=> \E k \in 1..n : id \in Ids(rs[k].ns, rs[k].chunks)
  BY ReadableIs
<1>2. chunkMap' = after[n]
  <2>1. B!LoadFile => chunkMap' = after[n]
    BY Zenon DEF B!LoadFile
  <2> QED BY <2>1
<1> HIDE DEF rs
<1>3. n \in Nat
  BY <1>1
<1> HIDE DEF n
<1>4. /\ 0 \in 0..n /\ n \in 0..n /\ \A i \in 1..n : i \in 0..n /\ i # 0 /\ i - 1 \in 0..n
      /\ \A i \in 0..n : i = 0 \/ i \in 1..n
  BY <1>3
<1>5. chunkMap \in Maps /\ MapSound(chunkMap)
  BY DEF LoadedInv, Maps, MapSound
<1>6. \A k \in 1..n : \A m \in Maps :
        /\ B!InsertChunkGroup(m, rs[k]) \in Maps
        /\ MapSound(m) => MapSound(B!InsertChunkGroup(m, rs[k]))
        /\ \A id \in ChunkId : Has(B!InsertChunkGroup(m, rs[k]), id) <=>
                               Has(m, id) \/ id \in Ids(rs[k].ns, rs[k].chunks)
  <2> SUFFICES ASSUME NEW k \in 1..n, NEW m \in Maps
               PROVE  /\ B!InsertChunkGroup(m, rs[k]) \in Maps
                      /\ MapSound(m) => MapSound(B!InsertChunkGroup(m, rs[k]))
                      /\ \A id \in ChunkId : Has(B!InsertChunkGroup(m, rs[k]), id) <=>
                                             Has(m, id) \/ id \in Ids(rs[k].ns, rs[k].chunks)
    BY Zenon
  <2>1. GroupSound(rs[k])
    BY <1>1
  <2> QED BY <2>1, OneGroup, Zenon
<1>7. \E a : a = Step(a)
  <2>1. \A k \in 1..n : h[k] \in [Maps -> Maps]
    BY <1>6
  <2>2. h \in [1..n -> [Maps -> Maps]]
    BY <2>1
  <2>3. \A k \in 1..n : \A m \in Maps : h[k][m] = B!InsertChunkGroup(m, rs[k])
    OBVIOUS
  <2> HIDE DEF h
  <2>4. Repeated(n, Maps, chunkMap, h)
    <3>1. Stepping(n, Maps, chunkMap, h)
      BY <1>3, <1>5, <2>2 DEF Stepping
    <3> QED BY <3>1, Rounds
  <2>5. PICK f \in [0..n -> Maps] : f[0] = chunkMap /\ \A i \in 1..n : f[i] = h[i][f[i - 1]]
    BY <2>4 DEF Repeated
  <2>6. \A i \in 1..n : f[i] = B!InsertChunkGroup(f[i - 1], rs[i])
    BY <1>4, <2>3, <2>5
  <2>7. f = Step(f)
    BY <1>4, <2>5, <2>6
  <2> QED BY <2>7
<1>8. after = Step(after)
  BY <1>7, Zenon
<1> HIDE DEF after, h
<1>9. after[0] = chunkMap /\ \A k \in 1..n : after[k] = B!InsertChunkGroup(after[k - 1], rs[k])
  <2>1. \A k \in 0..n : after[k] = IF k = 0 THEN chunkMap
                                   ELSE B!InsertChunkGroup(after[k - 1], rs[k])
    BY <1>8
  <2> QED BY <1>4, <2>1
<1> HIDE DEF Step
<1> DEFINE Read(k, id) == \E j \in 1..k : id \in Ids(rs[j].ns, rs[j].chunks)
           Fine(k) == /\ after[k] \in Maps /\ MapSound(after[k])
                      /\ \A id \in ChunkId : Has(after[k], id) <=> Has(chunkMap, id) \/ Read(k, id)
           A == {k \in 0..n : Fine(k)}
<1>10. 0 \in A
  <2>1. \A id : ~Read(0, id)
    OBVIOUS
  <2> HIDE DEF Read
  <2>2. Fine(0)
    BY <1>5, <1>9, <2>1
  <2> QED BY <1>4, <2>2
<1>11. ASSUME NEW k \in 1..n, k - 1 \in A PROVE k \in A
  <2>1. Fine(k - 1)
    BY <1>11
  <2>2. after[k] = B!InsertChunkGroup(after[k - 1], rs[k])
    BY <1>9
  <2>3. after[k] \in Maps /\ MapSound(after[k])
    BY <1>6, <2>1, <2>2
  <2>4. \A id \in ChunkId : Has(after[k], id) <=>
                            Has(after[k - 1], id) \/ id \in Ids(rs[k].ns, rs[k].chunks)
    BY <1>6, <2>1, <2>2
  <2>5. \A id : Read(k, id) <=> Read(k - 1, id) \/ id \in Ids(rs[k].ns, rs[k].chunks)
    <3>1. \A j \in 1..k : j \in 1..(k - 1) \/ j = k
      BY <1>3
    <3>2. k \in 1..k /\ \A j \in 1..(k - 1) : j \in 1..k
      BY <1>3
    <3> QED BY <3>1, <3>2
  <2> HIDE DEF Read
  <2>6. Fine(k)
    BY <2>1, <2>3, <2>4, <2>5
  <2> QED BY <1>4, <2>6
<1>12. A = 0..n
  <2>1. A \in SUBSET (0..n)
    OBVIOUS
  <2> HIDE DEF A
  <2> QED BY <1>3, <1>10, <1>11, <2>1, AllRounds
<1>13. Fine(n)
  <2> HIDE DEF Fine
  <2> QED BY <1>4, <1>12
<1> QED BY <1>1, <1>2, <1>13

LEMMA StoreLoadFile == StoreInv /\ B!LoadFile => StoreInv'
<1> SUFFICES ASSUME StoreInv, B!LoadFile PROVE StoreInv'
  OBVIOUS
<1>0. ListsInv /\ ArchiveInv /\ WritingInv /\ LoadedInv
  BY DEF StoreInv
<1>1. /\ loaded' = loaded \cup filed
      /\ UNCHANGED <<group, file, saved, filed, writing, room, careless, overrun>>
  BY DEF B!LoadFile, B!writerVars
<1>2. ListsInv' /\ ArchiveInv' /\ WritingInv'
  BY <1>0, <1>1, ListsKept, ArchiveKept, WritingKept
<1>3. /\ chunkMap' \in Maps /\ MapSound(chunkMap')
      /\ \A id \in ChunkId : Has(chunkMap', id) <=> Has(chunkMap, id) \/ id \in filed
  BY <1>0, FileIsLoaded
<1>4. \A id \in ChunkId : id \in loaded <=> Has(chunkMap, id)
  BY <1>0 DEF LoadedInv, Has
<1>5. \A id \in ChunkId : id \in loaded' <=> Has(chunkMap', id)
  BY <1>1, <1>3, <1>4
<1>6. loaded' \subseteq ChunkId
  BY <1>0, <1>1 DEF LoadedInv, ArchiveInv
<1>7. LoadedInv'
  BY <1>3, <1>5, <1>6 DEF LoadedInv, Maps, MapSound, Has
<1> QED BY <1>2, <1>7 DEF StoreInv

(* Nothing is in memory. *)
LEMMA NothingLoaded ==
  ASSUME chunkMap' = [ns \in Ns |-> <<>>], loaded' = {}
  PROVE  LoadedInv'
<1>1. DOMAIN <<>> = {} /\ <<>> \in Seq(Archived)
  OBVIOUS
<1>2. chunkMap' \in [Ns -> Seq(Archived)] /\ \A ns \in Ns : DOMAIN chunkMap'[ns] = {}
  BY <1>1
<1>3. \A id \in ChunkId : id[1] \in Ns
  BY ChunkNames
<1> QED BY <1>2, <1>3 DEF LoadedInv

LEMMA StoreClear == StoreInv /\ B!ClearChunkMap => StoreInv'
<1> SUFFICES ASSUME StoreInv, B!ClearChunkMap PROVE StoreInv'
  OBVIOUS
<1>1. /\ chunkMap' = [ns \in Ns |-> <<>>] /\ loaded' = {}
      /\ UNCHANGED <<group, file, saved, filed, writing, room, careless, overrun>>
  BY DEF B!ClearChunkMap, B!writerVars
<1>2. ListsInv' /\ ArchiveInv' /\ WritingInv'
  BY <1>1, ListsKept, ArchiveKept, WritingKept DEF StoreInv
<1>3. LoadedInv'
  BY <1>1, NothingLoaded
<1> QED BY <1>2, <1>3 DEF StoreInv

(* A group without the end of its data *)
LEMMA CutShort ==
  ASSUME NEW g, Shape(g), g.data # <<>>
  PROVE  Shape([g EXCEPT !.data = B!Front(@)]) /\ ~Full([g EXCEPT !.data = B!Front(@)])
<1> DEFINE d == g.data
           e == SubSeq(d, 1, Len(d) - 1)
           t == [g EXCEPT !.data = B!Front(@)]
           b == g.size - 1 - Len(g.chunks)
<1>1. /\ g \in Archived /\ Sorted(g.chunks) /\ Ids(g.ns, g.chunks) \subseteq ChunkId
      /\ B!WellFormed(g) /\ Len(d) <= b
  BY DEF Shape
<1>2. /\ g.ns \in Ns /\ g.size \in Nat /\ g.chunks \in Seq(Header) /\ d \in Seq(Byte)
      /\ g = [ns |-> g.ns, size |-> g.size, chunks |-> g.chunks, data |-> g.data]
  BY <1>1 DEF Archived
<1>3. Len(d) \in Nat /\ Len(d) >= 1 /\ Len(g.chunks) \in Nat /\ b \in Int
  <2>1. Len(d) \in Nat /\ Len(g.chunks) \in Nat
    BY <1>2
  <2>2. Len(d) # 0
    BY <1>2, EmptySeq
  <2> QED BY <1>2, <2>1, <2>2
<1>4. e \in Seq(Byte) /\ Len(e) = Len(d) - 1
  <2>1. CASE Len(d) = 1
    <3>1. e = <<>>
      BY <2>1
    <3> QED BY <2>1, <3>1
  <2>2. CASE Len(d) # 1
    <3>1. Len(d) - 1 \in 1..Len(d) /\ 1 \in 1..Len(d)
      <4>1. \A x \in Nat : x >= 1 /\ x # 1 => x - 1 \in 1..x /\ 1 \in 1..x
        OBVIOUS
      <4> QED BY <1>3, <2>2, <4>1
    <3>2. e \in Seq(Byte) /\ Len(e) = (Len(d) - 1) - 1 + 1
      BY <1>2, <3>1, SubSeqProperties
    <3> HIDE DEF e
    <3> QED BY <1>3, <3>2
  <2> QED BY <2>1, <2>2
<1>5. t = [ns |-> g.ns, size |-> g.size, chunks |-> g.chunks, data |-> e]
  <2>1. t = [g EXCEPT !.data = e]
    BY DEF B!Front
  <2> HIDE DEF e, t
  <2> QED BY <1>2, <2>1
<1> HIDE DEF e, t
<1>6. t.ns = g.ns /\ t.size = g.size /\ t.chunks = g.chunks /\ t.data = e /\ t \in Archived
  BY <1>2, <1>4, <1>5 DEF Archived
<1>7. B!WellFormed(t)
  BY <1>1, <1>6 DEF B!WellFormed
<1> HIDE DEF d, b
<1>8. Len(e) <= b /\ Len(e) # b
  BY <1>1, <1>3, <1>4
<1>9. Shape(t) /\ ~Full(t)
  BY <1>1, <1>6, <1>7, <1>8 DEF Shape, Full, b
<1> QED BY <1>9 DEF t

(* The process ends: all or a part of the file remains, and nothing else.  *)
LEMMA RemainsOf ==
  ASSUME NEW n \in Nat, n <= Len(file), file \in Seq(Archived)
  PROVE  /\ SubSeq(file, 1, n) \in Seq(Archived) /\ Len(SubSeq(file, 1, n)) = n
         /\ DOMAIN SubSeq(file, 1, n) = 1..n
         /\ \A k \in 1..n : SubSeq(file, 1, n)[k] = file[k] /\ k \in 1..Len(file)
<1> DEFINE s == SubSeq(file, 1, n)
<1>0. Len(file) \in Nat
  OBVIOUS
<1>1. s \in Seq(Archived) /\ Len(s) = n /\ \A k \in 1..n : s[k] = file[k]
  <2>1. CASE n = 0
    <3>1. s = <<>>
      BY <2>1
    <3> QED BY <2>1, <3>1
  <2>2. CASE n # 0
    <3>1. n \in 1..Len(file) /\ 1 \in 1..Len(file)
      BY <1>0, <2>2
    <3>2. /\ s \in Seq(Archived) /\ Len(s) = n - 1 + 1
          /\ \A k \in 1..(n - 1 + 1) : s[k] = file[1 + k - 1]
      BY <3>1, SubSeqProperties
    <3>3. n - 1 + 1 = n /\ \A k \in 1..n : 1 + k - 1 = k
      OBVIOUS
    <3> QED BY <3>2, <3>3
  <2> QED BY <2>1, <2>2
<1> HIDE DEF s
<1>2. DOMAIN s = 1..n
  BY <1>1
<1>3. \A k \in 1..n : k \in 1..Len(file)
  BY <1>0
<1> QED BY <1>1, <1>2, <1>3 DEF s

LEMMA StoreRestart == StoreInv /\ ~overrun /\ B!Restart => StoreInv'
<1> SUFFICES ASSUME StoreInv, ~overrun, B!Restart PROVE StoreInv'
  OBVIOUS
<1>0. ListsInv /\ ArchiveInv /\ WritingInv /\ LoadedInv
  BY DEF StoreInv
<1>1. /\ group' = <<>> /\ saved' = {}
      /\ chunkMap' = [ns \in Ns |-> <<>>] /\ loaded' = {}
      /\ writing' = 0 /\ room' = B!None /\ careless' = FALSE
      /\ overrun' = overrun
  BY DEF B!Restart
<1>2. LoadedInv'
  BY <1>1, NothingLoaded
<1>3. ListsInv'
  <2>1. DOMAIN <<>> = {} /\ <<>> \in Seq(Listing)
    OBVIOUS
  <2>2. (B!Cardinality(saved) <= MaxSaved)'
    <3>1. B!Cardinality({}) = Cardinality({})
      BY Zenon DEF B!Cardinality, Cardinality
    <3>2. Cardinality({}) = 0
      BY FS_EmptySet
    <3> QED BY <1>1, <3>1, <3>2, ArchiveAssumption
  <2> QED BY <1>1, <2>1, <2>2 DEF ListsInv
<1>4. WritingInv'
  <2>1. overrun = FALSE
    BY <1>0 DEF WritingInv
  <2> QED BY <1>1, <2>1 DEF WritingInv
<1>5. ArchiveInv'
  <2>1. CASE writing = 0 /\ UNCHANGED <<file, filed>>
    BY <1>0, <1>1, <2>1, ArchiveKept
  <2>2. ASSUME writing # 0, NEW n \in 0..Len(file),
               filed' = {id \in filed : \E k \in 1..n : file[k].ns = id[1]},
               \/ file' = SubSeq(file, 1, n)
               \/ /\ n < Len(file) /\ file[n + 1].data # <<>>
                  /\ file' = Append(SubSeq(file, 1, n), [file[n + 1] EXCEPT !.data = B!Front(@)])
        PROVE  ArchiveInv'
    <3> DEFINE l == Len(file)
               s == SubSeq(file, 1, n)
               t == [file[n + 1] EXCEPT !.data = B!Front(@)]
    <3>1. /\ file \in Seq(Archived) /\ l \in Nat /\ DOMAIN file = 1..l /\ n \in Nat /\ n <= l
          /\ \A k \in 1..l : Shape(file[k]) /\ Full(file[k]) /\ Right(file[k])
          /\ filed \subseteq ChunkId
          /\ \A id \in ChunkId :
               id \in filed <=> \E k \in 1..l : id \in Ids(file[k].ns, file[k].chunks)
      <4>1. file \in Seq(Archived)
        BY <1>0 DEF ArchiveInv
      <4>2. l \in Nat /\ DOMAIN file = 1..l
        BY <4>1
      <4>3. n \in Nat /\ n <= l
        BY <4>2
      <4> HIDE DEF l
      <4>4. \A k \in 1..l : Shape(file[k]) /\ Full(file[k]) /\ Right(file[k])
        BY <1>0, <2>2, <4>2 DEF ArchiveInv
      <4>5. filed \subseteq ChunkId
        BY <1>0 DEF ArchiveInv
      <4>6. \A id \in ChunkId :
              id \in filed <=> \E k \in 1..l : id \in Ids(file[k].ns, file[k].chunks)
        BY <1>0, <4>2, <4>4 DEF ArchiveInv
      <4> QED BY <4>1, <4>2, <4>3, <4>4, <4>5, <4>6
    <3>2. \A j, k \in 1..l : file[j].ns = file[k].ns => j = k
      <4>1. /\ l = writing - 1 /\ writing <= Len(group) + 1
            /\ \A k \in 1..l : file[k].ns = group[k].ns
        BY <1>0, <2>2, <3>1 DEF WritingInv
      <4>2. /\ group \in Seq(Listing)
            /\ \A j, k \in DOMAIN group : group[j].ns = group[k].ns => j = k
        BY <1>0 DEF ListsInv
      <4>3. Len(group) \in Nat /\ DOMAIN group = 1..Len(group) /\ writing \in Nat
        BY <1>0, <4>2 DEF ArchiveInv
      <4> HIDE DEF l
      <4>4. \A k \in 1..l : k \in 1..Len(group)
        BY <3>1, <4>1, <4>3
      <4> QED BY <4>1, <4>2, <4>3, <4>4
    <3>3. /\ s \in Seq(Archived) /\ Len(s) = n /\ DOMAIN s = 1..n
          /\ \A k \in 1..n : s[k] = file[k] /\ k \in 1..l
      BY <3>1, RemainsOf
    <3> HIDE DEF l, s
    <3>4. \A k \in 1..n : Shape(s[k]) /\ Full(s[k]) /\ Right(s[k])
      BY <3>1, <3>3
    <3>5. filed' \subseteq ChunkId
      BY <2>2, <3>1
    <3>6. ASSUME NEW id \in ChunkId
          PROVE  id \in filed' <=> \E k \in 1..n : id \in Ids(s[k].ns, s[k].chunks)
      <4>1. \A k : id \in Ids(file[k].ns, file[k].chunks) => id[1] = file[k].ns
        BY DEF Ids
      <4>2. id \in filed' <=> id \in filed /\ \E k \in 1..n : file[k].ns = id[1]
        BY <2>2
      <4>3. \A k \in 1..n : id \in Ids(s[k].ns, s[k].chunks) <=>
                            id \in Ids(file[k].ns, file[k].chunks)
        BY <3>3
      <4>4. ASSUME id \in filed' PROVE \E k \in 1..n : id \in Ids(file[k].ns, file[k].chunks)
        <5>1. PICK k \in 1..n : file[k].ns = id[1]
          BY <4>2, <4>4
        <5>2. PICK j \in 1..l : id \in Ids(file[j].ns, file[j].chunks)
          BY <3>1, <4>2, <4>4
        <5>3. j = k
          BY <3>2, <3>3, <4>1, <5>1, <5>2
        <5> QED BY <5>2, <5>3
      <4>5. ASSUME NEW k \in 1..n, id \in Ids(file[k].ns, file[k].chunks) PROVE id \in filed'
        BY <3>1, <3>3, <4>1, <4>2, <4>5
      <4> QED BY <4>3, <4>4, <4>5
    <3>7. CASE file' = s
      <4>1. \A k \in DOMAIN file' :
              /\ Shape(file'[k]) /\ (Full(file'[k]) => Right(file'[k]))
              /\ Full(file'[k]) \/ (writing' = 0 /\ k = Len(file'))
        BY <3>3, <3>4, <3>7
      <4>2. \A id \in ChunkId :
              id \in filed' <=>
                \E k \in DOMAIN file' : Full(file'[k]) /\ id \in Ids(file'[k].ns, file'[k].chunks)
        BY <3>3, <3>4, <3>6, <3>7
      <4> QED BY <1>1, <3>3, <3>5, <3>7, <4>1, <4>2 DEF ArchiveInv
    <3>8. CASE n < l /\ file[n + 1].data # <<>> /\ file' = Append(s, t)
      <4>1. n + 1 \in 1..l
        BY <3>1, <3>8
      <4>2. Shape(t) /\ ~Full(t)
        <5>1. Shape(file[n + 1])
          BY <3>1, <4>1
        <5> QED BY <3>8, <5>1, CutShort
      <4> HIDE DEF t
      <4>3. t \in Archived
        BY <4>2 DEF Shape
      <4>4. /\ file' \in Seq(Archived) /\ Len(file') = n + 1 /\ file'[n + 1] = t
            /\ \A k \in 1..n : file'[k] = s[k]
        BY <3>3, <3>8, <4>3, AppendProperties
      <4>5. DOMAIN file' = 1..(n + 1)
        BY <4>4
      <4>6. \A k \in 1..(n + 1) : k \in 1..n \/ k = n + 1
        BY <3>1
      <4>7. \A k \in 1..n : k \in 1..(n + 1)
        BY <3>1
      <4>8. \A k \in DOMAIN file' :
              /\ Shape(file'[k]) /\ (Full(file'[k]) => Right(file'[k]))
              /\ Full(file'[k]) \/ (writing' = 0 /\ k = Len(file'))
        BY <1>1, <3>4, <4>2, <4>4, <4>5, <4>6
      <4>9. \A id \in ChunkId :
              id \in filed' <=>
                \E k \in DOMAIN file' : Full(file'[k]) /\ id \in Ids(file'[k].ns, file'[k].chunks)
        <5> SUFFICES ASSUME NEW id \in ChunkId
                     PROVE  id \in filed' <=>
                              \E k \in 1..(n + 1) :
                                Full(file'[k]) /\ id \in Ids(file'[k].ns, file'[k].chunks)
          BY <4>5
        <5>1. \A k \in 1..n : /\ Full(file'[k])
                              /\ id \in Ids(file'[k].ns, file'[k].chunks) <=>
                                 id \in Ids(s[k].ns, s[k].chunks)
          BY <3>4, <4>4
        <5>2. ~Full(file'[n + 1])
          BY <4>2, <4>4
        <5> QED BY <3>6, <4>6, <4>7, <5>1, <5>2
      <4> QED BY <1>1, <3>5, <4>4, <4>8, <4>9 DEF ArchiveInv
    <3> QED BY <2>2, <3>7, <3>8 DEF s, t, l
  <2> QED BY <2>1, <2>2 DEF B!Restart
<1> QED BY <1>2, <1>3, <1>4, <1>5 DEF StoreInv

LEMMA StoreNext == StoreInv /\ B!Next => StoreInv'
<1> SUFFICES ASSUME StoreInv, B!Next PROVE StoreInv'
  OBVIOUS
<1>1. ~overrun
  BY DEF B!Next
<1>2. ASSUME NEW id \in ChunkId, B!InsertNode(id[1], id[2], id[3]) PROVE StoreInv'
  <2> DEFINE ns == id[1]
             n0 == id[2]
             n1 == id[3]
  <2>1. ns \in Ns /\ n0 \in Names0 /\ n1 \in Names1 /\ id = <<ns, n0, n1>>
    BY ChunkNames
  <2>2. <<ns, n0, n1>> \in ChunkId /\ B!InsertNode(ns, n0, n1)
    BY <1>2, <2>1
  <2> HIDE DEF ns, n0, n1
  <2> QED BY <2>1, <2>2, StoreInsertNode
<1>3. CASE B!Open
  BY <1>3, StoreOpen
<1>4. CASE B!Measure
  BY <1>4, StoreMeasure
<1>5. CASE B!Copy
  BY <1>5, StoreCopy
<1>6. CASE B!Close
  BY <1>1, <1>6, StoreClose
<1>7. CASE B!LoadFile
  BY <1>7, StoreLoadFile
<1>8. CASE B!ClearChunkMap
  BY <1>8, StoreClear
<1>9. CASE B!Restart
  BY <1>1, <1>9, StoreRestart
<1> QED BY <1>2, <1>3, <1>4, <1>5, <1>6, <1>7, <1>8, <1>9 DEF B!Next

-----------------------------------------------------------------------------
(***************************************************************************)
(* The whole.  A step of one part leaves the variables of the others, so   *)
(* each part keeps its invariant.                                          *)
(***************************************************************************)
OclInv ==
  /\ RunnerInv /\ FrameInv /\ ExtensionsInv /\ LoaderInv /\ DeviceInv /\ DatabaseInv
  /\ StoreInv

LEMMA RunnerKept == RunnerInv /\ UNCHANGED vars => RunnerInv'
<1> SUFFICES ASSUME RunnerInv, UNCHANGED vars PROVE RunnerInv'
  OBVIOUS
<1>1. /\ groups' = groups /\ options' = options /\ source' = source /\ run' = run
      /\ pool' = pool /\ dangling' = dangling
  BY DEF vars, chainVars
<1>2. PoolInv' /\ dangling' = {}
  BY <1>1 DEF RunnerInv, PoolInv
<1>3. \A t \in Runner : Alone(t)'
  BY <1>1 DEF RunnerInv, Alone, Unpooled
<1> QED BY <1>1, <1>2, <1>3 DEF RunnerInv

LEMMA FrameKept == FrameInv /\ UNCHANGED frameVars => FrameInv'
<1> SUFFICES ASSUME FrameInv, UNCHANGED frameVars PROVE FrameInv'
  OBVIOUS
<1>1. /\ pc' = pc /\ todo' = todo /\ handles' = handles /\ kind' = kind /\ events' = events
      /\ refs' = refs /\ temps' = temps /\ live' = live /\ lost' = lost /\ unset' = unset
      /\ dead' = dead
  BY DEF frameVars
<1>2. TestsInv'
  BY <1>1 DEF FrameInv, TestsInv, Calls
<1>3. EventsInv'
  BY <1>1 DEF FrameInv, EventsInv, ListedOnce, F!Released
<1> QED BY <1>1, <1>2, <1>3 DEF FrameInv

LEMMA ExtensionsKept == ExtensionsInv /\ UNCHANGED frame => ExtensionsInv'
BY DEF ExtensionsInv

LEMMA LoaderKept == LoaderInv /\ UNCHANGED loaderVars => LoaderInv'
<1> SUFFICES ASSUME LoaderInv, UNCHANGED loaderVars PROVE LoaderInv'
  OBVIOUS
<1>1. /\ build' = build /\ stage' = stage /\ statics' = statics /\ libOpenCL' = libOpenCL
      /\ isVndkSupportUsed' = isVndkSupportUsed /\ symbols' = symbols /\ vndk' = vndk
      /\ open' = open /\ pooled' = pooled /\ wrong' = wrong
  BY DEF loaderVars
<1>2. LoaderTypes'
  BY <1>1 DEF LoaderInv, LoaderTypes
<1>3. StagesInv'
  BY <1>1 DEF LoaderInv, StagesInv, Api, Vndk
<1>4. StaticsOrder'
  BY <1>1 DEF LoaderInv, StaticsOrder
<1>5. OpenInv'
  BY <1>1 DEF LoaderInv, OpenInv, Opener, Api, Vndk
<1> QED BY <1>1, <1>2, <1>3, <1>4, <1>5 DEF LoaderInv

LEMMA DeviceKept == DeviceInv /\ UNCHANGED deviceVars => DeviceInv'
BY DEF DeviceInv, deviceVars

LEMMA DatabaseKept == DatabaseInv /\ UNCHANGED dbVars => DatabaseInv'
<1> SUFFICES ASSUME DatabaseInv, UNCHANGED dbVars PROVE DatabaseInv'
  OBVIOUS
<1>1. /\ mode' = mode /\ mgr' = mgr /\ kernel2function' = kernel2function
      /\ function2binaries' = function2binaries /\ db' = db /\ dbFiled' = dbFiled
      /\ first' = first /\ clash' = clash
  BY DEF dbVars
<1>2. FileInv' /\ MapsTyped'
  BY <1>1 DEF DatabaseInv, FileInv, MapsTyped
<1>3. Writing = Writing'
  BY <1>1 DEF Writing, Entered
<1>4. KernelsRead' = KernelsRead /\ FunctionsRead' = FunctionsRead
  BY <1>1 DEF KernelsRead, FunctionsRead, Reached
<1>5. Loads' = Loads
  BY <1>1 DEF Loads, Reached, K!LongEnough
<1>6. ItemsRight' = ItemsRight
  BY <1>1, <1>4 DEF ItemsRight
<1>7. OnDisk' = OnDisk
  BY <1>1, <1>5, <1>6 DEF OnDisk
<1>8. K!MapsAreRight' = K!MapsAreRight
  BY <1>1 DEF K!MapsAreRight, K!Retrieved
<1> QED BY <1>1, <1>2, <1>3, <1>7, <1>8 DEF DatabaseInv

LEMMA OclInvInit == OclInit => OclInv
BY RunnerInit, FrameInit, ExtensionsInit, LoaderInit, DeviceInit, DatabaseInit, StoreInit
   DEF OclInit, OclInv

LEMMA OclInvNext == OclInv /\ [OclNext]_allVars => OclInv'
<1> SUFFICES ASSUME OclInv, [OclNext]_allVars PROVE OclInv'
  OBVIOUS
<1>0. /\ RunnerInv /\ FrameInv /\ ExtensionsInv /\ LoaderInv /\ DeviceInv /\ DatabaseInv
      /\ StoreInv
  BY DEF OclInv
<1>1. Next \/ UNCHANGED vars
  BY DEF OclNext, allVars
<1>2. F!Next \/ UNCHANGED frameVars
  BY DEF OclNext, allVars
<1>3. E!Next \/ UNCHANGED frame
  BY DEF OclNext, allVars
<1>4. L!Next \/ UNCHANGED loaderVars
  BY DEF OclNext, allVars
<1>5. D!Next \/ UNCHANGED deviceVars
  BY DEF OclNext, allVars
<1>6. K!Next \/ UNCHANGED dbVars
  BY DEF OclNext, allVars
<1>7. B!Next \/ UNCHANGED storeVars
  BY DEF OclNext, allVars
<1>8. RunnerInv' /\ FrameInv' /\ LoaderInv'
  BY <1>0, <1>1, <1>2, <1>4, RunnerNext, RunnerKept, FrameNext, FrameKept, LoaderNext, LoaderKept
<1>9. ExtensionsInv'
  BY <1>0, <1>3, ExtensionsNext, ExtensionsKept
<1>10. DeviceInv'
  BY <1>0, <1>5, DeviceNext, DeviceKept
<1>11. DatabaseInv'
  BY <1>0, <1>6, DatabaseNext, DatabaseKept
<1>12. StoreInv'
  BY <1>0, <1>7, StoreNext, StoreKept
<1> QED BY <1>8, <1>9, <1>10, <1>11, <1>12 DEF OclInv

LEMMA OclInvAlways == OclSpec => []OclInv
<1>1. OclInit => OclInv
  BY OclInvInit
<1>2. OclInv /\ [OclNext]_allVars => OclInv'
  BY OclInvNext
<1> QED BY <1>1, <1>2, PTL DEF OclSpec

(* Every variable of the running of kernels, of the archive of programs, of  *)
(* the file of kernel binaries, of the devices, of the frame chain and of    *)
(* the library has its type, for any GPUs, devices, functions and bounds.    *)
THEOREM OclTyped == OclSpec => []OclTypeOK
<1>1. OclInv => OclTypeOK
  BY RunnerSafe, StoreSafe, DatabaseSafe, DeviceSafe, FrameSafe, ExtensionsSafe, LoaderSafe
     DEF OclInv, OclTypeOK
<1> QED BY <1>1, OclInvAlways, PTL

(* If clients keep what they were told to keep, no OpenCL object is used     *)
(* after its release, released twice or left: the kernels of the pool        *)
(* (kernelpool.cc:33-169), what a frame chain has (framechain.cc:189-222,    *)
(* 440-553) and the library (openclruntime.cc:47-267), whatever calls fail.  *)
THEOREM ObjectsAreSound ==
  ASSUME Careful
  PROVE  OclSpec => []ObjectsSound
<1>1. OclInv => ObjectsSound
  BY RunnerSafe, FrameSafe, LoaderSafe DEF OclInv, ObjectsSound
<1> QED BY <1>1, OclInvAlways, PTL

(* The kernel that runs is the one that was asked for, with the options of   *)
(* its chain and GPU, in a range that fits the device, for any number of     *)
(* threads and any system of platforms and devices (runkernel.h:86-144,      *)
(* framechain.cc:296-443, runkernel.cc:202-263, device.cc:62-194).           *)
THEOREM LaunchesAreRight == OclSpec => []LaunchesRight
<1>1. OclInv => LaunchesRight
  BY RunnerSafe, DeviceSafe, ExtensionsSafe DEF OclInv, LaunchesRight
<1> QED BY <1>1, OclInvAlways, PTL

(* If no thread frees a binary that another one runs a kernel from, it is    *)
(* there whenever a program is made of it (runkernel.h:99-118).              *)
THEOREM BinaryIsThere ==
  ASSUME Careful
  PROVE  OclSpec => []BinaryThereWhenUsed
<1>1. OclInv => BinaryThereWhenUsed
  BY RunnerSafe DEF OclInv
<1> QED BY <1>1, OclInvAlways, PTL

(* Exactly the programs that were saved, written and loaded are found, by    *)
(* both names or by the first, and each has its own binary, for any names    *)
(* and projects and wherever the writer died (binary.cc:68-117, 184-509).    *)
(* Once a file of kernel binaries is loaded, each kernel has the binary of   *)
(* its function, whoever wrote the file; a file whose maps are not where its *)
(* header says is refused (kernelbinariesmanager.cc:169-348, 354-494).       *)
THEOREM SavedGetsFound == OclSpec => []SavedIsFound
<1>1. OclInv => SavedIsFound
  BY StoreSafe, DatabaseSafe DEF OclInv, SavedIsFound
<1> QED BY <1>1, OclInvAlways, PTL
=============================================================================
