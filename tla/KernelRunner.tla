---------------------------- MODULE KernelRunner ----------------------------
(***************************************************************************)
(* runOclKernel (ocl/runkernel.h, ocl/runkernel.cc) called by several      *)
(* threads over the one KernelPool (ocl/kernelpool.h/.cc) and the database *)
(* of kernel binaries (ocl/binary.h/.cc), while other threads remove       *)
(* kernels from the pool and groups from the database.  The OpenCL runtime *)
(* is external; any of its calls may fail, and the handle of a released    *)
(* kernel may be given to a new one.                                       *)
(*                                                                         *)
(* Each thread has a FrameChain of its own, all of one context and one     *)
(* project, and one source file that holds the kernels in Names.  A key of *)
(* the pool is a kernel name and the compile options (the code appends one *)
(* to the other).  Clients remove a kernel only while no thread is using   *)
(* it; whether they take the same care of the binaries is up to Careful.   *)
(*                                                                         *)
(* Bounds: MaxKernels handles are in use at a time, and MaxGroups groups   *)
(* are in the database.                                                    *)
(***************************************************************************)
EXTENDS Naturals, Sequences, SequencesExt

CONSTANTS Runner, Names, Options, MaxKernels, MaxGroups, Careful

ASSUME NamesAssumption == Names \in Seq(ToSet(Names)) /\ Len(Names) > 0
ASSUME RunnerBoundsAssumption == MaxKernels \in Nat /\ MaxGroups \in Nat
ASSUME CarefulAssumption == Careful \in BOOLEAN

VARIABLES
  pool,        \* context2kernels_: the kernel of each key
  dangling,    \* handles of released kernels that are still held somewhere
  groups,      \* the groups of binaries in the database: the options they
               \* are for, and whether the database made a copy
  options,     \* options[t]: compile_options_ of t's frame chain
  source,      \* source[t]: its creating_program_type_ is WITH_SOURCE
  run          \* run[t]: where t is in runOclKernel, and its local variables

chainVars == <<options, source>>
vars == <<pool, dangling, groups, chainVars, run>>

Name == ToSet(Names)
Key == Name \X Options

(* What the runtime knows of a kernel; nullptr has the handle 0. *)
NoKernel == [handle |-> 0, of |-> <<>>]
Kernel == [handle : 1..MaxKernels, of : Key] \cup {NoKernel}
Group == [has : SUBSET Options, copied : BOOLEAN]

Idle == [pc |-> "idle", asked |-> Names[1], binary |-> "none",
         todo |-> <<>>, temp |-> NoKernel, kernel |-> NoKernel]

TypeOK ==
  /\ DOMAIN pool \subseteq Key
  /\ \A k \in DOMAIN pool : pool[k] \in Kernel \ {NoKernel}
  /\ dangling \subseteq 1..MaxKernels
  /\ groups \in Seq(Group) /\ Len(groups) <= MaxGroups
  /\ options \in [Runner -> Options]
  /\ source \in [Runner -> BOOLEAN]
  /\ \A t \in Runner :
       /\ run[t].pc \in {"idle", "find", "create", "build", "names", "insert",
                         "args", "enqueue"}
       /\ run[t].asked \in Name
       /\ run[t].binary \in {"none", "copy", "client's", "freed"}
       /\ run[t].todo \in Seq(Name)
       /\ run[t].temp \in Kernel /\ run[t].kernel \in Kernel

Init ==
  /\ pool = <<>> /\ dangling = {}
  /\ groups = <<>>
  /\ options \in [Runner -> Options]
  /\ source \in [Runner -> BOOLEAN]
  /\ run = [t \in Runner |-> Idle]

(* t goes on with these local variables, or returns. *)
Becomes(t, r) == run' = [run EXCEPT ![t] = r]

Return(t) == Becomes(t, Idle)

-----------------------------------------------------------------------------
(* runOclKernel *)

\* A mutant of KeyOf: the options are left out.
KeyOfName(n, o) == <<n, CHOOSE p \in Options : TRUE>>

KeyOf(n, o) == <<n, o>>

(* getKernel *)
Pooled(k) == IF k \in DOMAIN pool THEN pool[k] ELSE NoKernel

Call(t, n) ==
  LET k == Pooled(KeyOf(n, options[t]))
  IN  /\ run[t].pc = "idle"
      /\ Becomes(t, [Idle EXCEPT !.pc = IF k = NoKernel THEN "find" ELSE "args",
                                 !.asked = n, !.kernel = k])
      /\ UNCHANGED <<pool, dangling, groups, chainVars>>

(* LockKernelBinaryDB, FindKernelBinary, which takes the first group, and  *)
(* UnlockKernelBinaryDB.                                                   *)
FindBinary(t) ==
  LET holding == {g \in DOMAIN groups : options[t] \in groups[g].has}
  IN  /\ run[t].pc = "find" /\ ~source[t]
      /\ IF holding = {} THEN Return(t)
         ELSE Becomes(t, [run[t] EXCEPT !.pc = "create",
                !.binary = IF groups[Min(holding)].copied THEN "copy" ELSE "client's"])
      /\ UNCHANGED <<pool, dangling, groups, chainVars>>

(* The program is created from the binary after the lock is given back. *)
CreateWithBinary(t) ==
  /\ run[t].pc = "create"
  /\ \/ Becomes(t, [run[t] EXCEPT !.pc = "build", !.binary = "none"])
     \/ Return(t)
  /\ UNCHANGED <<pool, dangling, groups, chainVars>>

(* Sources are never removed from their database. *)
CreateWithSource(t) ==
  /\ run[t].pc = "find" /\ source[t]
  /\ Becomes(t, [run[t] EXCEPT !.pc = "build"]) \/ Return(t)
  /\ UNCHANGED <<pool, dangling, groups, chainVars>>

(***************************************************************************)
(* buildProgram, and saveProgramBinary, which leaves its mark in another   *)
(* list only (BinaryStore).  getKernelNames may fail and give no names.    *)
(***************************************************************************)
Build(t) ==
  /\ run[t].pc = "build"
  /\ \/ Return(t)
     \/ \E names \in {<<>>, Names} :
          Becomes(t, [run[t] EXCEPT !.pc = "names", !.todo = names])
  /\ UNCHANGED <<pool, dangling, groups, chainVars>>

(* The handles that the pool or a thread holds. *)
Held == {pool[k].handle : k \in DOMAIN pool} \cup
        UNION {{run[t].temp.handle, run[t].kernel.handle} : t \in Runner}

(* clCreateKernel for the next of the program's kernels *)
CreateKernel(t) ==
  LET fresh == (1..MaxKernels) \ Held
  IN  /\ run[t].pc = "names" /\ run[t].todo # <<>>
      /\ \/ Return(t)
         \/ /\ fresh # {}
            /\ Becomes(t, [run[t] EXCEPT !.pc = "insert",
                 !.temp = [handle |-> CHOOSE h \in fresh : TRUE, of |-> <<Head(run[t].todo), options[t]>>]])
      /\ UNCHANGED <<pool, dangling, groups, chainVars>>

(* insertKernel: if the key is there already the kernel is not stored. *)
InsertKernel(k, kernel) ==
  pool' = [j \in DOMAIN pool \cup {k} |-> IF j \in DOMAIN pool THEN pool[j] ELSE kernel]

Insert(t) ==
  LET r == run[t]
      n == Head(r.todo)
  IN  /\ r.pc = "insert"
      /\ InsertKernel(KeyOf(n, options[t]), r.temp)
      /\ Becomes(t, [r EXCEPT !.pc = "names", !.todo = Tail(@), !.temp = NoKernel,
                              !.kernel = IF n = r.asked THEN r.temp ELSE @])
      /\ UNCHANGED <<dangling, groups, chainVars>>

(* All kernels are created and the program is released. *)
NamesDone(t) ==
  /\ run[t].pc = "names" /\ run[t].todo = <<>>
  /\ IF run[t].kernel = NoKernel THEN Return(t)
     ELSE Becomes(t, [run[t] EXCEPT !.pc = "args"])
  /\ UNCHANGED <<pool, dangling, groups, chainVars>>

(* setKernelArg and validateNDrange, which may both fail *)
SetArgs(t) ==
  /\ run[t].pc = "args"
  /\ Becomes(t, [run[t] EXCEPT !.pc = "enqueue"]) \/ Return(t)
  /\ UNCHANGED <<pool, dangling, groups, chainVars>>

Enqueue(t) ==
  /\ run[t].pc = "enqueue"
  /\ Return(t)
  /\ UNCHANGED <<pool, dangling, groups, chainVars>>

Run(t) ==
  \/ \E n \in Name : Call(t, n)
  \/ FindBinary(t) \/ CreateWithBinary(t) \/ CreateWithSource(t) \/ Build(t)
  \/ CreateKernel(t) \/ Insert(t) \/ NamesDone(t) \/ SetArgs(t) \/ Enqueue(t)

-----------------------------------------------------------------------------
(* Other calls of the clients *)

SetCompileOptions(t) ==
  /\ run[t].pc = "idle"
  /\ \E o \in Options : options' = [options EXCEPT ![t] = o]
  /\ UNCHANGED <<pool, dangling, groups, source, run>>

InUse == {run[t].kernel.handle : t \in Runner}

\* A mutant of Without: removeKernel releases the kernel and leaves it there.
WithoutNone(keys) == pool

Without(keys) == [k \in DOMAIN pool \ keys |-> pool[k]]

(* clReleaseKernel for the kernels of these keys, which leave the pool. *)
ReleaseKernels(keys) ==
  LET released == {pool[k].handle : k \in keys}
  IN  /\ released \cap InUse = {}
      /\ pool' = Without(keys)
      /\ UNCHANGED <<groups, chainVars, run>>
      /\ dangling' = (dangling \cup released) \cap Held'

RemoveKernel == \E k \in DOMAIN pool : ReleaseKernels({k})
RemoveAllKernels == ReleaseKernels(DOMAIN pool)

(* InsertKernelBinaryGroup, with and without the flag ChunkGroup_No_Copy *)
InsertGroup ==
  /\ Len(groups) < MaxGroups
  /\ \E has \in SUBSET Options, copied \in BOOLEAN :
       groups' = Append(groups, [has |-> has, copied |-> copied])
  /\ UNCHANGED <<pool, dangling, chainVars, run>>

(* ReleaseAllKernelBinaryGroup frees the copies. *)
ReleaseAllGroups ==
  /\ Careful => \A t \in Runner : run[t].binary = "none"
  /\ groups' = <<>>
  /\ run' = [t \in Runner |->
       IF run[t].binary = "copy" THEN [run[t] EXCEPT !.binary = "freed"] ELSE run[t]]
  /\ UNCHANGED <<pool, dangling, chainVars>>

Next ==
  \/ \E t \in Runner : Run(t) \/ SetCompileOptions(t)
  \/ RemoveKernel \/ RemoveAllKernels \/ InsertGroup \/ ReleaseAllGroups

Spec == Init /\ [][Next]_vars

-----------------------------------------------------------------------------
(***************************************************************************)
(* Every kernel in the pool is the one its key says, is there once, and is *)
(* not released (kernelpool.cc:33-169), however many threads compile the   *)
(* same program at the same time (runkernel.h:86-118).                     *)
(***************************************************************************)
PoolSound ==
  /\ \A k \in DOMAIN pool : pool[k].of = k /\ pool[k].handle \notin dangling
  /\ \A k, l \in DOMAIN pool : pool[k].handle = pool[l].handle => k = l

(***************************************************************************)
(* The kernel that is enqueued (runkernel.h:125-144) has the name and the  *)
(* options asked for and is not released, whether it came from the pool or *)
(* was compiled, and although another thread may have inserted it first.   *)
(***************************************************************************)
RunsWhatWasAsked ==
  \A t \in Runner :
    run[t].pc \in {"args", "enqueue"} =>
      /\ run[t].kernel.of = <<run[t].asked, options[t]>>
      /\ run[t].kernel.handle \notin dangling

(***************************************************************************)
(* "1. LockBinaryDB 2. FindBinary and use binary 3. UnlockBinaryDB"        *)
(* (binary.h:77-80): a binary that was found is there until it is used.    *)
(***************************************************************************)
BinaryThereWhenUsed == \A t \in Runner : run[t].binary # "freed"
=============================================================================
