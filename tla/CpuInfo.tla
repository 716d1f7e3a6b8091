------------------------------ MODULE CpuInfo ------------------------------
(***************************************************************************)
(* What a process finds out about its processor (x86/sysinfo.cc and        *)
(* arm/sysinfo.cc): instructions, by CPUID or by running some of them      *)
(* under a handler of SIGILL, and the sizes of the caches.                 *)
(*                                                                         *)
(* The handler, what it replaced and where it jumps are static variables   *)
(* without a lock.  GetCpuInfo runs in std::call_once; GetCPUInfoByRun     *)
(* (x86 only) does not, and overlapped records that two threads were in    *)
(* try_run at once.  The paths are those of POSIX: on Windows try_run is a *)
(* __try block of the compiler.                                            *)
(***************************************************************************)
EXTENDS Integers, Sequences

CONSTANT Thread

VARIABLES
  cpu,         \* the machine, one of Machines
  once,        \* __st_cpuinfo_once_flag
  info,        \* __st_cpuinfo
  pc, todo,    \* of each thread: its step, and the functions it has yet to run
  isa,         \* of each thread: the flags of the CpuInfo it fills
  given,       \* history: and what they were when it was called
  action,      \* the process's action for SIGILL
  exceptOldAct, exceptJmpBuf,
  blocked,     \* the threads whose signal mask has SIGILL
  dead,        \* the process was killed, or jumped to a stack that is not its own
  overlapped   \* history

vars == <<cpu, once, info, pc, todo, isa, given, action, exceptOldAct,
          exceptJmpBuf, blocked, dead, overlapped>>

None == "none"
NoInfo == [isa |-> {}, cache |-> <<0, 0, 0>>]

-----------------------------------------------------------------------------
(***************************************************************************)
(* The machines.  Caches are given by ways, partitions, bytes of a line    *)
(* and sets.  Intel's describe them in leaf 4 (and the second level in     *)
(* 0x80000006), AMD's in 0x80000005 and 0x80000006; claims are the flags   *)
(* of CPUID, usable those the system lets programs use.  The kernel of an  *)
(* ARM machine lists its caches in files, some of which may not be there.  *)
(***************************************************************************)
Size(c) == c[1] * c[2] * c[3] * c[4]
L1 == <<8, 1, 64, 64>>
L2 == <<8, 1, 64, 1024>>
L3 == <<16, 2, 64, 16384>>
Absent == <<0, 0, 0, 0>>

AllX86 == {"SSE", "SSE2", "AVX", "FMA", "AVX2", "AVX512"}
X86(vendor, extended, caches, claims, usable) ==
  [arch |-> "x86", vendor |-> vendor, extended |-> extended, caches |-> caches,
   claims |-> claims, usable |-> usable, files |-> 0]
Arm(caches, usable, files) ==
  [arch |-> "arm", vendor |-> None, extended |-> FALSE, caches |-> caches,
   claims |-> {}, usable |-> usable, files |-> files]
Machines ==
  { X86("intel", TRUE, <<L1, L2, L3>>, AllX86, AllX86),
    X86("intel", FALSE, <<L1, L2, Absent>>, {"SSE", "SSE2"}, {"SSE", "SSE2"}),
    X86("intel", TRUE, <<L1, L2, L3>>, AllX86, {"SSE", "SSE2"}),
    X86("amd", TRUE, <<L1, L2, L3>>, AllX86 \ {"AVX512"}, AllX86 \ {"AVX512"}),
    Arm(<<L1, L2, L3>>, {"ARMV8", "ARMV8_2", "BF16", "I8MM"}, 4),
    Arm(<<L1, L2, Absent>>, {"ARMV8"}, 3),
    Arm(<<L1, L2, L3>>, {"ARMV8", "I8MM"}, 2) }

(* Registers of CPUID, by the manuals: leaf 4 with the index of a cache, *)
(* and the extended leaves                                               *)
Leaf4(level) ==
  LET c == cpu.caches[level]
  IN  IF cpu.vendor # "intel" \/ c = Absent THEN [eax |-> 0, ebx |-> 0, ecx |-> 0]
      ELSE [eax |-> 7 * 2 ^ 26 + 2 ^ 14 + 32 * level + (IF level = 1 THEN 1 ELSE 3),
            ebx |-> (c[1] - 1) * 2 ^ 22 + (c[2] - 1) * 2 ^ 12 + c[3] - 1,
            ecx |-> c[4] - 1]
Leaf80000005Ecx == IF cpu.vendor = "amd" THEN (Size(L1) \div 2 ^ 10) * 2 ^ 24 + 2 ^ 17 + 64 ELSE 0
Leaf80000006 ==
  [ecx |-> (Size(L2) \div 2 ^ 10) * 2 ^ 16 + 6 * 2 ^ 12 + 64,
   edx |-> IF cpu.vendor = "amd" THEN (Size(L3) \div 2 ^ 19) * 2 ^ 18 + 2 ^ 15 + 64 ELSE 0]

-----------------------------------------------------------------------------
\* A mutant of GetCacheInfoIntel: the partitions are forgotten.
GetCacheInfoOnePartition(r, size) ==
  IF r.eax % 32 \notin {1, 3} THEN size
  ELSE (((r.ebx \div 2 ^ 22) % 2 ^ 10) + 1) * ((r.ebx % 2 ^ 12) + 1) * (r.ecx + 1)

(* The size of a cache of leaf 4, if that is one for data *)
GetCacheInfoIntel(r, size) ==
  IF r.eax % 32 \notin {1, 3} THEN size
  ELSE LET cache_ways == ((r.ebx \div 2 ^ 22) % 2 ^ 10) + 1
           cacheline_partitions == ((r.ebx \div 2 ^ 12) % 2 ^ 10) + 1
           cacheline_size == (r.ebx % 2 ^ 12) + 1
       IN  cache_ways * cacheline_partitions * cacheline_size * (r.ecx + 1)

(* GetCacheInfo, on what was there before *)
GetCacheInfo(cache) ==
  LET extended ==
        << ((Leaf80000005Ecx \div 2 ^ 24) % 2 ^ 8) * 2 ^ 10,
           ((Leaf80000006.ecx \div 2 ^ 16) % 2 ^ 16) * 2 ^ 10,
           ((Leaf80000006.edx \div 2 ^ 18) % 2 ^ 14) * 2 ^ 19 >>
      base == IF cpu.extended THEN extended ELSE cache
  IN  [level \in 1..3 |-> GetCacheInfoIntel(Leaf4(level), base[level])]

(* GetCPUInfoByCPUID *)
ByCPUID == [isa |-> cpu.claims, cache |-> GetCacheInfo(info.cache)]

(* The files of the caches, in their order; the size is printed in K. That *)
(* for instructions is twice as large as that for data.                    *)
File(n) ==
  LET level == <<1, 1, 2, 3>>[n]
      size == Size(cpu.caches[level]) \div 1024
  IN  [type |-> <<"Data", "Instruction", "Unified", "Unified">>[n], level |-> level,
       size |-> <<IF n = 2 THEN 2 * size ELSE size, "K">>]

SizeStrToBytes(s) == s[1] * (IF s[2] = "K" THEN 1024 ELSE IF s[2] = "M" THEN 2 ^ 20 ELSE 1)

\* A mutant of IsCounted: caches for instructions are taken for such for data.
IsCountedAlways(f) == TRUE

(* The caches that are not skipped *)
IsCounted(f) == f.type # "Instruction"

(* GetCacheSizesFromKVFS: the last one of a level counts, up to the first *)
(* directory that cannot be read.                                         *)
GetCacheSizesFromKVFS ==
  LET cache[n \in 0..cpu.files] ==
        IF n = 0 THEN <<0, 0, 0>>
        ELSE IF IsCounted(File(n))
             THEN [cache[n - 1] EXCEPT ![File(n).level] = SizeStrToBytes(File(n).size)]
             ELSE cache[n - 1]
  IN  cache[cpu.files]

-----------------------------------------------------------------------------
(* The functions that are tried, in order: TestIsa..., TestISASupport... *)
TestsX86 == <<"AVX512", "FMA", "AVX", "SSE">>
TestsArm == <<"ARMV8_2", "BF16", "I8MM">>
Tests == IF cpu.arch = "x86" THEN TestsX86 ELSE TestsArm

TypeOK ==
  /\ cpu \in Machines /\ once \in {"new", "running", "done"}
  /\ pc \in [Thread -> {"idle", "done", "install", "setjmp", "func", "restore", "restoreIll"}]
  /\ action \in {"app", "exceptHandler"} /\ exceptOldAct \in {None, "app", "exceptHandler"}
  /\ exceptJmpBuf \in Thread \cup {None} /\ blocked \subseteq Thread
  /\ dead \in BOOLEAN /\ overlapped \in BOOLEAN

Init ==
  /\ cpu \in Machines /\ once = "new" /\ info = NoInfo
  /\ pc = [t \in Thread |-> "idle"] /\ todo = [t \in Thread |-> <<>>]
  /\ isa = [t \in Thread |-> {}] /\ given = isa
  /\ action = "app" /\ exceptOldAct = None /\ exceptJmpBuf = None
  /\ blocked = {} /\ dead = FALSE /\ overlapped = FALSE

StartProbes(t, flags) ==
  /\ pc' = [pc EXCEPT ![t] = "install"]
  /\ todo' = [todo EXCEPT ![t] = Tests]
  /\ isa' = [isa EXCEPT ![t] = flags]
  /\ given' = [given EXCEPT ![t] = flags]

signalVars == <<action, exceptOldAct, exceptJmpBuf, blocked, dead, overlapped>>

(* GetCpuInfo, of the first caller: others wait until it is done. *)
GetCpuInfo(t) ==
  /\ ~dead /\ pc[t] \in {"idle", "done"} /\ once = "new"
  /\ \/ /\ cpu.arch = "x86"
        /\ info' = ByCPUID /\ once' = "done"
        /\ UNCHANGED <<pc, todo, isa, given>>
     \/ /\ cpu.arch = "arm"
        /\ StartProbes(t, {"ARMV8"}) /\ once' = "running"
        /\ UNCHANGED info
  /\ UNCHANGED <<cpu, signalVars>>

(* GetCPUInfoByRun: the caller's flags are not reset.  The caches it asks *)
(* for at its end are those of GetCacheInfo, as above.                    *)
GetCPUInfoByRun(t) ==
  /\ ~dead /\ pc[t] \in {"idle", "done"} /\ cpu.arch = "x86"
  /\ \E flags \in {{}, {"FMA"}} : StartProbes(t, flags)
  /\ UNCHANGED <<cpu, once, info, signalVars>>

-----------------------------------------------------------------------------
(* try_run, of the first function of todo[t]: sigaction *)
InTryRun(t) == pc[t] \in {"setjmp", "func", "restore", "restoreIll"}
Install(t) ==
  /\ ~dead /\ pc[t] = "install"
  /\ exceptOldAct' = action /\ action' = "exceptHandler"
  /\ overlapped' = (overlapped \/ \E u \in Thread : InTryRun(u))
  /\ pc' = [pc EXCEPT ![t] = "setjmp"]
  /\ UNCHANGED <<cpu, once, info, todo, isa, given, exceptJmpBuf, blocked, dead>>

SetJmp(t) ==
  /\ ~dead /\ pc[t] = "setjmp"
  /\ exceptJmpBuf' = t
  /\ pc' = [pc EXCEPT ![t] = "func"]
  /\ UNCHANGED <<cpu, once, info, todo, isa, given, action, exceptOldAct, blocked, dead, overlapped>>

(* The function runs through, *)
Run(t) ==
  /\ ~dead /\ pc[t] = "func" /\ Head(todo[t]) \in cpu.usable
  /\ pc' = [pc EXCEPT ![t] = "restore"]
  /\ UNCHANGED <<cpu, once, info, todo, isa, given, signalVars>>

\* A mutant of MaskAfterJump: sigsetjmp(exceptJmpBuf, 0) saves no mask.
MaskOfHandler(t) == blocked \cup {t}

(* SIGILL is blocked in its handler; the jump gives the saved mask back. *)
MaskAfterJump(t) == blocked

(* or an instruction raises SIGILL: fatal if that is blocked or nobody  *)
(* here handles it; siglongjmp needs a frame of the thread it runs in.  *)
Illegal(t) ==
  /\ ~dead /\ pc[t] = "func" /\ Head(todo[t]) \notin cpu.usable
  /\ IF t \notin blocked /\ action = "exceptHandler" /\ exceptJmpBuf = t
     THEN /\ pc' = [pc EXCEPT ![t] = "restoreIll"]
          /\ blocked' = MaskAfterJump(t)
          /\ UNCHANGED dead
     ELSE dead' = TRUE /\ UNCHANGED <<pc, blocked>>
  /\ UNCHANGED <<cpu, once, info, todo, isa, given, action, exceptOldAct, exceptJmpBuf, overlapped>>

\* A mutant of Restored: the handler is left installed after a jump.
RestoredIfRun(t) == IF pc[t] = "restore" THEN exceptOldAct ELSE action

(* sigaction(SIGILL, &exceptOldAct, NULL), on both ways *)
Restored(t) == exceptOldAct

(* The end of try_run: the flag is set if it returned 0.  After the last   *)
(* function GetCPUInfoByRun returns, or GetCpuInfo's first call.           *)
Restore(t) ==
  LET flags == IF pc[t] = "restore" THEN isa[t] \cup {Head(todo[t])} ELSE isa[t]
      last == Len(todo[t]) = 1
  IN  /\ ~dead /\ pc[t] \in {"restore", "restoreIll"}
      /\ action' = Restored(t)
      /\ isa' = [isa EXCEPT ![t] = flags]
      /\ todo' = [todo EXCEPT ![t] = Tail(@)]
      /\ pc' = [pc EXCEPT ![t] = IF last THEN "done" ELSE "install"]
      /\ IF last /\ once = "running"
         THEN info' = [isa |-> flags, cache |-> GetCacheSizesFromKVFS] /\ once' = "done"
         ELSE UNCHANGED <<info, once>>
      /\ UNCHANGED <<cpu, given, exceptOldAct, exceptJmpBuf, blocked, dead, overlapped>>

Next == \E t \in Thread :
  \/ GetCpuInfo(t) \/ GetCPUInfoByRun(t)
  \/ Install(t) \/ SetJmp(t) \/ Run(t) \/ Illegal(t) \/ Restore(t)

Spec == Init /\ [][Next]_vars

-----------------------------------------------------------------------------
(***************************************************************************)
(* What GetCpuInfo gives is what the machine has: the flags, and the size  *)
(* of the cache for data of every level, as far as it is told (0 for the   *)
(* rest).  And as long as the tests of instructions do not overlap, as     *)
(* they cannot on ARM, they find exactly the usable ones, never kill the   *)
(* process, and leave the action for SIGILL and the signal mask alone      *)
(* (x86/sysinfo.cc:75-95, 185-300, arm/sysinfo.cc:49-221).                 *)
(***************************************************************************)
MachineFound ==
  /\ once = "done" =>
       /\ info.isa = IF cpu.arch = "x86" THEN cpu.claims ELSE cpu.usable
       /\ \A level \in 1..3 :
            \/ info.cache[level] = Size(cpu.caches[level])
            \/ info.cache[level] = 0 /\ cpu.arch = "arm" /\ cpu.files <= level
  /\ cpu.arch = "arm" => ~overlapped
  /\ ~overlapped =>
       /\ ~dead /\ blocked = {}
       /\ (\A t \in Thread : ~InTryRun(t)) => action = "app"
       /\ \A t \in Thread :
            pc[t] = "done" =>
              isa[t] = given[t] \cup {Tests[n] : n \in {m \in DOMAIN Tests : Tests[m] \in cpu.usable}}
=============================================================================
