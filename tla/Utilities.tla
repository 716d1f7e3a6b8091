----------------------------- MODULE Utilities -----------------------------
(***************************************************************************)
(* The parts of src/ that one thread uses at a time: addresses, pages,     *)
(* slabs of objects, Mmap objects and shapes of tensors; and those that a  *)
(* few threads use in a few steps: the threads of the Windows build, what  *)
(* is found out about the processor, and the logger.  They do not          *)
(* interact: a behaviour is one of one part, the others stay in their      *)
(* initial states (part is "none" if it is one of a part that is not here).*)
(***************************************************************************)
EXTENDS CompactAddrManager

CONSTANTS Pages, PageSizes, Slab, PreallocNum,
  Obj, Block, Null, Failed, InlineSize, MemSizes, FileSize, PageSize, Values,
  Formats, Dims, Paddings, MaxRank, Wrap, Worker, Custom

ASSUME PagesAssumption == Pages \in Nat \ {0} /\ PageSizes \subseteq Nat \ {0}
ASSUME PreallocAssumption == PreallocNum \in Nat \ {0}
ASSUME MmapAssumption ==
  /\ Null \notin Obj \cup Block /\ Obj \cap Block = {} /\ IsFiniteSet(Block)
  /\ MemSizes \subseteq Nat /\ Values \subseteq Int
  /\ FileSize \in Nat /\ PageSize \in Nat \ {0}
ASSUME ShapeAssumption ==
  /\ MaxRank \in Nat /\ Dims \subseteq Int /\ Paddings \subseteq Nat
  /\ "UNKNOWN" \in Formats /\ Wrap \in Nat \ {0}
ASSUME WorkerAssumption == IsFiniteSet(Worker)

VARIABLES part, max, used, pageSize, blocks, held, slabs, objects, taken,
  obj, memory, open, written, shape, plain, calculated,
  params, life, handles, once_ctrl, pc, begun, ended,
  cpu, once, info, step, todo, isa, given, action, exceptOldAct, exceptJmpBuf,
  blocked, dead, overlapped,
  stage, statics, g_logger, alive, level_, msg, careless, wrong

P == INSTANCE PageManager
O == INSTANCE ObjectPool WITH free <- objects, live <- taken
M == INSTANCE Mmap
T == INSTANCE TensorShape
W == INSTANCE WindowsThreads
C == INSTANCE CpuInfo WITH Thread <- Worker, pc <- step
L == INSTANCE Logger WITH Thread <- Worker

ASSUME CustomAssumption == Custom \cap {L!Default, L!NoLogger} = {}

pageVars == <<max, used, pageSize, blocks, held>>
objectVars == <<slabs, objects, taken>>
mmapVars == <<obj, memory, open, written>>
shapeVars == <<shape, plain, calculated>>
threadVars == <<params, life, handles, once_ctrl, pc, begun, ended>>
processorVars == <<cpu, once, info, step, todo, isa, given, action,
                   exceptOldAct, exceptJmpBuf, blocked, dead, overlapped>>
loggerVars == <<stage, statics, g_logger, alive, level_, msg, careless, wrong>>
memoryVars == <<vars, pageVars, objectVars, mmapVars, shapeVars>>
processVars == <<threadVars, processorVars, loggerVars>>
utilityVars == <<part, memoryVars, processVars>>

UtilitiesInit ==
  /\ part \in {"addresses", "pages", "objects", "maps", "shapes", "threads",
              "processor", "logger", "none"}
  /\ part # "addresses" => kind = "vm"
  /\ part # "objects" => slabs = {}
  /\ part # "processor" => cpu = CHOOSE machine \in C!Machines : TRUE
  /\ Init /\ P!Init /\ O!Init /\ M!Init /\ T!Init /\ W!Init /\ C!Init /\ L!Init

UtilitiesNext ==
  /\ \/ /\ \/ part = "addresses" /\ Next /\ UNCHANGED <<pageVars, objectVars, mmapVars, shapeVars>>
           \/ part = "pages" /\ P!Next /\ UNCHANGED <<vars, objectVars, mmapVars, shapeVars>>
           \/ part = "objects" /\ O!Next /\ UNCHANGED <<vars, pageVars, mmapVars, shapeVars>>
           \/ part = "maps" /\ M!Next /\ UNCHANGED <<vars, pageVars, objectVars, shapeVars>>
           \/ part = "shapes" /\ T!Next /\ UNCHANGED <<vars, pageVars, objectVars, mmapVars>>
        /\ UNCHANGED processVars
     \/ /\ \/ part = "threads" /\ W!Next /\ UNCHANGED <<processorVars, loggerVars>>
           \/ part = "processor" /\ C!Next /\ UNCHANGED <<threadVars, loggerVars>>
           \/ part = "logger" /\ L!Next /\ UNCHANGED <<threadVars, processorVars>>
        /\ UNCHANGED memoryVars
  /\ UNCHANGED part

UtilitiesSpec == UtilitiesInit /\ [][UtilitiesNext]_utilityVars

-----------------------------------------------------------------------------
(* The type invariants of the modules, and what must not get lost in any:  *)
(* mapped memory (cuda_buffered_allocator.cc), pages (page_manager.h:31),  *)
(* objects of a pool (object_pool.h:29), what a Mmap owns (mmap.cc), the   *)
(* parameters of threads and the call of pthread_once (windows/pthread.cc),*)
(* and messages for a logger (log.h:104-110).                              *)
UtilitiesTypeOK ==
  /\ TypeOK /\ P!TypeOK /\ O!TypeOK /\ M!TypeOK /\ T!TypeOK
  /\ W!TypeOK /\ C!TypeOK /\ L!TypeOK
NothingLost ==
  /\ MappedWhileLive /\ P!PagesKept /\ O!ObjectsKept /\ M!MemoryKept
  /\ W!OnceRun /\ L!MessagesKept

(* What callers are told: the counts of a shape's elements, with paddings  *)
(* and without (tensor_shape.h:100-279), and the instructions and caches   *)
(* of the processor (x86/sysinfo.cc, arm/sysinfo.cc).                      *)
ToldRight == T!PaddingFits /\ C!MachineFound
=============================================================================
