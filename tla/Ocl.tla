------------------------------- MODULE Ocl --------------------------------
(***************************************************************************)
(* The running of kernels, the archive of compiled programs, the file of   *)
(* kernel binaries, the devices, the frame chain, with what it finds out   *)
(* about its GPU, and the OpenCL library.  A behaviour is one of one part; *)
(* the others stay in their initial states.                                *)
(***************************************************************************)
EXTENDS KernelRunner

CONSTANTS Ns, Names0, Names1, MaxSaved, MaxLoads, ChunkId,
  Function, Kernels, Size, MaxCount, MaxStores,
  System, NoDevice, Version, PerDim, MaxItems, Mali, MaxDescribed,
  Globals, Locals, MaxDims, MaxEvents, MaxListed,
  Gpu, GpuVendor, GpuExtensions, OldGpu, DefaultGpu

ASSUME ListedAssumption == MaxEvents \in Nat /\ MaxListed \in Nat
ASSUME GpuAssumption == DefaultGpu \in Gpu

\* Names are numbers in the order of strcmp.
ASSUME ArchiveAssumption ==
  /\ Names0 \subseteq Nat /\ Names1 \subseteq Nat
  /\ ChunkId \subseteq Ns \X Names0 \X Names1 /\ MaxSaved \in Nat

\* Each device has a version, a number of items in a group and a limit per dimension.
ASSUME SystemAssumption ==
  LET Detectable == UNION {ToSet(System[p]) : p \in DOMAIN System}
  IN  /\ System \in Seq(Seq(Detectable)) /\ NoDevice \notin Detectable
      /\ Version \in [Detectable -> Nat] /\ MaxItems \in [Detectable -> Nat]
      /\ PerDim \in [Detectable -> Seq(Nat)]

\* A function is stored once a program with kernels has been built, and no
\* binary is empty (kernelbinariesmanager.cc:119-234).
ASSUME FunctionsAssumption ==
  /\ \A f \in Function : Kernels[f] \in Seq(ToSet(Kernels[f])) /\ Kernels[f] # <<>>
  /\ Size \in [Function -> Nat \ {0}]

\* A local size of 0 would divide by 0 (runkernel.cc:258), so clients give none.
ASSUME RangesAssumption ==
  /\ MaxDescribed \in Nat \ {0} /\ MaxDims \in Nat
  /\ Globals \subseteq Nat /\ Locals \subseteq Nat \ {0}

VARIABLES part, group, file, chunkMap, saved, filed, loaded, writing, room, careless, overrun,
  mode, mgr, kernel2function, function2binaries, db, dbFiled, first, clash,
  program, devices, shared, chain, step,
  pc, todo, handles, kind, events, refs, temps, live, lost, unset, dead,
  frame,
  build, stage, statics, libOpenCL, isVndkSupportUsed, symbols, vndk, open, pooled, wrong

B == INSTANCE BinaryStore
K == INSTANCE KernelBinaries WITH file <- db, filed <- dbFiled
D == INSTANCE Device
F == INSTANCE FrameChain WITH chain <- handles
E == INSTANCE FrameExtensions
L == INSTANCE OpenCLLoader

storeVars == <<group, file, chunkMap, saved, filed, loaded, writing, room, careless, overrun>>
dbVars == <<mode, mgr, kernel2function, function2binaries, db, dbFiled, first, clash>>
deviceVars == <<program, devices, shared, chain, step>>
frameVars == <<pc, todo, handles, kind, events, refs, temps, live, lost, unset, dead>>
loaderVars ==
  <<build, stage, statics, libOpenCL, isVndkSupportUsed, symbols, vndk, open, pooled, wrong>>
allVars == <<part, vars, storeVars, dbVars, deviceVars, frameVars, frame, loaderVars>>

OclInit ==
  /\ part \in {"runner", "store", "database", "device", "frame", "extensions", "loader"}
  /\ Init /\ B!Init /\ K!Init /\ D!Init /\ F!Init /\ E!Init /\ L!Init
  /\ part # "runner" =>
       \A t, u \in Runner : ~source[t] /\ options[t] = options[u]
  /\ part # "device" => program = "tool"
  /\ part # "loader" => build = "other"

OclNext ==
  /\ part' = part
  /\ \/ /\ part = "runner" /\ Next
        /\ UNCHANGED <<storeVars, dbVars, deviceVars, frameVars, frame, loaderVars>>
     \/ /\ part = "store" /\ B!Next
        /\ UNCHANGED <<vars, dbVars, deviceVars, frameVars, frame, loaderVars>>
     \/ /\ part = "database" /\ K!Next
        /\ UNCHANGED <<vars, storeVars, deviceVars, frameVars, frame, loaderVars>>
     \/ /\ part = "device" /\ D!Next
        /\ UNCHANGED <<vars, storeVars, dbVars, frameVars, frame, loaderVars>>
     \/ /\ part = "frame" /\ F!Next
        /\ UNCHANGED <<vars, storeVars, dbVars, deviceVars, frame, loaderVars>>
     \/ /\ part = "extensions" /\ E!Next
        /\ UNCHANGED <<vars, storeVars, dbVars, deviceVars, frameVars, loaderVars>>
     \/ /\ part = "loader" /\ L!Next
        /\ UNCHANGED <<vars, storeVars, dbVars, deviceVars, frameVars, frame>>

OclSpec == OclInit /\ [][OclNext]_allVars

-----------------------------------------------------------------------------
(* The type invariants of the seven modules *)
OclTypeOK ==
  TypeOK /\ B!TypeOK /\ K!TypeOK /\ D!TypeOK /\ F!TypeOK /\ E!TypeOK /\ L!TypeOK

(* No OpenCL object is used after its release, released twice or left: the  *)
(* kernels of the pool (kernelpool.cc:33-169), what a frame chain has       *)
(* (framechain.cc:189-222, 440-553) and the library, which outlives them    *)
(* (openclruntime.cc:47-267).                                               *)
ObjectsSound == PoolSound /\ F!AllReleased /\ F!HandedOutExists /\ L!LibrariesKept

(* What runs is the kernel that was asked for (runkernel.h:86-144),         *)
(* compiled for its GPU (framechain.cc:296-443), in a range that fits the   *)
(* device it runs on (runkernel.cc:202-263), which was found as             *)
(* device.cc:62-194 says and is the one that the tool describes.            *)
LaunchesRight ==
  RunsWhatWasAsked /\ E!CompiledForGpu
  /\ D!IndicesInRange /\ D!LaunchFits /\ D!PrintedIsTheDevices

(* What is written to a file is found when the file is loaded: the round    *)
(* trips of binary.cc (68-117, 364-509) and kernelbinariesmanager.cc        *)
(* (169-348, 354-494).                                                      *)
SavedIsFound == B!SavedIsFound /\ K!RetrievedIsStored
=============================================================================
