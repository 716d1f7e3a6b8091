---------------------------- MODULE OpenCLLoader ----------------------------
(***************************************************************************)
(* The loading of the OpenCL library at the first call of OpenCL and its   *)
(* unloading at exit (ocl/openclruntime.cc), with the other static objects *)
(* that call OpenCL when they are destroyed: the pool of kernels           *)
(* (ocl/kernelpool.cc:171) and the shared frame chains                     *)
(* (ocl/framechain.cc:721-733).                                            *)
(*                                                                         *)
(* Static objects are destroyed in the reverse order of their completed    *)
(* constructions.  kernel_pool is constructed before main, by which time   *)
(* another static initialiser may have called OpenCL; the others are local *)
(* to functions.  One thread starts and ends the program.  A library may   *)
(* lack any symbol; calling through a null pointer ends the program.       *)
(*                                                                         *)
(* The operating system is external: dlopen, Android's pair of functions   *)
(* for vendor libraries ("sphal") and LoadLibrary give handles that only   *)
(* their counterparts take back.                                           *)
(***************************************************************************)
EXTENDS Integers, Sequences, Functions

CONSTANT Careful   \* clients empty the pool before the program exits

Symbol == {"OpenCL 1.2", "OpenCL 2.0"}
Loader == {"dlopen", "sphal", "LoadLibrary"}

VARIABLES
  build,              \* the operating system the library is built for
  stage,              \* where the program is
  statics,            \* the static objects in the order of their construction
  libOpenCL, isVndkSupportUsed, symbols,   \* members of OpenCLAPI
  vndk,               \* members of libvndksupport: its functions
  open,               \* the open libraries, each with what opened it
  pooled,             \* the pool holds kernels
  wrong               \* history: a library or OpenCL was used in a wrong way

vars == <<build, stage, statics, libOpenCL, isVndkSupportUsed, symbols, vndk, open, pooled, wrong>>
apiVars == <<libOpenCL, isVndkSupportUsed, symbols, vndk>>

Static == {"kernel_pool", "libvndksupport", "OpenCLAPI", "frame chain", "frame chain of a queue"}

TypeOK ==
  /\ build \in {"Android", "other", "Windows"}
  /\ stage \in {"main", "pixel", "enable", "alternatives", "symbols", "exit", "ended", "crashed"}
  /\ Range(statics) \subseteq Static /\ IsInjective(statics)
  /\ libOpenCL \in BOOLEAN /\ isVndkSupportUsed \in BOOLEAN
  /\ symbols \subseteq Symbol
  /\ vndk \in [load : Loader, unload : Loader]
  /\ open \subseteq ({"OpenCL", "pixel", "vndksupport"} \X Loader)
  /\ pooled \in BOOLEAN /\ wrong \in BOOLEAN

Init ==
  /\ build \in {"Android", "other", "Windows"}
  /\ stage = "main" /\ statics = <<>>
  /\ libOpenCL = FALSE /\ isVndkSupportUsed = FALSE /\ symbols = {}
  /\ vndk = [load |-> "dlopen", unload |-> "dlopen"]
  /\ open = {} /\ pooled = FALSE /\ wrong = FALSE

Exists(s) == s \in Range(statics)

-----------------------------------------------------------------------------
(* OpenCLAPI::OpenCLAPI *)

(* The first call of OpenCL constructs the table of its functions.         *)
Instance ==
  /\ stage = "main" /\ ~Exists("OpenCLAPI")
  /\ stage' = IF build = "Windows" THEN "alternatives" ELSE "pixel"
  /\ UNCHANGED <<build, statics, apiVars, open, pooled, wrong>>

TryLibOpenCLPixel ==
  /\ stage = "pixel"
  /\ \/ stage' = "alternatives" /\ UNCHANGED open
     \/ stage' = "enable" /\ open' = open \cup {<<"pixel", "dlopen">>}
  /\ UNCHANGED <<build, statics, apiVars, pooled, wrong>>

(* The library is closed whether it has the function or not.  What the     *)
(* function gives is a library that dlclose takes back.                    *)
EnableOpenCL ==
  /\ stage = "enable"
  /\ \/ /\ stage' = "alternatives"
        /\ open' = open \ {<<"pixel", "dlopen">>} /\ UNCHANGED libOpenCL
     \/ /\ stage' = "symbols" /\ libOpenCL' = TRUE
        /\ open' = (open \ {<<"pixel", "dlopen">>}) \cup {<<"OpenCL", "dlopen">>}
  /\ UNCHANGED <<build, statics, isVndkSupportUsed, symbols, vndk, pooled, wrong>>

(* A likely bug: each missing function gets its own replacement.           *)
LoadersEach(found) == [f \in {"load", "unload"} |-> IF f \in found THEN "sphal" ELSE "dlopen"]

(* Android's functions are a pair: with one of them missing, neither is    *)
(* used.                                                                   *)
Loaders(found) ==
  IF found = {"load", "unload"} THEN [load |-> "sphal", unload |-> "sphal"]
  ELSE [load |-> "dlopen", unload |-> "dlopen"]

(* libvndksupport::instance, for the first time                            *)
MakeVndkSupport ==
  /\ stage = "alternatives" /\ build # "Windows" /\ ~Exists("libvndksupport")
  /\ \/ vndk' = Loaders({}) /\ UNCHANGED open
     \/ /\ build = "Android"
        /\ \E found \in SUBSET {"load", "unload"} : vndk' = Loaders(found)
        /\ open' = open \cup {<<"vndksupport", "dlopen">>}
  /\ statics' = Append(statics, "libvndksupport")
  /\ UNCHANGED <<build, stage, libOpenCL, isVndkSupportUsed, symbols, pooled, wrong>>

(* One of the alternatives is there, or none is; then the table is empty.  *)
LoadAlternative ==
  /\ stage = "alternatives" /\ (build = "Windows" \/ Exists("libvndksupport"))
  /\ \/ /\ stage' = "symbols" /\ libOpenCL' = TRUE
        /\ isVndkSupportUsed' = (build # "Windows")
        /\ open' = open \cup {<<"OpenCL", IF build = "Windows" THEN "LoadLibrary" ELSE vndk.load>>}
        /\ UNCHANGED statics
     \/ /\ stage' = "main" /\ statics' = Append(statics, "OpenCLAPI")
        /\ UNCHANGED <<libOpenCL, isVndkSupportUsed, open>>
  /\ UNCHANGED <<build, symbols, vndk, pooled, wrong>>

(* A symbol that the library does not have leaves a null pointer.          *)
LoadSymbols ==
  /\ stage = "symbols" /\ stage' = "main"
  /\ symbols' \in SUBSET Symbol
  /\ statics' = Append(statics, "OpenCLAPI")
  /\ UNCHANGED <<build, libOpenCL, isVndkSupportUsed, vndk, open, pooled, wrong>>

-----------------------------------------------------------------------------
(* The program *)

(* The static initialiser of kernelpool.cc                                 *)
MakePool ==
  /\ stage = "main" /\ ~Exists("kernel_pool")
  /\ statics' = Append(statics, "kernel_pool")
  /\ UNCHANGED <<build, stage, apiVars, open, pooled, wrong>>

(* A program calls the functions of used once there is a table.            *)
Calls(used, object, kernels) ==
  /\ stage = "main" /\ Exists("kernel_pool") /\ Exists("OpenCLAPI")
  /\ IF used \subseteq symbols
     THEN /\ statics' = statics \o object /\ pooled' = kernels
          /\ UNCHANGED stage
     ELSE stage' = "crashed" /\ UNCHANGED <<statics, pooled>>
  /\ UNCHANGED <<build, apiVars, open, wrong>>

InsertKernelToPool == Calls({"OpenCL 1.2"}, <<>>, TRUE)

RemoveAllKernelsFromPool == pooled /\ Calls({"OpenCL 1.2"}, <<>>, FALSE)

(* The first call makes the object.  The constructor calls OpenCL, so the  *)
(* table is complete before the frame chain is.                            *)
CreateSharedFrameChain ==
  \E chain \in {"frame chain", "frame chain of a queue"}, used \in SUBSET Symbol :
    /\ ~Exists(chain) /\ used # {}
    /\ Calls(used, <<chain>>, pooled)

Exit ==
  /\ stage = "main" /\ Exists("kernel_pool")
  /\ Careful => ~pooled
  /\ stage' = "exit"
  /\ UNCHANGED <<build, statics, apiVars, open, pooled, wrong>>

-----------------------------------------------------------------------------
(* The end of the program *)

Closes(lib, loader) ==
  /\ open' = open \ {<<lib, loader>>}
  /\ wrong' = (wrong \/ <<lib, loader>> \notin open)

\* libvndksupport's functions are those of a library that must be open
UnloadsByVndk ==
  /\ open' = open \ {<<"OpenCL", vndk.unload>>}
  /\ wrong' = (\/ wrong
               \/ <<"OpenCL", vndk.unload>> \notin open
               \/ ~Exists("libvndksupport")
               \/ vndk.unload = "sphal" /\ <<"vndksupport", "dlopen">> \notin open)

\* Releases need the table and the library behind it
ReleasesObjects ==
  /\ wrong' = (wrong \/ ~Exists("OpenCLAPI") \/ \A l \in Loader : <<"OpenCL", l>> \notin open)
  /\ UNCHANGED open

(* OpenCLAPI::~OpenCLAPI *)
UnloadsOpenCL ==
  IF ~libOpenCL THEN UNCHANGED <<open, wrong>>
  ELSE IF isVndkSupportUsed THEN UnloadsByVndk
  ELSE Closes("OpenCL", IF build = "Windows" THEN "LoadLibrary" ELSE "dlopen")

(* libvndksupport::~libvndksupport                                         *)
ClosesVndkSupport ==
  IF <<"vndksupport", "dlopen">> \in open THEN Closes("vndksupport", "dlopen")
  ELSE UNCHANGED <<open, wrong>>

\* The static object that was constructed last
Latest == statics[Len(statics)]

Destroy ==
  /\ stage = "exit" /\ statics # <<>> /\ statics' = SubSeq(statics, 1, Len(statics) - 1)
  /\ CASE Latest = "OpenCLAPI" -> UnloadsOpenCL
       [] Latest = "libvndksupport" -> ClosesVndkSupport
       [] Latest = "kernel_pool" ->
            IF pooled THEN ReleasesObjects ELSE UNCHANGED <<open, wrong>>
       [] OTHER -> ReleasesObjects
  /\ UNCHANGED <<build, stage, apiVars, pooled>>

End ==
  /\ stage = "exit" /\ statics = <<>> /\ stage' = "ended"
  /\ UNCHANGED <<build, statics, apiVars, open, pooled, wrong>>

Next ==
  \/ Instance \/ TryLibOpenCLPixel \/ EnableOpenCL
  \/ MakeVndkSupport \/ LoadAlternative \/ LoadSymbols
  \/ MakePool \/ InsertKernelToPool \/ RemoveAllKernelsFromPool \/ CreateSharedFrameChain
  \/ Exit \/ Destroy \/ End

-----------------------------------------------------------------------------
(* Every library is closed once, by the counterpart of what opened it      *)
(* (openclruntime.cc:47-116, 247-265), and OpenCL is not called any more    *)
(* when the table of its functions is destroyed, whatever the order in     *)
(* which the static objects came to be.                                    *)
LibrariesKept == ~wrong /\ (stage = "ended" => open = {})
=============================================================================
