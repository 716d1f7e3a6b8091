--------------------------- MODULE KernelBinaries ---------------------------
(***************************************************************************)
(* The file of kernel binaries (ocl/kernelbinariesmanager.cc) through its  *)
(* interface (ocl/kernelbinaries_interface.cc): a process compiles         *)
(* functions, appends their binaries to the file and writes the maps from  *)
(* kernels to functions and from functions to binaries behind them; the    *)
(* same process or another one loads the maps and retrieves kernels.       *)
(*                                                                         *)
(* Eight bytes are one unit: the header has 2, an item of the first map 7  *)
(* (kernelbinariesmanager.h:43-47), an item of the second 4 (49-54).  The  *)
(* file is the set of the records in it.  What is read from a place where  *)
(* no record of that kind starts has names that nobody asks for.  Clients  *)
(* shut the manager down before they start it again, and call it from one  *)
(* thread.  Names fit in their fields, and writing and seeking do not      *)
(* fail; a process may die at any time.  Kernels[f] are the kernels of     *)
(* function f, Size[f] is the length of its binary; a function is a pair   *)
(* of project and name.                                                    *)
(*                                                                         *)
(* Bounds: a session begins with at most MaxCount kernels and functions    *)
(* counted, by earlier ones of its process; it stores MaxStores times.     *)
(***************************************************************************)
EXTENDS Naturals, Sequences, SequencesExt, FiniteSets

CONSTANTS Function, Kernels, Size, MaxCount, MaxStores

HeaderSize == 2
KernelItemSize == 7
FunctionItemSize == 4

VARIABLES
  mode,        \* which session is open, or "failed" if loading did
  mgr,         \* kernel_offset_, kernel_count_, function_offset_, function_count_
  kernel2function,       \* kernel2function_
  function2binaries,     \* function2binariesinfo_
  file,        \* kernel_binaries.db: its header, its length and its records
  filed,       \* history: the functions whose binaries and maps are in it
  first,       \* history: its process had counted nothing before it wrote it
  clash        \* history: a kernel's name was taken

vars == <<mode, mgr, kernel2function, function2binaries, file, filed, first, clash>>

Manager == [kernelOffset : Nat, kernelCount : Nat, functionOffset : Nat, functionCount : Nat]

NewManager ==
  [kernelOffset |-> 0, kernelCount |-> 0, functionOffset |-> 0, functionCount |-> 0]

\* What is in a file, behind a header: three kinds of records.
FileOf(header, length) ==
  [header |-> header, length |-> length, binaries |-> {}, kernels |-> {}, functions |-> {}]

NoFile == FileOf(<<>>, 0)

Record(at, of) == [at |-> at, of |-> of]

TypeOK ==
  /\ mode \in {"none", "compile", "retrieve", "failed"}
  /\ mgr \in Manager
  /\ \A k \in DOMAIN kernel2function : kernel2function[k] \in Function
  /\ DOMAIN function2binaries \subseteq Function
  /\ \A r \in file.binaries : r.at < file.length /\ r.of \in Function
  /\ \A r \in file.kernels : r.at < file.length /\ r.of[2] \in Function
  /\ \A r \in file.functions : r.at < file.length /\ r.of[1] \in Function
  /\ filed \subseteq Function
  /\ first \in BOOLEAN /\ clash \in BOOLEAN

Init ==
  /\ mode = "none" /\ mgr = NewManager
  /\ kernel2function = <<>> /\ function2binaries = <<>>
  /\ file = NoFile /\ filed = {}
  /\ first = TRUE /\ clash = FALSE

-----------------------------------------------------------------------------
(* Compiling *)

(* initializeKernelBinariesManager(BINARIES_COMPILE): the counts are those *)
(* that an earlier session has left.                                       *)
BeginCompile ==
  LET m == [mgr EXCEPT !.kernelOffset = HeaderSize, !.functionOffset = HeaderSize]
  IN  /\ mode = "none"
      /\ mgr.kernelCount + mgr.functionCount <= MaxCount
      /\ mode' = "compile"
      /\ mgr' = m
      /\ file' = FileOf(m, HeaderSize)
      /\ filed' = {}
      /\ first' = (mgr.kernelCount = 0 /\ mgr.functionCount = 0)
      /\ clash' = FALSE
      /\ UNCHANGED <<kernel2function, function2binaries>>

(* storeFunctionBinaries, in buildKernelBinaries.  The kernels before the  *)
(* first one whose name is taken are entered in the map.                   *)
Store(f) ==
  LET names == Kernels[f]
      taken == {i \in DOMAIN names : names[i] \in DOMAIN kernel2function}
      entered == {names[i] : i \in {j \in DOMAIN names : \A t \in taken : j < t}}
  IN  /\ mode = "compile" /\ Cardinality(file.binaries) < MaxStores
      /\ f \notin DOMAIN function2binaries
      /\ file' = [file EXCEPT !.length = @ + Size[f],
                              !.binaries = @ \cup {Record(file.length, f)}]
      /\ kernel2function' = [k \in DOMAIN kernel2function \cup entered |->
                              IF k \in entered THEN f ELSE kernel2function[k]]
      /\ IF taken # {}
           THEN clash' = TRUE /\ UNCHANGED <<mgr, function2binaries>>
           ELSE /\ function2binaries' = [g \in DOMAIN function2binaries \cup {f} |->
                     IF g = f THEN [at |-> mgr.functionOffset, size |-> Size[f]]
                     ELSE function2binaries[g]]
                /\ mgr' = [mgr EXCEPT !.functionOffset = @ + Size[f],
                                      !.functionCount = @ + 1]
                /\ UNCHANGED clash
      /\ UNCHANGED <<mode, filed, first>>

\* A mutant of MapsPlace: the maps are looked for where the file starts.
MapsPlaceFirst(m) == HeaderSize

(* Where the maps are said to be *)
MapsPlace(m) == m.functionOffset

(* storeMapstoFile and releaseResource, in shutDownKernelBinariesManager *)
EndCompile ==
  LET kernelItems == SetToSeq(DOMAIN kernel2function)
      functionItems == SetToSeq(DOMAIN function2binaries)
      kernels == mgr.kernelCount + Len(kernelItems)
      second == file.length + Len(kernelItems) * KernelItemSize
      m == [mgr EXCEPT !.kernelOffset = MapsPlace(mgr), !.kernelCount = kernels,
                       !.functionOffset = mgr.functionOffset + kernels * KernelItemSize]
  IN  /\ mode = "compile"
      /\ mode' = "none"
      /\ mgr' = m
      /\ file' = [file EXCEPT
           !.header = m,
           !.length = second + Len(functionItems) * FunctionItemSize,
           !.kernels =
             {Record(file.length + (i - 1) * KernelItemSize,
                <<kernelItems[i], kernel2function[kernelItems[i]]>>) : i \in DOMAIN kernelItems},
           !.functions =
             {Record(second + (i - 1) * FunctionItemSize,
                <<functionItems[i], function2binaries[functionItems[i]]>>) : i \in DOMAIN functionItems}]
      /\ filed' = DOMAIN function2binaries
      /\ kernel2function' = <<>> /\ function2binaries' = <<>>
      /\ UNCHANGED <<first, clash>>

-----------------------------------------------------------------------------
(* Retrieving *)

(* The items at n places that are read one after the other, and whether    *)
(* the file is long enough.                                                *)
Read(items, from, n, itemSize) ==
  {r.of : r \in {s \in items : \E i \in 0..(n - 1) : s.at = from + i * itemSize}}

LongEnough(from, n, itemSize) == n = 0 \/ from + n * itemSize <= file.length

(* prepareManager and loadBinariesInfo.  The check for inconsistency (393) *)
(* compares the place reached with the one the header says.                *)
BeginRetrieve ==
  LET h == file.header
      reached == h.kernelOffset + h.kernelCount * KernelItemSize
      kernelItems == Read(file.kernels, h.kernelOffset, h.kernelCount, KernelItemSize)
      functionItems == Read(file.functions, reached, h.functionCount, FunctionItemSize)
  IN  /\ mode = "none" /\ file.length > 0
      /\ mgr' = h
      /\ kernel2function' = [k \in {i[1] : i \in kernelItems} |->
           (CHOOSE i \in kernelItems : i[1] = k)[2]]
      /\ function2binaries' = [f \in {i[1] : i \in functionItems} |->
           (CHOOSE i \in functionItems : i[1] = f)[2]]
      /\ mode' = IF /\ LongEnough(h.kernelOffset, h.kernelCount, KernelItemSize)
                    /\ reached = h.functionOffset
                    /\ LongEnough(reached, h.functionCount, FunctionItemSize)
                 THEN "retrieve" ELSE "failed"
      /\ UNCHANGED <<file, filed, first, clash>>

(* retrieveKernel: the function whose binary is read, if there is one *)
Retrieved(project, k) ==
  IF k \notin DOMAIN kernel2function \/ kernel2function[k][1] # project THEN {}
  ELSE LET f == kernel2function[k] IN
    IF f \notin DOMAIN function2binaries THEN {}
    ELSE {r.of : r \in {s \in file.binaries :
            /\ s.at = function2binaries[f].at
            /\ Size[s.of] = function2binaries[f].size}}

(* It leaves the place of the binary in function_offset_. *)
Retrieve(k) ==
  /\ mode = "retrieve"
  /\ k \in DOMAIN kernel2function
  /\ kernel2function[k] \in DOMAIN function2binaries
  /\ mgr' = [mgr EXCEPT !.functionOffset = function2binaries[kernel2function[k]].at]
  /\ UNCHANGED <<mode, kernel2function, function2binaries, file, filed, first, clash>>

EndRetrieve ==
  /\ mode \in {"retrieve", "failed"}
  /\ mode' = "none"
  /\ kernel2function' = <<>> /\ function2binaries' = <<>>
  /\ UNCHANGED <<mgr, file, filed, first, clash>>

(***************************************************************************)
(* The process ends, or dies, and the next one starts.  What fwrite had    *)
(* not passed to the system yet is lost; of a file without its maps it     *)
(* matters only whether it has a header.                                   *)
(***************************************************************************)
Restart ==
  /\ mode' = "none" /\ mgr' = NewManager
  /\ kernel2function' = <<>> /\ function2binaries' = <<>>
  /\ \/ UNCHANGED file
     \/ mode = "compile" /\ file' = NoFile
  /\ UNCHANGED <<filed, first, clash>>

Next ==
  \/ BeginCompile \/ EndCompile \/ \E f \in Function : Store(f)
  \/ BeginRetrieve \/ EndRetrieve \/ \E k \in DOMAIN kernel2function : Retrieve(k)
  \/ Restart

Spec == Init /\ [][Next]_vars

-----------------------------------------------------------------------------
(* The maps give the binary of its function for each kernel in the file,   *)
(* and for the kernel's project only.                                      *)
MapsAreRight ==
  /\ DOMAIN kernel2function = UNION {ToSet(Kernels[f]) : f \in filed}
  /\ \A f \in Function, k \in DOMAIN kernel2function :
       Retrieved(f[1], k) = {g \in filed : k \in ToSet(Kernels[g]) /\ g[1] = f[1]}

(***************************************************************************)
(* A file that a process wrote before it had counted anything is loaded,   *)
(* and one of a later session, with counts that releaseResource has not    *)
(* reset, is refused because its maps end too early, wherever the writer   *)
(* died.  Once loaded the maps are right.  All this unless a    *)
(* kernel's name was taken, which storeFunctionBinaries reports (214-218). *)
(***************************************************************************)
RetrievedIsStored ==
  ~clash =>
    /\ mode = "failed" => ~first
    /\ mode = "retrieve" => first /\ MapsAreRight
=============================================================================
