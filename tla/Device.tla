------------------------------- MODULE Device -------------------------------
(***************************************************************************)
(* The OpenCL devices of a process (ocl/device.h/.cc): the objects of      *)
(* class Device, the shared one among them, the device of the frame chain  *)
(* that kernels are run on (ocl/framechain.cc), and the validation of the  *)
(* ranges of work items against the shared device (ocl/runkernel.cc).      *)
(*                                                                         *)
(* System[p] is the sequence of the GPUs of platform p; every query may    *)
(* fail.  A program is the tool oclgpuinfo, which has an object of its     *)
(* own, or one that uses the library.  Clients of the library make queues  *)
(* for the shared device, and choose another shared device only while they *)
(* have no frame chain.  An index is never negative.                       *)
(*                                                                         *)
(* Bounds: the tool describes MaxDescribed devices; Globals and Locals are *)
(* the sizes of a range that are tried in each of MaxDims dimensions.      *)
(***************************************************************************)
EXTENDS Naturals, Sequences, Functions

CONSTANTS System, NoDevice, Version, PerDim, MaxItems, Mali, MaxDescribed,
  Globals, Locals, MaxDims

Detectable == UNION {Range(System[p]) : p \in DOMAIN System}

\* What getDeviceBasicInfos asks for, in the order of the code.
Fields == <<"gpu_type_", "opencl_version_", "max_work_dim_", "max_items_in_group_",
            "max_group_items_per_dim_", "image3d_max_width_">>

VARIABLES
  program,     \* "library" or "tool"
  devices,     \* the objects that exist, by their names
  shared,      \* shared_device: the name of an object, or "null"
  chain,       \* the device of the frame chain, NoDevice without one
  step         \* what the tool has to do next

vars == <<program, devices, shared, chain, step>>

Object == {"default", "chosen", "tool"}

Fresh(p, d) ==
  [platform_detected |-> FALSE, device_detected |-> FALSE,
   platform_index |-> p, device_index |-> d,
   platforms |-> 0, device_ids |-> <<>>,
   infos |-> [f \in DOMAIN Fields |-> NoDevice],  \* the device it was asked of
   limits |-> <<>>,                               \* the devices asked for theirs
   \* One each for all that getDeviceThoroughInfos and getPlatformInfos ask for
   thorough |-> NoDevice, platform_infos |-> 0,
   missed |-> {}]      \* history: what the tool could not ask for this time

TypeOK ==
  /\ program \in {"library", "tool"}
  /\ shared \in DOMAIN devices \cup {"null"}
  /\ chain \in Detectable \cup {NoDevice}
  /\ step \in {"any", "platforms", "infos", "devices", "device", "describe", "described"}
  /\ DOMAIN devices \subseteq Object
  /\ \A n \in DOMAIN devices :
       LET o == devices[n]
       IN  /\ o.platforms \in {0, Len(System)}
           /\ Range(o.device_ids) \subseteq Detectable \cup {NoDevice}
           /\ o.infos \in [DOMAIN Fields -> Detectable \cup {NoDevice}]
           /\ o.thorough \in Detectable \cup {NoDevice}
           /\ o.platform_infos \in 0..Len(System)
           /\ Len(o.limits) <= MaxDescribed /\ o.missed \subseteq {"platform", "device"}

Init ==
  /\ program \in {"library", "tool"}
  /\ devices = <<>> /\ shared = "null" /\ chain = NoDevice /\ step = "any"

-----------------------------------------------------------------------------
(* The methods of a Device: the results each may have, and what it leaves. *)

Result(ok, o) == [ok |-> ok, o |-> o]

(* What a method goes on with when a step succeeds, and what it ends with  *)
(* when one fails.                                                         *)
Succeeded(results) == {r.o : r \in {s \in results : s.ok}}
Failed(results) == {r \in results : ~r.ok}

(* Either query may fail. *)
DetectPlatforms(o) ==
  LET resized == [o EXCEPT !.platforms = Len(System)]
  IN  IF System = <<>> THEN {Result(FALSE, o)}
      ELSE {Result(FALSE, o), Result(FALSE, resized),
            Result(TRUE, [resized EXCEPT !.platform_detected = TRUE])}

\* A mutant of DetectDevices: the old list is kept when a query fails.
DetectDevicesKept(o) ==
  LET there == System[o.platform_index + 1]
  IN  IF ~o.platform_detected \/ o.platform_index >= o.platforms \/ there = <<>>
      THEN {Result(FALSE, o)}
      ELSE {Result(FALSE, o),
            Result(TRUE, [o EXCEPT !.device_ids = there, !.device_detected = TRUE])}

(* device_detected_ stays what it was on a failure; a platform without a   *)
(* GPU is one.                                                             *)
DetectDevices(o) ==
  LET there == System[o.platform_index + 1]
      listed(ids) == [o EXCEPT !.device_ids = ids]
      cleared == Result(FALSE, listed(<<>>))
  IN  IF ~o.platform_detected \/ o.platform_index >= o.platforms \/ there = <<>>
      THEN {cleared}
      ELSE {cleared, Result(FALSE, listed([i \in DOMAIN there |-> NoDevice])),
            Result(TRUE, [listed(there) EXCEPT !.device_detected = TRUE])}

GetPlatformNum(o) == IF o.platform_detected THEN o.platforms ELSE 0
GetDeviceNum(o) == IF o.device_detected THEN Len(o.device_ids) ELSE 0

(* The search ends with the first platform: with its first device, or,     *)
(* since having no device counts as a failure, without any.                *)
DetectAValidPlatformDevice(o) ==
  LET platforms == DetectPlatforms(o)
      listed == UNION {DetectDevices([p EXCEPT !.platform_index = 0]) : p \in Succeeded(platforms)}
  IN  Failed(platforms) \cup Failed(listed)
      \cup {Result(TRUE, [d EXCEPT !.device_index = 0]) : d \in Succeeded(listed)}

GetDeviceId(o) == IF o.device_detected THEN o.device_ids[o.device_index + 1] ELSE NoDevice

(* What was asked for before a failure is kept, and the limits of the      *)
(* dimensions are appended.                                                *)
GetDeviceBasicInfos(o) ==
  LET d == GetDeviceId(o)
      asked(n) == [o EXCEPT
        !.infos = [f \in DOMAIN Fields |-> IF f <= n THEN d ELSE o.infos[f]],
        !.limits = IF n >= 5 THEN Append(@, d) ELSE @]
      all == Len(Fields)
  IN  IF d = NoDevice THEN {Result(FALSE, o)}
      ELSE {Result(FALSE, asked(n)) : n \in 0..(all - 1)} \cup {Result(TRUE, asked(all))}

\* A mutant of GetDeviceThoroughInfos: the first device of the list is asked.
GetDeviceThoroughInfosOfFirst(o) ==
  {Result(FALSE, o)} \cup
  (IF GetDeviceId(o) = NoDevice THEN {} ELSE {Result(TRUE, [o EXCEPT !.thorough = o.device_ids[1]])})

GetDeviceThoroughInfos(o) ==
  {Result(FALSE, o)} \cup
  (IF GetDeviceId(o) = NoDevice THEN {} ELSE {Result(TRUE, [o EXCEPT !.thorough = GetDeviceId(o)])})

(* A failed query counts as a success in the code and leaves what was      *)
(* there; here the result is whether none failed.                          *)
GetPlatformInfos(o) ==
  {Result(FALSE, o)} \cup
  (IF o.platform_detected THEN {Result(TRUE, [o EXCEPT !.platform_infos = o.platform_index + 1])} ELSE {})

(* Device(), and Device(p, d), which complains about an index and keeps it *)
Default ==
  LET valid == DetectAValidPlatformDevice(Fresh(0, 0))
  IN  Failed(valid) \cup UNION {GetDeviceBasicInfos(o) : o \in Succeeded(valid)}

Chosen(p, d) ==
  LET platforms == DetectPlatforms(Fresh(p, d))
      listed == UNION {IF GetPlatformNum(o) <= p THEN {Result(FALSE, o)} ELSE DetectDevices(o) :
                         o \in Succeeded(platforms)}
  IN  Failed(platforms) \cup Failed(listed) \cup
      UNION {IF GetDeviceNum(o) <= d THEN {Result(FALSE, o)} ELSE GetDeviceBasicInfos(o) :
               o \in Succeeded(listed)}

-----------------------------------------------------------------------------
(* Programs that use the library: the shared objects are static and made   *)
(* once.                                                                   *)

MadeOnce(name, results) ==
  IF name \in DOMAIN devices THEN devices' = devices
  ELSE \E r \in results :
         devices' = [n \in DOMAIN devices \cup {name} |-> IF n = name THEN r.o ELSE devices[n]]

CreateSharedDevice ==
  /\ program = "library" /\ (chain = NoDevice \/ shared = "default")
  /\ MadeOnce("default", Default)
  /\ shared' = "default"
  /\ UNCHANGED <<program, chain, step>>

CreateSharedDeviceAt(p, d) ==
  /\ program = "library" /\ chain = NoDevice
  /\ MadeOnce("chosen", Chosen(p, d))
  /\ shared' = "chosen"
  /\ UNCHANGED <<program, chain, step>>

\* A mutant of DeviceOfFrame: the chain keeps the device chosen before.
DeviceOfFrameChosen(new) ==
  IF shared = "chosen" /\ GetDeviceNum(devices["chosen"]) > devices["chosen"].device_index
  THEN GetDeviceId(devices["chosen"]) ELSE GetDeviceId(new["default"])

DeviceOfFrame(new) == GetDeviceId(new["default"])

(* createDefaultOclFrame takes the default device, whatever was chosen. *)
CreateChain ==
  /\ program = "library" /\ chain = NoDevice
  /\ MadeOnce("default", Default)
  /\ shared' = "default"
  /\ chain' = DeviceOfFrame(devices')
  /\ UNCHANGED <<program, step>>

(* FrameChain(queue), with a queue for the shared device *)
CreateChainWithQueue ==
  /\ program = "library" /\ chain = NoDevice
  /\ shared # "null"
  /\ GetDeviceNum(devices[shared]) > devices[shared].device_index
  /\ chain' = GetDeviceId(devices[shared])
  /\ UNCHANGED <<program, devices, shared, step>>

(* checkGpuType and checkOpenCLVersion, asked about the shared device's     *)
(* own device; they set what getDeviceBasicInfos may have left unset.       *)
Check(f) ==
  /\ program = "library" /\ shared # "null"
  /\ GetDeviceNum(devices[shared]) > devices[shared].device_index
  /\ devices' = [devices EXCEPT ![shared].infos[f] = GetDeviceId(devices[shared])]
  /\ UNCHANGED <<program, shared, chain, step>>

DestroyChain ==
  /\ chain # NoDevice /\ chain' = NoDevice
  /\ UNCHANGED <<program, devices, shared, step>>

-----------------------------------------------------------------------------
(* showGpuInformation of the tool, call by call, for any platform and      *)
(* device and as often as it is wanted.  It looks at the numbers of        *)
(* platforms and devices, and not at what the methods return.              *)

Tool(results, next) ==
  /\ \E r \in results : devices' = [devices EXCEPT !["tool"] = r.o]
  /\ step' = next
  /\ UNCHANGED <<program, shared, chain>>

Noting(what, results) ==
  {Result(r.ok, [r.o EXCEPT !.missed = IF r.ok THEN @ ELSE @ \cup {what}]) : r \in results}

StartTool ==
  /\ program = "tool" /\ "tool" \notin DOMAIN devices
  /\ MadeOnce("tool", Default)
  /\ UNCHANGED <<program, shared, chain, step>>

ToolDetectsPlatforms ==
  /\ "tool" \in DOMAIN devices
  /\ step \in {"any", "platforms", "device", "described"}
  /\ Tool(DetectPlatforms([devices["tool"] EXCEPT !.missed = {}]), "platforms")

SetPlatformIndex(p) ==
  /\ step = "platforms"
  /\ p < GetPlatformNum(devices["tool"])
  /\ Tool({Result(TRUE, [devices["tool"] EXCEPT !.platform_index = p])}, "infos")

ToolAsksPlatform ==
  /\ step = "infos"
  /\ Tool(Noting("platform", GetPlatformInfos(devices["tool"])), "devices")

ToolDetectsDevices ==
  /\ step = "devices"
  /\ Tool(DetectDevices(devices["tool"]), "device")

SetDeviceIndex(d) ==
  /\ step = "device"
  /\ d < GetDeviceNum(devices["tool"])
  /\ Tool({Result(TRUE, [devices["tool"] EXCEPT !.device_index = d])}, "describe")

(* It asks for the thorough information also when the basic one failed.    *)
ToolDescribes ==
  /\ step = "describe"
  /\ Len(devices["tool"].limits) < MaxDescribed
  /\ Tool(UNION {Noting("device", GetDeviceThoroughInfos(r.o)) :
                   r \in Noting("device", GetDeviceBasicInfos(devices["tool"]))},
          "described")

Next ==
  \/ CreateSharedDevice \/ CreateChain \/ CreateChainWithQueue \/ DestroyChain
  \/ \E f \in {1, 2} : Check(f)
  \/ \E p, d \in 0..2 : CreateSharedDeviceAt(p, d)
  \/ StartTool \/ ToolDetectsPlatforms \/ ToolAsksPlatform \/ ToolDetectsDevices \/ ToolDescribes
  \/ \E i \in 0..2 : SetPlatformIndex(i) \/ SetDeviceIndex(i)

Spec == Init /\ [][Next]_vars

-----------------------------------------------------------------------------
(* validateNDrange *)

RoundUp(n, k) == ((n + k - 1) \div k) * k

\* A range of work items; without local sizes it has none.
NDRange ==
  [dims : 0..MaxDims, global : [1..MaxDims -> Globals],
   local : {<<>>} \cup [1..MaxDims -> Locals]]

Product(s) == FoldFunction(LAMBDA a, b : a * b, 1, s)

InGroup(r) == Product(SubSeq(r.local, 1, r.dims))

Dims(d) == Len(PerDim[d])

(* max_group_items_per_dim_: the limits of one device after the other's *)
Limits(of) ==
  LET appended[n \in 0..Len(of)] ==
        IF n = 0 THEN <<>> ELSE appended[n - 1] \o PerDim[of[n]]
  IN  appended[Len(of)]

(* Whether the range is accepted *)
Accepted(o, r) ==
  LET limit == Limits(o.limits)
  IN  /\ r.dims >= 1 /\ r.dims <= Dims(o.infos[3])
      /\ \A i \in 1..r.dims : r.global[i] # 0
      /\ r.local # <<>> =>
           /\ InGroup(r) <= MaxItems[o.infos[4]]
           /\ \A i \in 1..r.dims : r.local[i] <= limit[i]

Older(o) == Version[o.infos[2]] < 200

(* The global size that the range is launched with *)
Rounded(o, r, i) ==
  CASE r.local = <<>> /\ Older(o) -> RoundUp(r.global[i], IF i = 1 THEN 32 ELSE 4)
    [] r.local # <<>> /\ (Older(o) \/ o.infos[1] \in Mali) -> RoundUp(r.global[i], r.local[i])
    [] OTHER -> r.global[i]

-----------------------------------------------------------------------------
(***************************************************************************)
(* Where a detected platform or device is read without a further check     *)
(* (device.cc:182-211, framechain.cc:569-570) the index is one of the      *)
(* list's, and the list is that of the platform at platform_index_, after  *)
(* failures, too: in the default object always, in the tool's object when  *)
(* it has set both indices.                                                *)
(***************************************************************************)
IndicesInRange ==
  \A n \in DOMAIN devices \ {"chosen"} :
    LET o == devices[n]
        there == System[o.platform_index + 1]
    IN  step \in {"any", "describe", "described"} =>
          /\ o.platform_detected => o.platform_index < o.platforms
          /\ o.device_detected =>
               /\ o.device_index < Len(o.device_ids)
               /\ o.device_ids \in {there, [i \in DOMAIN there |-> NoDevice]}

(***************************************************************************)
(* What the tool prints (oclgpuinfo.cc:58-276) is what the platform and    *)
(* the device it was asked for say, unless a query failed: then older      *)
(* values may be printed.  The limits of the dimensions are those of the   *)
(* device that was asked first, of which there are enough.                 *)
(***************************************************************************)
PrintedIsTheDevices ==
  step = "described" =>
    LET o == devices["tool"]
        d == System[o.platform_index + 1][o.device_index + 1]
    IN  /\ "platform" \notin o.missed => o.platform_infos = o.platform_index + 1
        /\ "device" \notin o.missed =>
             /\ Range(o.infos) \cup {o.thorough} = {d}
             /\ Len(o.limits) = 1 => o.limits = <<d>>
             /\ Len(o.limits) >= 1

(* What OpenCL asks of a range on this device *)
Fits(d, r) ==
  /\ r.dims \in 1..Dims(d)
  /\ \A i \in 1..r.dims : r.global[i] > 0
  /\ r.local # <<>> =>
       InGroup(r) <= MaxItems[d] /\ \A i \in 1..r.dims : r.local[i] <= PerDim[d][i]

(***************************************************************************)
(* If the shared device could be asked for everything, exactly the ranges  *)
(* are accepted that fit the device of the frame chain, although nothing   *)
(* ties the chain to the shared device (runkernel.cc:202-263); what is     *)
(* launched covers the range, by less than a group more, and in whole      *)
(* groups on devices before OpenCL 2.0.                                    *)
(***************************************************************************)
LaunchFits ==
  (chain # NoDevice /\ \A f \in DOMAIN Fields : devices[shared].infos[f] # NoDevice) =>
    \A r \in NDRange :
      LET o == devices[shared]
      IN  /\ Accepted(o, r) <=> Fits(chain, r)
          /\ Fits(chain, r) => \A i \in 1..r.dims :
               LET group == IF r.local # <<>> THEN r.local[i] ELSE IF i = 1 THEN 32 ELSE 4
                   launched == Rounded(o, r, i)
               IN  /\ launched - r.global[i] \in 0..(group - 1)
                   /\ Version[chain] < 200 => launched % group = 0
=============================================================================
