-------------------------- MODULE FrameExtensions --------------------------
(***************************************************************************)
(* What a frame chain finds out about its GPU when it is made, and what    *)
(* kernels are compiled with because of it (ocl/framechain.h/.cc):         *)
(* vendor, extensions, the options every compilation gets, the properties  *)
(* of the context, and whether a client's queue is profiling.              *)
(*                                                                         *)
(* One chain is modelled, from its construction on; chains share nothing.  *)
(* A constructor throws if the vendor cannot be asked for, and then there  *)
(* is no chain.  Before it makes one of a queue the client has made a      *)
(* shared device, which may be another GPU's.                              *)
(*                                                                         *)
(* OpenCL is external: every query may fail, and then get_extention_info   *)
(* searches whatever is on the stack, where the extensions of some GPU may *)
(* be from an earlier query.  Asked for CL_QUEUE_PROPERTIES it writes one  *)
(* bit field.  Extensions are sought with strstr: one is also found in a   *)
(* longer name.                                                            *)
(***************************************************************************)
EXTENDS Integers, Sequences

CONSTANTS Gpu, GpuVendor, GpuExtensions,   \* the GPUs and what they say of themselves
  OldGpu,                                  \* those with an OpenCL before 2.0
  DefaultGpu                               \* the one of the default device

VARIABLE frame   \* the chain, <<>> before there is one

Macro == {"shuffle", "rotate", "intel enhanced"}
Feature == {"subgroup", "fp16", "3d image write", "int8 product", "shuffle", "rotate"}

Fresh(g) ==
  [gpu |-> g, platform_type0 |-> "invalid", asked |-> FALSE, misread |-> FALSE,
   supports |-> {}, defaults |-> {}, options |-> {}, context |-> <<"none">>,
   queue |-> {}, profiling |-> FALSE]

TypeOK ==
  frame # <<>> =>
    /\ DOMAIN frame = DOMAIN Fresh(DefaultGpu)
    /\ frame.gpu \in Gpu
    /\ frame.platform_type0 \in {"QCOM", "ARM", "INTEL", "invalid"}
    /\ frame.supports \subseteq Feature

Init == frame = <<>>

-----------------------------------------------------------------------------
(* Extensions *)

\* What strstr finds in the extensions of a GPU.
Found(extensions) ==
  extensions
  \cup (IF "cl_khr_subgroup_shuffle_relative" \in extensions THEN {"cl_khr_subgroup_shuffle"} ELSE {})
  \cup (IF "cl_intel_subgroups_short" \in extensions THEN {"cl_intel_subgroups"} ELSE {})

\* What a query may give; all but the first are failures.
Queried(g) == {Found(GpuExtensions[g]), {}} \cup {Found(GpuExtensions[h]) : h \in Gpu}

PlatformType(vendor) ==
  CASE vendor = "QUALCOMM" -> "QCOM"
    [] vendor = "ARM" -> "ARM"
    [] vendor \in {"Intel", "Intel(R) Corporation"} -> "INTEL"
    [] OTHER -> "invalid"

(* One of these extensions is enough for the feature. *)
Sufficient(type) ==
  [f \in Feature |->
    CASE f = "subgroup" -> {"cl_khr_subgroups"}
      [] f = "fp16" -> {"cl_khr_fp16"}
      [] f = "3d image write" -> {"cl_khr_3d_image_writes"}
      [] f = "int8 product" ->
           (CASE type = "QCOM" -> {"cl_qcom_dot_product8"}
              [] type = "ARM" -> {"cl_arm_integer_dot_product_accumulate_int8"}
              [] OTHER -> {"cl_khr_integer_dot_product"})
      [] type = "QCOM" -> {"cl_qcom_subgroup_shuffle"}
      [] OTHER -> {"cl_khr_subgroup_" \o f} \cup
                  (IF type = "INTEL" THEN {"cl_intel_subgroups"} ELSE {})]

Supported(type, found) == {f \in Feature : Sufficient(type)[f] \cap found # {}}

Vendor(type) ==
  CASE type = "QCOM" -> "VENDOR_QUALCOMM"
    [] type = "ARM" -> "VENDOR_ARM"
    [] type = "INTEL" -> "VENDOR_INTEL"
    [] OTHER -> "VENDOR_UNKNOW"

Macros(type, found) ==
  {Vendor(type)}
  \cup {m \in {"shuffle", "rotate"} : m \in Supported(type, found)}
  \cup (IF type = "INTEL" /\ "cl_intel_subgroups" \in found THEN {"intel enhanced"} ELSE {})

\* A mutant of GetExtentionInfo: the flags start anew as the options do.
GetExtentionInfoAnew(c, found) ==
  LET type == PlatformType(GpuVendor[c.gpu])
  IN  [c EXCEPT !.platform_type0 = type, !.asked = TRUE,
         !.misread = @ \/ found # Found(GpuExtensions[c.gpu]),
         !.supports = Supported(type, found), !.defaults = Macros(type, found)]

(* The flags are only ever set; the default options start anew. *)
GetExtentionInfo(c, found) ==
  LET type == PlatformType(GpuVendor[c.gpu])
  IN  [c EXCEPT !.platform_type0 = type, !.asked = TRUE,
         !.misread = @ \/ found # Found(GpuExtensions[c.gpu]),
         !.supports = @ \cup Supported(type, found),
         !.defaults = Macros(type, found)]

-----------------------------------------------------------------------------
(* Contexts and queues *)

IfSupportQcomHints(found) == {"cl_qcom_perf_hint", "cl_qcom_priority_hint"} \subseteq found

\* A hint is 0 or 1; any other is taken for low.
Taken(hint) == CASE hint = 0 -> "normal" [] hint = 1 -> "high" [] OTHER -> "low"

ContextProperties(g, perf, priority, found) ==
  CASE GpuVendor[g] = "ARM" -> <<"printf">>
    [] GpuVendor[g] = "QUALCOMM" /\ IfSupportQcomHints(found) ->
         <<"hints", Taken(perf), Taken(priority)>>
    [] OTHER -> <<"plain">>

WithContext(g, perf, priority, found) ==
  [Fresh(g) EXCEPT !.context = ContextProperties(g, perf, priority, found),
                   !.misread = found # Found(GpuExtensions[g])]

(* createDefaultOclFrame, which stops without a context *)
DefaultChains(perf, priority) ==
  {Fresh(DefaultGpu)} \cup
  {GetExtentionInfo(WithContext(DefaultGpu, perf, priority, hints), found) :
     hints \in Queried(DefaultGpu), found \in Queried(DefaultGpu)}

\* A mutant of QueryProfiling: any property of the queue will do.
QueryProfilingAny(properties, other) == other \in OldGpu /\ properties # {}

(* One bit field of the five that are there is written; with OpenCL 2.0,   *)
(* if that is what the shared device has, the second and the fourth are    *)
(* looked at.                                                              *)
QueryProfiling(properties, other) == other \in OldGpu /\ properties = {"profiling"}

OfQueue(g, properties, p) == [Fresh(g) EXCEPT !.queue = properties, !.profiling = p]

(* FrameChain(queue) stops where a query fails. *)
QueueChains(g, properties) ==
  LET stopped == {OfQueue(g, properties, QueryProfiling(properties, other)) : other \in Gpu}
  IN  {OfQueue(g, properties, FALSE)} \cup stopped \cup
      UNION {{GetExtentionInfo(c, found) : c \in stopped} : found \in Queried(g)}

-----------------------------------------------------------------------------
(* The chain *)

CreateDefault ==
  /\ frame = <<>>
  /\ \E perf, priority \in {-1, 0, 1} : frame' \in DefaultChains(perf, priority)

CreateFromQueue ==
  /\ frame = <<>>
  /\ \E g \in Gpu, properties \in SUBSET {"profiling", "out of order"} :
       frame' \in QueueChains(g, properties)

(* What a client adds to the options is left out. *)
SetCompileOptions ==
  /\ frame # <<>>
  /\ frame' = [frame EXCEPT !.options = frame.defaults]

(* get_extention_info is public. *)
AskAgain ==
  /\ frame # <<>>
  /\ \E found \in Queried(frame.gpu) : frame' = GetExtentionInfo(frame, found)

Next == CreateDefault \/ CreateFromQueue \/ SetCompileOptions \/ AskAgain

Spec == Init /\ [][Next]_frame

-----------------------------------------------------------------------------
(***************************************************************************)
(* Whatever queries fail and whenever the options were set, kernels are    *)
(* compiled for the vendor of the chain's GPU and with the sub-group       *)
(* functions only that the chain says it supports (framechain.cc:296-443); *)
(* unless the stack was searched, it supports what the GPU does, and hints *)
(* go to GPUs that know them.  A chain is not profiling unless its queue   *)
(* is (framechain.cc:656-688).                                             *)
(***************************************************************************)
CompiledForGpu ==
  frame # <<>> =>
    LET type == frame.platform_type0
        has == Found(GpuExtensions[frame.gpu])
    IN  /\ frame.options \subseteq Macro \cup {Vendor(type)}
        /\ frame.options \cap {"shuffle", "rotate"} \subseteq frame.supports
        /\ "intel enhanced" \in frame.options => type = "INTEL"
        /\ frame.asked /\ ~frame.misread =>
             /\ type = PlatformType(GpuVendor[frame.gpu])
             /\ frame.supports = Supported(type, has)
             /\ frame.supports \cap Macro = frame.defaults \cap {"shuffle", "rotate"}
             /\ frame.context[1] = "hints" => IfSupportQcomHints(has)
        /\ frame.profiling => "profiling" \in frame.queue
=============================================================================
