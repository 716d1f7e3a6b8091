------------------------------- MODULE MCOcl -------------------------------
(* The OpenCL parts with few threads, names, functions, devices and GPUs   *)
EXTENDS Ocl

TwoNames == <<"k1", "k2">>
Symmetry == Permutations(Runner) \cup Permutations(Options)

\* Some are empty, and two differ in their second name only.
SomeChunks == {<<"cv", 1, 1>>, <<"cv", 1, 2>>, <<"cv", 2, 2>>, <<"nn", 1, 1>>, <<"nn", 2, 1>>}

\* Three functions of two projects; two of them have a kernel k1.
Functions == {<<"nn", "f">>, <<"cv", "f">>, <<"cv", "g">>}
KernelsOf ==
  <<"nn", "f">> :> <<"k1", "k2">> @@ <<"cv", "f">> :> <<"k3">> @@ <<"cv", "g">> :> <<"k4", "k1">>
SizeOf == <<"nn", "f">> :> 1 @@ <<"cv", "f">> :> 2 @@ <<"cv", "g">> :> 1

\* Two platforms, and three devices that differ in everything.
TwoPlatforms == << <<"d1">>, <<"d2", "d3">> >>
VersionOf == "d1" :> 120 @@ "d2" :> 200 @@ "d3" :> 120
PerDimOf == "d1" :> <<2, 2>> @@ "d2" :> <<3>> @@ "d3" :> <<3, 1>>
MaxItemsOf == "d1" :> 3 @@ "d2" :> 3 @@ "d3" :> 2

\* Two GPUs of one vendor differ in their extensions; some have those of another
\* vendor, or one whose name begins with that of another.
Gpus == {"adreno", "mali", "iris", "arc", "other"}
VendorOfGpu ==
  "adreno" :> "QUALCOMM" @@ "mali" :> "ARM" @@ "iris" :> "Intel(R) Corporation" @@
  "arc" :> "Intel" @@ "other" :> "NVIDIA"
ExtensionsOf ==
  "adreno" :> {"cl_qcom_perf_hint", "cl_qcom_priority_hint", "cl_qcom_subgroup_shuffle",
               "cl_khr_fp16", "cl_khr_subgroups"} @@
  "mali" :> {"cl_khr_subgroup_shuffle_relative", "cl_arm_integer_dot_product_accumulate_int8"} @@
  "iris" :> {"cl_intel_subgroups_short", "cl_khr_3d_image_writes"} @@
  "arc" :> {"cl_khr_subgroup_rotate", "cl_khr_integer_dot_product"} @@
  "other" :> {"cl_khr_subgroup_shuffle", "cl_qcom_dot_product8",
              "cl_qcom_perf_hint", "cl_qcom_priority_hint"}
=============================================================================
