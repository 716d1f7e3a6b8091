----------------------- MODULE CudaBufferedAllocator -----------------------
(***************************************************************************)
(* ppl::common::CudaBufferedAllocator (cuda/cuda_buffered_allocator.h/.cc) *)
(* as a record, and the effect of its operations on it.  Addresses are     *)
(* relative to addr_.                                                      *)
(*                                                                         *)
(*   reserved   whether an address range is reserved (addr_ # 0)           *)
(*   total      total_bytes_                                               *)
(*   buffered   buffered_bytes_                                            *)
(*   handles    the number of elements of handle_list_                     *)
(*   mapped     the addresses that are mapped to memory                    *)
(***************************************************************************)
EXTENDS Naturals

CONSTANT Granularity     \* granularity_, as the driver tells it

ASSUME GranularityAssumption == Granularity \in Nat \ {0}

NewCuda ==
  [reserved |-> FALSE, total |-> 0, buffered |-> 0, handles |-> 0, mapped |-> {}]

(* (x + n - 1) & ~(n - 1), for granularities that are powers of two *)
Align(x) == ((x + Granularity - 1) \div Granularity) * Granularity

\* Init reserves a new range; buffered_bytes_ is left as it is.
Reserve(c, total) ==
  [c EXCEPT !.reserved = TRUE, !.total = total, !.mapped = {}]

\* A mutant of Chunk: only what was asked for is mapped.
ChunkUnaligned(c, bytes) == c.buffered..(c.buffered + bytes - 1)

\* The addresses Extend maps: right after those it has mapped before.
Chunk(c, bytes) == c.buffered..(c.buffered + Align(bytes) - 1)

\* Extend returns 0 unless this holds, or if the driver refuses.
ExtendFits(c, bytes) == Align(bytes) + c.buffered <= c.total

Extended(c, bytes) ==
  [c EXCEPT !.buffered = @ + Align(bytes),
            !.handles = @ + 1,
            !.mapped = @ \cup Chunk(c, bytes)]

(***************************************************************************)
(* Destroy: one cuMemUnmap, which fails unless the whole range is mapped,  *)
(* and the handles.  buffered_bytes_ is left as it is.                     *)
(***************************************************************************)
Destroyed(c) ==
  [c EXCEPT !.reserved = FALSE,
            !.handles = 0,
            !.mapped = IF c.handles > 0 /\ 0..(c.buffered - 1) \subseteq @
                         THEN @ \ 0..(c.buffered - 1) ELSE @]
=============================================================================
