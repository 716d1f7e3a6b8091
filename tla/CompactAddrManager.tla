------------------------- MODULE CompactAddrManager -------------------------
(***************************************************************************)
(* ppl::common::CompactAddrManager (compact_addr_manager.h/.cc) with the   *)
(* provider it grows from: a VMAllocator, which extends one range at its   *)
(* end (CudaBufferedAllocator), or an Allocator, which returns blocks      *)
(* anywhere.  The manager keeps its free blocks in two maps.               *)
(*                                                                         *)
(* Clients ask for Sizes and free what they got.  A block of 0 bytes that  *)
(* comes back is no harm if it touches a free block in front of it or at   *)
(* its own address.  Otherwise it gets into the maps, where the block that *)
(* really starts there finds its place taken: spoilt, the model stops.     *)
(*                                                                         *)
(* Bounds: addresses below Space, MaxInits on the calls of Init, one block *)
(* of 0 bytes at a time.                                                   *)
(***************************************************************************)
EXTENDS CudaBufferedAllocator, BlockMaps

CONSTANTS Kinds,       \* the kinds of providers: "vm", "allocator"
          Space, Sizes, MaxInits

ASSUME KindsAssumption == Kinds \subseteq {"vm", "allocator"}
ASSUME SpaceAssumption == Space \in Nat \ {0}
ASSUME SizesAssumption == Sizes \subseteq Nat
ASSUME MaxInitsAssumption == MaxInits \in Nat

VARIABLES
  kind,         \* which constructor was called
  cuda,         \* the VMAllocator
  owned,        \* history: the addresses the manager has got from its provider
  addr2size,    \* addr2size_: the free blocks by address
  size2addr,    \* size2addr_: the free blocks by size
  live,         \* the regions in the hands of clients
  inits,        \* number of times the provider was set up
  spoilt        \* history: a block of 0 bytes got into the maps

vars == <<kind, cuda, owned, addr2size, size2addr, live, inits, spoilt>>

Address == 0..(Space - 1)

TypeOK ==
  /\ kind \in Kinds
  /\ cuda.total \in 0..Space /\ cuda.buffered \in 0..Space
  /\ cuda.mapped \subseteq Address
  /\ owned \subseteq Address
  /\ DOMAIN addr2size \subseteq Address
  /\ spoilt \in BOOLEAN
  /\ \A a \in DOMAIN addr2size : addr2size[a] \in 1..Space \/ spoilt
  /\ DOMAIN size2addr \subseteq 0..Space
  /\ live \subseteq Address \X Sizes
  /\ inits \in 0..MaxInits

Init ==
  /\ kind \in Kinds
  /\ cuda = NewCuda
  /\ owned = {}
  /\ addr2size = EmptyMap /\ size2addr = EmptyMap
  /\ live = {}
  /\ inits = 0 /\ spoilt = FALSE

-----------------------------------------------------------------------------
Blocks == [a2s |-> addr2size, s2a |-> size2addr]

SetBlocks(b) == addr2size' = b.a2s /\ size2addr' = b.s2a

\* A mutant of AddRest: an empty rest becomes a block as well.
AddRestAlways(b, a, s) == AddFreeBlock(b, a, s)

AddRest(b, a, s) == IF s > 0 THEN AddFreeBlock(b, a, s) ELSE b

(* The block with the largest address, which ends at address end if any does. *)
LastAddr == Max(DOMAIN addr2size)

EndsLast(end) ==
  DOMAIN addr2size # {} /\ LastAddr + addr2size[LastAddr] = end

-----------------------------------------------------------------------------
(* The provider is set up, with an empty manager on top of it. *)
SetUp ==
  /\ inits < MaxInits
  /\ ~cuda.reserved /\ live = {}
  /\ \E total \in IF kind = "vm" THEN (Space - 1)..Space ELSE {0} :
       cuda' = Reserve(cuda, total)
  /\ inits' = inits + 1
  /\ owned' = {}
  /\ SetBlocks(NoBlocks)
  /\ UNCHANGED <<kind, live, spoilt>>

(* When the clients are done the manager and its provider are destroyed. *)
TearDown ==
  /\ cuda.reserved /\ live = {}
  /\ cuda' = Destroyed(cuda)
  /\ owned' = {}
  /\ SetBlocks(NoBlocks)
  /\ UNCHANGED <<kind, live, inits, spoilt>>

(* lower_bound(needed) in size2addr_ *)
Fitting(needed) == {s \in DOMAIN size2addr : s >= needed}

HandOut(a, s) == live' = live \cup {<<a, s>>}

(* Best fit: the lowest of the smallest blocks that are large enough. *)
AllocFromBlock(needed) ==
  /\ Fitting(needed) # {}
  /\ LET s == Min(Fitting(needed))
         a == Min(size2addr[s])
         b == [a2s |-> Erase(addr2size, a),
               s2a |-> RemoveFromSize2Addr(size2addr, a, s)]
     IN  /\ SetBlocks(AddRest(b, a + needed, addr2size[a] - needed))
         /\ HandOut(a, needed)
  /\ UNCHANGED <<kind, cuda, owned, inits, spoilt>>

(* What the provider has to add to a last block that ends at its end. *)
Missing(needed, end) ==
  IF EndsLast(end) THEN needed - addr2size[LastAddr] ELSE needed

(***************************************************************************)
(* AllocByVMAllocator.  If Extend returns 0, as for 0 bytes, nothing       *)
(* changes and Alloc returns UINTPTR_MAX: a stuttering step.               *)
(***************************************************************************)
AllocByVMAllocator(needed) ==
  /\ kind = "vm"
  /\ Fitting(needed) = {}
  /\ LET end == cuda.buffered
         missing == Missing(needed, end)
         addr == IF EndsLast(end) THEN LastAddr ELSE end
         b == IF EndsLast(end) THEN RemoveBlock(Blocks, LastAddr) ELSE Blocks
     IN  /\ missing > 0 /\ ExtendFits(cuda, missing)
         /\ cuda' = Extended(cuda, missing)
         /\ owned' = owned \cup end..(end + Align(missing) - 1)
         /\ SetBlocks(AddRest(b, end + missing, Align(missing) - missing))
         /\ HandOut(addr, needed)
  /\ UNCHANGED <<kind, inits, spoilt>>

(* What Allocator::Alloc may return: free addresses, and maybe one too many. *)
Provided(needed) ==
  {p \in Address \X (needed..(needed + 1)) :
     p[1] + p[2] <= Space /\ Bytes(p[1], p[2]) \cap owned = {}}

AllocByAllocator(needed) ==
  /\ kind = "allocator"
  /\ Fitting(needed) = {}
  /\ \E p \in Provided(needed) :
       /\ owned' = owned \cup p[1]..(p[1] + p[2] - 1)
       /\ IF EndsLast(p[1])
            THEN /\ SetBlocks(AddFreeBlock(RemoveBlock(Blocks, LastAddr),
                                LastAddr + needed,
                                addr2size[LastAddr] + p[2] - needed))
                 /\ HandOut(LastAddr, needed)
            ELSE /\ SetBlocks(AddRest(Blocks, p[1] + needed, p[2] - needed))
                 /\ HandOut(p[1], needed)
  /\ UNCHANGED <<kind, cuda, inits, spoilt>>

Free(a, s) ==
  /\ <<a, s>> \in live
  /\ SetBlocks(AddMerged(Blocks, a, s))
  /\ live' = live \ {<<a, s>>}
  /\ spoilt' = (s = 0 /\ AddMerged(Blocks, a, s) # Blocks)
  /\ UNCHANGED <<kind, cuda, owned, inits>>

Alloc(needed) ==
  /\ cuda.reserved
  /\ needed = 0 => \A r \in live : r[2] # 0
  /\ \/ AllocFromBlock(needed)
     \/ AllocByVMAllocator(needed)
     \/ AllocByAllocator(needed)

Next ==
  /\ ~spoilt
  /\ \/ SetUp \/ TearDown
     \/ \E n \in Sizes : Alloc(n)
     \/ \E r \in live : Free(r[1], r[2])

Spec == Init /\ [][Next]_vars

-----------------------------------------------------------------------------
LiveBytes == UNION {Bytes(r[1], r[2]) : r \in live}

(***************************************************************************)
(* The two maps hold the same blocks although they are changed one after   *)
(* the other (compact_addr_manager.cc:23-38).  What the provider gave is   *)
(* in one free block or live, never both: splitting and merging loses      *)
(* nothing.  On a VMAllocator (67-96) free neighbours are always merged.   *)
(* All this with blocks of 0 bytes too, until one gets into the maps.      *)
(***************************************************************************)
BlocksKept ==
  /\ Agree(Blocks)
  /\ Disjoint(Blocks)
  /\ BytesIn(Blocks) \cup LiveBytes = owned
  /\ BytesIn(Blocks) \cap LiveBytes = {}
  /\ kind = "vm" /\ ~spoilt => Merged(Blocks)

R == INSTANCE RegionAllocator WITH Size <- Sizes

(* The manager hands out regions that do not overlap. *)
ImplementsRegions == R!Spec

(***************************************************************************)
(* Over CudaBufferedAllocator every region handed out is mapped memory     *)
(* (cuda_buffered_allocator.cc:120-122), also when the allocator is used   *)
(* again after Destroy with the old value of buffered_bytes_.  Destroy     *)
(* (28-60) leaves nothing mapped, but after the first use only: later the  *)
(* range it unmaps is not mapped from its start.                           *)
(***************************************************************************)
MappedWhileLive ==
  kind = "vm" =>
    /\ LiveBytes \subseteq cuda.mapped
    /\ inits = 1 /\ ~cuda.reserved => cuda.mapped = {}
=============================================================================
