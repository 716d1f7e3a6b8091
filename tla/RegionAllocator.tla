-------------------------- MODULE RegionAllocator --------------------------
(***************************************************************************)
(* What a manager of an address range promises: the regions it has handed  *)
(* out and not got back never overlap.  A region is a pair of an address   *)
(* and a size.                                                             *)
(***************************************************************************)
EXTENDS Naturals

CONSTANTS Address, Size

VARIABLE live       \* the regions in the hands of clients

Region == Address \X Size

Cells(r) == r[1]..(r[1] + r[2] - 1)

Init == live = {}

Take(r) ==
  /\ \A q \in live : Cells(q) \cap Cells(r) = {}
  /\ live' = live \cup {r}

Return(r) == r \in live /\ live' = live \ {r}

Next == \E r \in Region : Take(r) \/ Return(r)

Spec == Init /\ [][Next]_live
=============================================================================
