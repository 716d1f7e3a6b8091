----------------------------- MODULE ObjectPool -----------------------------
(***************************************************************************)
(* ppl::common::ObjectPool (object_pool.h).  Every operation runs under    *)
(* the pool's lock, and is one step.  An object is a slab and its index in *)
(* the slab; the allocator may return the address of a slab freed before.  *)
(*                                                                         *)
(* Clients free each object once, and drop what they hold when they call   *)
(* Clear.                                                                  *)
(*                                                                         *)
(* Bounds: the allocator has the slabs in Slab; PreallocNum is 32 in the   *)
(* code.                                                                   *)
(***************************************************************************)
EXTENDS Naturals, Sequences, Functions

CONSTANTS Slab, PreallocNum

VARIABLES
  slabs,      \* slabs_, as a set
  free,       \* free_objects_, a stack
  live        \* the objects in the hands of clients

vars == <<slabs, free, live>>

Object == Slab \X (1..PreallocNum)

TypeOK ==
  /\ slabs \subseteq Slab
  /\ free \in Seq(Object)
  /\ live \subseteq Object

(* What Reserve pushes. *)
Stack(slab) == [i \in 1..PreallocNum |-> <<slab, i>>]

(* The constructor reserves a slab, unless malloc fails. *)
Init ==
  /\ \/ slabs = {} /\ free = <<>>
     \/ \E slab \in Slab : slabs = {slab} /\ free = Stack(slab)
  /\ live = {}

Pop(stack) ==
  /\ free' = SubSeq(stack, 1, Len(stack) - 1)
  /\ live' = live \cup {stack[Len(stack)]}

AllocFree == free # <<>> /\ Pop(free) /\ UNCHANGED slabs

(* Alloc with an empty stack; if malloc fails it returns nullptr. *)
AllocReserve ==
  /\ free = <<>>
  /\ \E slab \in Slab \ slabs :
       /\ slabs' = slabs \cup {slab}
       /\ Pop(Stack(slab))

Free(o) ==
  /\ o \in live
  /\ live' = live \ {o}
  /\ free' = Append(free, o)
  /\ UNCHANGED slabs

\* A mutant of Cleared: the stack keeps its objects.
ClearedButStack == slabs' = {} /\ UNCHANGED free

Cleared == slabs' = {} /\ free' = <<>>

Clear == Cleared /\ live' = {}

Next == AllocFree \/ AllocReserve \/ Clear \/ \E o \in live : Free(o)

Spec == Init /\ [][Next]_vars

(***************************************************************************)
(* Every object of a slab is on the stack once or in the hands of a        *)
(* client, and nothing else is: no object is handed out twice, lost, or    *)
(* left over from a slab that Clear has freed (object_pool.h:38-87).       *)
(***************************************************************************)
ObjectsKept ==
  /\ IsInjective(free)
  /\ Range(free) \cap live = {}
  /\ Range(free) \cup live = slabs \X (1..PreallocNum)
=============================================================================
