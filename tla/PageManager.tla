---------------------------- MODULE PageManager ----------------------------
(***************************************************************************)
(* ppl::common::PageManager (page_manager.h/.cc).  It hands out pages, one *)
(* by one in a list, from the largest free blocks first; a page is known   *)
(* to clients by its offset, the page number times the page size.          *)
(*                                                                         *)
(* Init is called once.  Clients ask for any number of pages, and free any *)
(* pages they hold, in any order.                                          *)
(*                                                                         *)
(* Bounds: at most Pages pages, of a size in PageSizes.                    *)
(***************************************************************************)
EXTENDS BlockMaps, Sequences, Functions

CONSTANTS Pages, PageSizes

VARIABLES
  max, used, pageSize,     \* max_, used_, page_size_
  blocks,                  \* addr2size_ and size2addr_, in pages
  held                     \* the offsets in the hands of clients

vars == <<max, used, pageSize, blocks, held>>

Page == 0..(Pages - 1)
PageNumbers == {o \div pageSize : o \in held}

TypeOK ==
  /\ max \in 0..Pages
  /\ used \in 0..max
  /\ pageSize \in PageSizes \cup {0}
  /\ DOMAIN blocks.a2s \subseteq Page
  /\ \A a \in DOMAIN blocks.a2s : blocks.a2s[a] \in 1..(max - a)
  /\ held \subseteq {p * pageSize : p \in Page}

Init ==
  /\ max = 0 /\ used = 0 /\ pageSize = 0
  /\ blocks = NoBlocks
  /\ held = {}

(* PageManager::Init; it divides the size it is given by the page size. *)
SetUp ==
  /\ max = 0
  /\ \E n \in 1..Pages, size \in PageSizes :
       /\ max' = n
       /\ pageSize' = size
       /\ blocks' = AddFreeBlock(NoBlocks, 0, n)
  /\ UNCHANGED <<used, held>>

-----------------------------------------------------------------------------
(* The first free block in the order of size2addr_: a largest one *)
FirstBlock(b) ==
  LET size == Max(DOMAIN b.s2a) IN <<Min(b.s2a[size]), size>>

RemoveFreeBlock(b, a, s) ==
  [a2s |-> Erase(b.a2s, a), s2a |-> RemoveFromSize2Addr(b.s2a, a, s)]

\* A mutant of KeepRest: the block that is split keeps its first pages.
KeepFirst(b, a, n, size) ==
  IF n < size THEN AddFreeBlock(b, a, size - n) ELSE b

(* What is left of a block of which n pages are taken. *)
KeepRest(b, a, n, size) ==
  IF n < size THEN AddFreeBlock(b, a + n, size - n) ELSE b

(* One block of the loop in Alloc: all of it, or as much as is missing. A  *)
(* block that is taken is removed at once, so that the next is the first.  *)
TakeFrom(acc) ==
  LET block == FirstBlock(acc.blocks)
      a == block[1]
      n == Min({acc.rest, block[2]})
  IN  IF acc.rest = 0 THEN acc
      ELSE [rest |-> acc.rest - n,
            pages |-> acc.pages \cup a..(a + n - 1),
            blocks |-> KeepRest(RemoveFreeBlock(acc.blocks, a, block[2]),
                                a, n, block[2])]

Avail == max - used

(* With too few pages left Alloc changes nothing. *)
Alloc(needed) ==
  /\ needed <= Avail
  /\ LET taken[i \in 0..needed] ==
           IF i = 0 THEN [rest |-> needed, pages |-> {}, blocks |-> blocks]
           ELSE TakeFrom(taken[i - 1])
     IN  /\ blocks' = taken[needed].blocks
         /\ held' = held \cup {p * pageSize : p \in taken[needed].pages}
  /\ used' = used + needed
  /\ UNCHANGED <<max, pageSize>>

-----------------------------------------------------------------------------
AddMergeFreeBlock(b, page, size) == AddMerged(b, page, size)

Closed(acc) == AddMergeFreeBlock(acc.blocks, acc.start \div pageSize, acc.size)

(* Offsets that differ by 1 are collected, which pages of size 1 do only. *)
Collect(acc, offset) ==
  IF offset = acc.prev + 1
    THEN [acc EXCEPT !.size = @ + 1, !.prev = offset]
    ELSE [blocks |-> Closed(acc), start |-> offset, prev |-> offset, size |-> 1]

Free(list) ==
  /\ list # <<>>
  /\ LET run[i \in 1..Len(list)] ==
           IF i = 1
             THEN [blocks |-> blocks, start |-> list[1], prev |-> list[1], size |-> 1]
             ELSE Collect(run[i - 1], list[i])
     IN  blocks' = Closed(run[Len(list)])
  /\ held' = held \ Range(list)
  /\ used' = used - Len(list)
  /\ UNCHANGED <<max, pageSize>>

Next ==
  \/ SetUp
  \/ \E n \in 1..Pages : Alloc(n)
  \/ \E returned \in SUBSET held : \E list \in Injection(1..Cardinality(returned), returned) :
                                   Free(list)

Spec == Init /\ [][Next]_vars

-----------------------------------------------------------------------------
(***************************************************************************)
(* Each page is in one free block or in the hands of a client, not both,   *)
(* and used_ says how many are in use: Alloc (89-145) never gives less     *)
(* than it was asked for although it only compares GetAvail().  In         *)
(* whatever order pages come back (146-166), blocks that touch become one. *)
(***************************************************************************)
PagesKept ==
  /\ Agree(blocks)
  /\ Disjoint(blocks)
  /\ BytesIn(blocks) \cup PageNumbers = 0..(max - 1)
  /\ BytesIn(blocks) \cap PageNumbers = {}
  /\ used = Cardinality(held)
  /\ Merged(blocks)
=============================================================================
