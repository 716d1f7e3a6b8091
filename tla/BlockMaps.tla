----------------------------- MODULE BlockMaps -----------------------------
(***************************************************************************)
(* The two maps in which CompactAddrManager and PageManager keep their     *)
(* free blocks, as a record b: b.a2s is addr2size_, the size of each block *)
(* by its address, and b.s2a is size2addr_, the addresses of the blocks of *)
(* each size.                                                              *)
(***************************************************************************)
EXTENDS Naturals, FiniteSets, FiniteSetsExt

EmptyMap == [x \in {} |-> 0]
NoBlocks == [a2s |-> EmptyMap, s2a |-> EmptyMap]

Erase(f, k) == [x \in DOMAIN f \ {k} |-> f[x]]
Assign(f, k, v) == [x \in DOMAIN f \cup {k} |-> IF x = k THEN v ELSE f[x]]

RemoveFromSize2Addr(s2a, a, s) ==
  IF s \notin DOMAIN s2a THEN s2a
  ELSE IF s2a[s] \subseteq {a} THEN Erase(s2a, s)
  ELSE [s2a EXCEPT ![s] = @ \ {a}]

(* size2addr->insert of an empty set, which leaves an existing one alone *)
AddToSize2Addr(s2a, a, s) ==
  Assign(s2a, s, {a} \cup IF s \in DOMAIN s2a THEN s2a[s] ELSE {})

(* addr2size->insert leaves an existing entry alone *)
AddFreeBlock(b, a, s) ==
  [a2s |-> IF a \in DOMAIN b.a2s THEN b.a2s ELSE Assign(b.a2s, a, s),
   s2a |-> AddToSize2Addr(b.s2a, a, s)]

RemoveBlock(b, a) ==
  [a2s |-> Erase(b.a2s, a),
   s2a |-> RemoveFromSize2Addr(b.s2a, a, b.a2s[a])]

\* A mutant of MergeNext: the block behind is not removed.
MergeNextKeeps(b, a, s) ==
  [blocks |-> b,
   size |-> IF a + s \in DOMAIN b.a2s THEN s + b.a2s[a + s] ELSE s]

(* Free merges with the block behind ... *)
MergeNext(b, a, s) ==
  IF a + s \in DOMAIN b.a2s
    THEN [blocks |-> RemoveBlock(b, a + s), size |-> s + b.a2s[a + s]]
    ELSE [blocks |-> b, size |-> s]

(* ... and with the one in front, which lower_bound finds. *)
Predecessors(b, a) == {p \in DOMAIN b.a2s : p < a}

\* A mutant of MergePrevious: the block in front stays under its old size.
MergePreviousKeepsSize(b, a, s) ==
  LET p == Max(Predecessors(b, a))
      sum == b.a2s[p] + s
  IN  IF Predecessors(b, a) # {} /\ p + b.a2s[p] = a
        THEN [a2s |-> [b.a2s EXCEPT ![p] = sum],
              s2a |-> AddToSize2Addr(b.s2a, p, sum)]
        ELSE AddFreeBlock(b, a, s)

MergePrevious(b, a, s) ==
  LET p == Max(Predecessors(b, a))
      sum == b.a2s[p] + s
  IN  IF Predecessors(b, a) # {} /\ p + b.a2s[p] = a
        THEN [a2s |-> [b.a2s EXCEPT ![p] = sum],
              s2a |-> AddToSize2Addr(RemoveFromSize2Addr(b.s2a, p, b.a2s[p]),
                                     p, sum)]
        ELSE AddFreeBlock(b, a, s)

AddMerged(b, a, s) ==
  LET m == MergeNext(b, a, s)
  IN  MergePrevious(m.blocks, a, m.size)

-----------------------------------------------------------------------------
(* For the properties *)

(* The maps hold the same blocks, and no size maps to an empty set. *)
Agree(b) ==
  /\ \A a \in DOMAIN b.a2s :
       b.a2s[a] \in DOMAIN b.s2a /\ a \in b.s2a[b.a2s[a]]
  /\ \A s \in DOMAIN b.s2a :
       /\ b.s2a[s] # {}
       /\ \A a \in b.s2a[s] : a \in DOMAIN b.a2s /\ b.a2s[a] = s

Bytes(a, s) == a..(a + s - 1)

BytesIn(b) == UNION {Bytes(a, b.a2s[a]) : a \in DOMAIN b.a2s}

(* No byte is in two blocks. *)
Disjoint(b) ==
  \A a, c \in DOMAIN b.a2s :
    a # c => Bytes(a, b.a2s[a]) \cap Bytes(c, b.a2s[c]) = {}

(* No block ends where another begins. *)
Merged(b) == \A a \in DOMAIN b.a2s : a + b.a2s[a] \notin DOMAIN b.a2s
=============================================================================
