-------------------------- MODULE Utilities_proofs --------------------------
(***************************************************************************)
(* CompactAddrManager.  For every address space, every set of sizes, every *)
(* granularity and both kinds of providers: the two maps hold the same     *)
(* blocks, no byte is lost or owned twice, and regions never overlap.      *)
(* The operations on the maps (BlockMaps) are proved on their own: what    *)
(* they do to the bytes of the blocks and that they keep the maps in step. *)
(* The invariant then only speaks of sets of bytes: those of the blocks    *)
(* and of the live regions are a partition of what the provider gave.      *)
(*                                                                         *)
(* PageManager uses the same maps and the same lemmas.  Its loops, over    *)
(* blocks and over the pages given back, are functions f of the number of  *)
(* rounds; what holds of f[i] after i rounds is proved as the set of those *)
(* i that it holds of (Induction, in Lemmas).  So are the products of      *)
(* TensorShape.                                                            *)
(*                                                                         *)
(* ObjectPool, Mmap, TensorShape, WindowsThreads, Logger and CpuInfo have  *)
(* an invariant each, and a section.  The last section puts all together:  *)
(* a step of one part leaves the variables of the others alone.            *)
(***************************************************************************)
EXTENDS Utilities, Lemmas

(* A map of non-empty blocks, in which a block of 0 bytes may be added. *)
Sized(b) == \A a \in DOMAIN b.a2s : a \in Nat /\ b.a2s[a] \in Nat
Positive(b) == \A a \in DOMAIN b.a2s : b.a2s[a] > 0
Valid(b) == Agree(b) /\ Disjoint(b) /\ Sized(b)
Good(b) == Valid(b) /\ Positive(b)

-----------------------------------------------------------------------------
(* Least and greatest elements *)

LEMMA Least ==
  ASSUME NEW S \in SUBSET Nat, S # {}
  PROVE  Min(S) \in S /\ \A x \in S : Min(S) <= x
<1> DEFINE Q == {x \in Nat : \A y \in S : x <= y}
<1>1. ASSUME \A x \in S : \E y \in S : ~(x <= y) PROVE FALSE
  <2>1. 0 \in Q /\ \A x \in Q : x + 1 \in Q
    BY <1>1
  <2>2. Q = Nat
    BY <2>1, Induction
  <2>3. PICK s \in S : TRUE
    OBVIOUS
  <2>4. s + 1 \in Q
    <3>1. s + 1 \in Nat
      OBVIOUS
    <3> HIDE DEF Q
    <3> QED BY <2>2, <3>1
  <2> QED BY <2>4
<1>2. \E x \in S : \A y \in S : x <= y
  BY <1>1
<1> QED BY <1>2 DEF Min

LEMMA Greatest ==
  ASSUME NEW n \in Nat, NEW S \in SUBSET (0..n), S # {}
  PROVE  Max(S) \in S /\ \A x \in S : x <= Max(S)
<1> DEFINE D == {x \in 0..n : n - x \in S}
<1>1. D \in SUBSET Nat /\ D # {}
  <2>1. PICK s \in S : TRUE
    OBVIOUS
  <2>2. n - s \in D
    BY <2>1
  <2> QED BY <2>2
<1>2. PICK y \in D : \A z \in D : y <= z
  <2> HIDE DEF D
  <2> QED BY <1>1, Least
<1>3. n - y \in S
  BY <1>2
<1>4. ASSUME NEW z \in S PROVE n - y >= z
  <2>1. z \in 0..n /\ n - z \in D
    OBVIOUS
  <2>2. y <= n - z
    BY <1>2, <2>1
  <2>3. y \in 0..n
    BY <1>2
  <2> QED BY <2>1, <2>2, <2>3
<1>5. \E x \in S : \A z \in S : x >= z
  BY <1>3, <1>4
<1> QED BY <1>5 DEF Max

-----------------------------------------------------------------------------
(* The two maps *)

LEMMA BytesOf ==
  ASSUME NEW b
  PROVE  \A y : y \in BytesIn(b) <=> \E a \in DOMAIN b.a2s : y \in Bytes(a, b.a2s[a])
BY DEF BytesIn

LEMMA RemoveAgrees ==
  ASSUME NEW b, Agree(b), NEW a \in DOMAIN b.a2s
  PROVE  LET r == RemoveBlock(b, a) IN
         /\ Agree(r)
         /\ DOMAIN r.a2s = DOMAIN b.a2s \ {a}
         /\ \A x \in DOMAIN r.a2s : r.a2s[x] = b.a2s[x]
<1> DEFINE r == RemoveBlock(b, a)
           s == b.a2s[a]
<1>1. /\ DOMAIN r.a2s = DOMAIN b.a2s \ {a}
      /\ \A x \in DOMAIN r.a2s : r.a2s[x] = b.a2s[x]
      /\ r.s2a = RemoveFromSize2Addr(b.s2a, a, s)
  BY DEF RemoveBlock, Erase
<1>2. s \in DOMAIN b.s2a /\ a \in b.s2a[s]
  BY DEF Agree
<1>3. \A z \in DOMAIN r.s2a : z \in DOMAIN b.s2a /\ r.s2a[z] = b.s2a[z] \ {a} /\ r.s2a[z] # {}
  BY <1>1, <1>2 DEF RemoveFromSize2Addr, Erase, Agree
<1>4. \A z \in DOMAIN b.s2a : b.s2a[z] \ {a} # {} => z \in DOMAIN r.s2a
  BY <1>1, <1>2 DEF RemoveFromSize2Addr, Erase
<1>5. Agree(r)
  <2>1. ASSUME NEW x \in DOMAIN r.a2s PROVE r.a2s[x] \in DOMAIN r.s2a /\ x \in r.s2a[r.a2s[x]]
    <3>1. x \in DOMAIN b.a2s /\ x # a /\ r.a2s[x] = b.a2s[x]
      BY <1>1, <2>1
    <3>2. b.a2s[x] \in DOMAIN b.s2a /\ x \in b.s2a[b.a2s[x]] \ {a}
      BY <3>1 DEF Agree
    <3> HIDE DEF r
    <3> QED BY <1>3, <1>4, <3>1, <3>2
  <2>2. ASSUME NEW z \in DOMAIN r.s2a PROVE \A x \in r.s2a[z] : x \in DOMAIN r.a2s /\ r.a2s[x] = z
    <3> HIDE DEF r
    <3> QED BY <1>1, <1>3, <2>2 DEF Agree
  <2> QED BY <1>3, <2>1, <2>2 DEF Agree
<1> QED BY <1>1, <1>5

LEMMA AddAgrees ==
  ASSUME NEW b, Agree(b), NEW a, a \notin DOMAIN b.a2s, NEW s
  PROVE  LET r == AddFreeBlock(b, a, s) IN
         /\ Agree(r)
         /\ DOMAIN r.a2s = DOMAIN b.a2s \cup {a}
         /\ r.a2s[a] = s /\ \A x \in DOMAIN b.a2s : r.a2s[x] = b.a2s[x]
<1> DEFINE r == AddFreeBlock(b, a, s)
<1>1. /\ DOMAIN r.a2s = DOMAIN b.a2s \cup {a}
      /\ r.a2s[a] = s /\ \A x \in DOMAIN b.a2s : r.a2s[x] = b.a2s[x]
      /\ r.s2a = AddToSize2Addr(b.s2a, a, s)
  BY DEF AddFreeBlock, Assign
<1>2. DOMAIN r.s2a = DOMAIN b.s2a \cup {s}
  BY <1>1 DEF AddToSize2Addr, Assign
<1>3. /\ a \in r.s2a[s]
      /\ \A x \in r.s2a[s] : x = a \/ (s \in DOMAIN b.s2a /\ x \in b.s2a[s])
      /\ s \in DOMAIN b.s2a => b.s2a[s] \subseteq r.s2a[s]
  BY <1>1 DEF AddToSize2Addr, Assign
<1>4. \A z \in DOMAIN b.s2a : z # s => r.s2a[z] = b.s2a[z]
  BY <1>1 DEF AddToSize2Addr, Assign
<1>5. Agree(r)
  <2> HIDE DEF r
  <2> QED BY <1>1, <1>2, <1>3, <1>4 DEF Agree
<1> QED BY <1>1, <1>5

LEMMA Remove ==
  ASSUME NEW b, Good(b), NEW a \in DOMAIN b.a2s
  PROVE  LET r == RemoveBlock(b, a) IN
         /\ Good(r)
         /\ DOMAIN r.a2s = DOMAIN b.a2s \ {a}
         /\ \A x \in DOMAIN r.a2s : r.a2s[x] = b.a2s[x]
         /\ BytesIn(r) = BytesIn(b) \ Bytes(a, b.a2s[a])
         /\ Merged(b) => Merged(r)
<1> DEFINE r == RemoveBlock(b, a)
<1>1. /\ Agree(r) /\ DOMAIN r.a2s = DOMAIN b.a2s \ {a}
      /\ \A x \in DOMAIN r.a2s : r.a2s[x] = b.a2s[x]
  BY RemoveAgrees DEF Good, Valid
<1> HIDE DEF r
<1>2. Good(r)
  BY <1>1 DEF Good, Valid, Disjoint, Sized, Positive
<1>3. BytesIn(r) = BytesIn(b) \ Bytes(a, b.a2s[a])
  <2>1. ASSUME NEW y \in BytesIn(r) PROVE y \in BytesIn(b) /\ y \notin Bytes(a, b.a2s[a])
    <3>1. PICK x \in DOMAIN r.a2s : y \in Bytes(x, r.a2s[x])
      BY <2>1, BytesOf
    <3> QED BY <1>1, <3>1, BytesOf DEF Good, Valid, Disjoint
  <2>2. ASSUME NEW y \in BytesIn(b), y \notin Bytes(a, b.a2s[a]) PROVE y \in BytesIn(r)
    <3>1. PICK x \in DOMAIN b.a2s : y \in Bytes(x, b.a2s[x])
      BY <2>2, BytesOf
    <3> QED BY <1>1, <2>2, <3>1, BytesOf
  <2> QED BY <2>1, <2>2
<1>4. Merged(b) => Merged(r)
  BY <1>1 DEF Merged
<1> QED BY <1>1, <1>2, <1>3, <1>4 DEF r

LEMMA Add ==
  ASSUME NEW b, Valid(b), NEW a \in Nat, NEW s \in Nat, a \notin DOMAIN b.a2s,
         Bytes(a, s) \cap BytesIn(b) = {}
  PROVE  LET r == AddFreeBlock(b, a, s) IN
         /\ Valid(r) /\ (Positive(b) /\ s > 0 => Positive(r))
         /\ DOMAIN r.a2s = DOMAIN b.a2s \cup {a}
         /\ BytesIn(r) = BytesIn(b) \cup Bytes(a, s)
         /\ Merged(b) /\ s > 0 /\ a + s \notin DOMAIN b.a2s
              /\ (\A x \in DOMAIN b.a2s : x + b.a2s[x] # a) => Merged(r)
<1> DEFINE r == AddFreeBlock(b, a, s)
<1>1. /\ Agree(r) /\ DOMAIN r.a2s = DOMAIN b.a2s \cup {a}
      /\ r.a2s[a] = s /\ \A x \in DOMAIN b.a2s : r.a2s[x] = b.a2s[x]
  BY AddAgrees DEF Valid
<1> HIDE DEF r
<1>2. Disjoint(r)
  <2>1. \A x \in DOMAIN b.a2s : Bytes(x, b.a2s[x]) \subseteq BytesIn(b)
    BY BytesOf
  <2> QED BY <1>1, <2>1 DEF Valid, Disjoint
<1>3. Sized(r) /\ (Positive(b) /\ s > 0 => Positive(r))
  BY <1>1 DEF Valid, Sized, Positive
<1>4. BytesIn(r) = BytesIn(b) \cup Bytes(a, s)
  <2>1. \A y : y \in BytesIn(r) <=> y \in BytesIn(b) \/ y \in Bytes(a, s)
    BY <1>1, BytesOf
  <2> QED BY <2>1
<1>5. Merged(b) /\ s > 0 /\ a + s \notin DOMAIN b.a2s
        /\ (\A x \in DOMAIN b.a2s : x + b.a2s[x] # a) => Merged(r)
  BY <1>1 DEF Merged
<1> QED BY <1>1, <1>2, <1>3, <1>4, <1>5 DEF Valid, r

LEMMA MergesPrevious ==
  ASSUME NEW b, Good(b), NEW a \in Nat, NEW s \in Nat, a \notin DOMAIN b.a2s,
         Bytes(a, s) \cap BytesIn(b) = {}
  PROVE  LET r == MergePrevious(b, a, s) IN
         /\ Valid(r) /\ (s > 0 => Positive(r))
         /\ DOMAIN r.a2s \subseteq DOMAIN b.a2s \cup {a}
         /\ BytesIn(r) = BytesIn(b) \cup Bytes(a, s)
         /\ Merged(b) /\ s > 0 /\ a + s \notin DOMAIN b.a2s => Merged(r)
<1> DEFINE front == Predecessors(b, a)
           p == Max(front)
           sum == b.a2s[p] + s
           r == MergePrevious(b, a, s)
<1>0. Sized(b) /\ Positive(b) /\ Valid(b)
  BY DEF Good, Valid
<1>1. front # {} => p \in DOMAIN b.a2s /\ p < a /\ \A x \in front : x <= p
  <2>1. front \in SUBSET (0..a)
    BY <1>0 DEF Predecessors, Sized
  <2> SUFFICES ASSUME front # {} PROVE p \in DOMAIN b.a2s /\ p < a /\ \A x \in front : x <= p
    OBVIOUS
  <2>2. p \in front /\ \A x \in front : x <= p
    <3> HIDE DEF front
    <3> QED BY <2>1, Greatest
  <2> QED BY <2>2 DEF Predecessors
<1>2. CASE front # {} /\ p + b.a2s[p] = a
  <2> DEFINE c == RemoveBlock(b, p)
  <2>0. p \in DOMAIN b.a2s /\ p \in Nat /\ b.a2s[p] \in Nat /\ b.a2s[p] > 0 /\ sum \in Nat /\ sum > 0
        /\ p + sum = a + s
    BY <1>0, <1>1, <1>2 DEF Sized, Positive
  <2>1. /\ Good(c) /\ DOMAIN c.a2s = DOMAIN b.a2s \ {p}
        /\ \A x \in DOMAIN c.a2s : c.a2s[x] = b.a2s[x]
        /\ BytesIn(c) = BytesIn(b) \ Bytes(p, b.a2s[p])
        /\ Merged(b) => Merged(c)
    BY <2>0, Remove
  <2>2. r = AddFreeBlock(c, p, sum)
    <3>1. r = [a2s |-> [b.a2s EXCEPT ![p] = sum],
               s2a |-> AddToSize2Addr(RemoveFromSize2Addr(b.s2a, p, b.a2s[p]), p, sum)]
      BY <1>2 DEF MergePrevious
    <3>2. AddFreeBlock(c, p, sum) =
            [a2s |-> Assign(c.a2s, p, sum), s2a |-> AddToSize2Addr(c.s2a, p, sum)]
      BY <2>1 DEF AddFreeBlock
    <3>3. [b.a2s EXCEPT ![p] = sum] = Assign(c.a2s, p, sum)
      <4> HIDE DEF c, sum, p
      <4>1. DOMAIN Assign(c.a2s, p, sum) = DOMAIN b.a2s
        BY <2>0, <2>1 DEF Assign
      <4>2. \A x \in DOMAIN b.a2s :
              Assign(c.a2s, p, sum)[x] = [b.a2s EXCEPT ![p] = sum][x]
        BY <2>0, <2>1 DEF Assign
      <4> QED BY <2>0, <2>1, <4>1, <4>2 DEF Assign
    <3>4. c.s2a = RemoveFromSize2Addr(b.s2a, p, b.a2s[p])
      BY DEF RemoveBlock
    <3> QED BY <3>1, <3>2, <3>3, <3>4
  <2> HIDE DEF c, r, sum, p
  <2>3. Bytes(p, sum) = Bytes(p, b.a2s[p]) \cup Bytes(a, s)
        /\ Bytes(p, b.a2s[p]) \subseteq BytesIn(b)
    BY <1>2, <2>0, BytesOf DEF Bytes, sum
  <2>4. Bytes(p, sum) \cap BytesIn(c) = {}
    BY <2>1, <2>3
  <2>5. Merged(b) => \A x \in DOMAIN c.a2s : x + c.a2s[x] # p
    BY <2>0, <2>1 DEF Merged
  <2>6. Valid(c) /\ Positive(c) /\ p \notin DOMAIN c.a2s
    BY <2>1 DEF Good
  <2>7. /\ Valid(r) /\ Positive(r)
        /\ DOMAIN r.a2s = DOMAIN c.a2s \cup {p}
        /\ BytesIn(r) = BytesIn(c) \cup Bytes(p, sum)
        /\ Merged(c) /\ p + sum \notin DOMAIN c.a2s
              /\ (\A x \in DOMAIN c.a2s : x + c.a2s[x] # p) => Merged(r)
    BY <2>0, <2>2, <2>4, <2>6, Add
  <2> QED BY <2>0, <2>1, <2>3, <2>5, <2>7 DEF r
<1>3. CASE ~(front # {} /\ p + b.a2s[p] = a)
  <2>1. r = AddFreeBlock(b, a, s)
    BY <1>3 DEF MergePrevious
  <2>2. ASSUME NEW x \in DOMAIN b.a2s, x + b.a2s[x] = a PROVE FALSE
    <3>1. x \in Nat /\ b.a2s[x] \in Nat /\ b.a2s[x] > 0 /\ x \in front
      BY <1>0, <2>2 DEF Sized, Positive, Predecessors
    <3>2. p \in Nat /\ x < p /\ p < a /\ p \in DOMAIN b.a2s /\ b.a2s[p] \in Nat /\ b.a2s[p] > 0
      BY <1>0, <1>1, <1>3, <2>2, <3>1 DEF Sized, Positive
    <3> HIDE DEF p
    <3>3. p \in Bytes(p, b.a2s[p]) /\ p \in Bytes(x, b.a2s[x])
      BY <2>2, <3>1, <3>2 DEF Bytes
    <3> QED BY <1>0, <3>2, <3>3 DEF Valid, Disjoint
  <2> QED BY <1>0, <2>1, <2>2, Add
<1> QED BY <1>2, <1>3

(* What Free does to the maps: a block of 0 bytes at most becomes one.     *)
LEMMA AddsMerged ==
  ASSUME NEW b, Good(b), NEW a \in Nat, NEW s \in Nat, Bytes(a, s) \cap BytesIn(b) = {}
  PROVE  LET r == AddMerged(b, a, s) IN
         /\ Valid(r) /\ (s > 0 => Positive(r))
         /\ DOMAIN r.a2s \subseteq DOMAIN b.a2s \cup {a}
         /\ BytesIn(r) = BytesIn(b) \cup Bytes(a, s)
         /\ Merged(b) /\ s > 0 => Merged(r)
<1> DEFINE m == MergeNext(b, a, s)
           c == m.blocks
           z == m.size
           r == AddMerged(b, a, s)
<1>0. Sized(b) /\ Positive(b) /\ Valid(b) /\ r = MergePrevious(c, a, z)
  BY DEF Good, Valid, AddMerged
<1>1. s > 0 => a \notin DOMAIN b.a2s
  <2>1. ASSUME s > 0, a \in DOMAIN b.a2s PROVE FALSE
    <3>1. a \in Bytes(a, s) /\ a \in Bytes(a, b.a2s[a])
      BY <1>0, <2>1 DEF Bytes, Sized, Positive
    <3> QED BY <2>1, <3>1, BytesOf
  <2> QED BY <2>1
<1>2. /\ Good(c) /\ z \in Nat /\ z >= s /\ a \notin DOMAIN c.a2s
      /\ DOMAIN c.a2s \subseteq DOMAIN b.a2s
      /\ Bytes(a, z) \cap BytesIn(c) = {}
      /\ BytesIn(c) \cup Bytes(a, z) = BytesIn(b) \cup Bytes(a, s)
      /\ Merged(b) => Merged(c)
      /\ Merged(b) => a + z \notin DOMAIN c.a2s
  <2>1. CASE a + s \in DOMAIN b.a2s
    <3> DEFINE n == a + s
    <3>1. m = [blocks |-> RemoveBlock(b, n), size |-> s + b.a2s[n]]
      BY <2>1 DEF MergeNext
    <3>2. c = RemoveBlock(b, n) /\ z = s + b.a2s[n]
      BY <3>1
    <3>3. n \in DOMAIN b.a2s /\ n \in Nat /\ n = a + s /\ b.a2s[n] \in Nat /\ b.a2s[n] > 0
      BY <1>0, <2>1 DEF Sized, Positive
    <3> HIDE DEF m, c, z, n
    <3>4. /\ Good(c) /\ DOMAIN c.a2s = DOMAIN b.a2s \ {n}
          /\ BytesIn(c) = BytesIn(b) \ Bytes(n, b.a2s[n])
          /\ Merged(b) => Merged(c)
      BY <3>2, <3>3, Remove
    <3>5. Bytes(a, z) = Bytes(a, s) \cup Bytes(n, b.a2s[n])
          /\ Bytes(n, b.a2s[n]) \subseteq BytesIn(b)
      BY <3>2, <3>3, BytesOf DEF Bytes
    <3>6. Merged(b) => a + z \notin DOMAIN c.a2s
      BY <3>2, <3>3, <3>4 DEF Merged
    <3>7. a \notin DOMAIN c.a2s
      BY <1>1, <3>3, <3>4
    <3> QED BY <3>2, <3>3, <3>4, <3>5, <3>6, <3>7
  <2>2. CASE a + s \notin DOMAIN b.a2s
    <3>1. c = b /\ z = s
      BY <2>2 DEF MergeNext
    <3>2. a \notin DOMAIN b.a2s
      BY <1>1, <2>2
    <3> QED BY <2>2, <3>1, <3>2
  <2> QED BY <2>1, <2>2
<1> HIDE DEF c, z, r
<1>3. /\ Valid(r) /\ (z > 0 => Positive(r))
      /\ DOMAIN r.a2s \subseteq DOMAIN c.a2s \cup {a}
      /\ BytesIn(r) = BytesIn(c) \cup Bytes(a, z)
      /\ Merged(c) /\ z > 0 /\ a + z \notin DOMAIN c.a2s => Merged(r)
  BY <1>0, <1>2, MergesPrevious
<1> QED BY <1>2, <1>3 DEF r

(* What is left over of a block becomes a block, if anything is left.      *)
LEMMA Rest ==
  ASSUME NEW b, Good(b), NEW x \in Nat, NEW z \in Nat, Bytes(x, z) \cap BytesIn(b) = {}
  PROVE  LET c == AddRest(b, x, z) IN
         /\ Good(c)
         /\ BytesIn(c) = BytesIn(b) \cup Bytes(x, z)
         /\ Merged(b) /\ x + z \notin DOMAIN b.a2s
              /\ (\A y \in DOMAIN b.a2s : y + b.a2s[y] # x) => Merged(c)
<1>1. CASE z = 0
  <2>1. AddRest(b, x, z) = b /\ Bytes(x, z) = {}
    BY <1>1 DEF AddRest, Bytes
  <2> QED BY <2>1
<1>2. CASE z > 0
  <2>1. AddRest(b, x, z) = AddFreeBlock(b, x, z)
    BY <1>2 DEF AddRest
  <2>2. ASSUME x \in DOMAIN b.a2s PROVE FALSE
    <3>1. x \in Bytes(x, z) /\ x \in Bytes(x, b.a2s[x])
      BY <1>2, <2>2 DEF Bytes, Good, Valid, Sized, Positive
    <3> QED BY <2>2, <3>1, BytesOf
  <2>3. Valid(b) /\ Positive(b)
    BY DEF Good
  <2> QED BY <1>2, <2>1, <2>2, <2>3, Add DEF Good
<1> QED BY <1>1, <1>2

(* The front of a block is handed out.                                     *)
LEMMA Split ==
  ASSUME NEW b, Good(b), NEW a \in DOMAIN b.a2s, NEW n \in Nat, n <= b.a2s[a]
  PROVE  LET c == AddRest(RemoveBlock(b, a), a + n, b.a2s[a] - n) IN
         /\ Good(c)
         /\ BytesIn(c) = BytesIn(b) \ Bytes(a, n)
         /\ Bytes(a, n) \subseteq BytesIn(b)
         /\ Merged(b) => Merged(c)
<1> DEFINE d == RemoveBlock(b, a)
           s == b.a2s[a]
           c == AddRest(d, a + n, s - n)
<1>1. a \in Nat /\ s \in Nat /\ s > 0 /\ n <= s /\ a + n \in Nat /\ s - n \in Nat
  BY DEF Good, Valid, Sized, Positive
<1>2. /\ Good(d) /\ DOMAIN d.a2s = DOMAIN b.a2s \ {a}
      /\ \A x \in DOMAIN d.a2s : d.a2s[x] = b.a2s[x]
      /\ BytesIn(d) = BytesIn(b) \ Bytes(a, s)
      /\ Merged(b) => Merged(d)
  BY Remove
<1>3. Bytes(a, s) \subseteq BytesIn(b)
  BY BytesOf
<1> HIDE DEF d, s
<1>4. /\ Bytes(a + n, s - n) = Bytes(a, s) \ Bytes(a, n)
      /\ Bytes(a, n) \subseteq Bytes(a, s)
  BY <1>1 DEF Bytes
<1>5. Bytes(a + n, s - n) \cap BytesIn(d) = {}
  BY <1>2, <1>4
<1>6. ASSUME Merged(b), NEW y \in DOMAIN d.a2s PROVE y + d.a2s[y] # a + n
  <2>1. y \in DOMAIN b.a2s /\ y # a /\ y + b.a2s[y] # a /\ d.a2s[y] = b.a2s[y]
    BY <1>2, <1>6 DEF Merged
  <2>2. Bytes(y, b.a2s[y]) \cap Bytes(a, s) = {} /\ y \in Nat /\ b.a2s[y] \in Nat /\ b.a2s[y] > 0
    BY <2>1 DEF Good, Valid, Disjoint, Sized, Positive, s
  <2>3. ASSUME n > 0, y + b.a2s[y] = a + n PROVE FALSE
    <3>1. a + n - 1 \in Bytes(y, b.a2s[y]) /\ a + n - 1 \in Bytes(a, s)
      BY <1>1, <2>2, <2>3 DEF Bytes
    <3> QED BY <2>2, <3>1
  <2> QED BY <1>1, <2>1, <2>2, <2>3
<1>7. Merged(b) => (a + n) + (s - n) \notin DOMAIN d.a2s
  <2>1. (a + n) + (s - n) = a + s
    BY <1>1
  <2> QED BY <1>2, <2>1 DEF Merged, s
<1>8. /\ Good(c)
      /\ BytesIn(c) = BytesIn(d) \cup Bytes(a + n, s - n)
      /\ Merged(b) => Merged(c)
  <2> DEFINE x == a + n
             z == s - n
  <2>1. x \in Nat /\ z \in Nat /\ Bytes(x, z) \cap BytesIn(d) = {}
        /\ (Merged(b) => x + z \notin DOMAIN d.a2s /\ \A y \in DOMAIN d.a2s : y + d.a2s[y] # x)
    BY <1>1, <1>5, <1>6, <1>7
  <2> HIDE DEF x, z
  <2>2. LET r == AddRest(d, x, z) IN
        /\ Good(r) /\ BytesIn(r) = BytesIn(d) \cup Bytes(x, z)
        /\ Merged(d) /\ x + z \notin DOMAIN d.a2s
             /\ (\A y \in DOMAIN d.a2s : y + d.a2s[y] # x) => Merged(r)
    BY <1>2, <2>1, Rest
  <2> QED BY <1>2, <2>1, <2>2 DEF x, z
<1> QED BY <1>2, <1>3, <1>4, <1>8 DEF c, d, s

-----------------------------------------------------------------------------
(* The invariant *)

CudaTyped ==
  cuda \in [reserved : BOOLEAN, total : 0..Space, buffered : 0..Space,
            handles : Nat, mapped : SUBSET Address]

Typed ==
  /\ kind \in Kinds /\ CudaTyped /\ owned \subseteq Address
  /\ live \subseteq Address \X Sizes
  /\ inits \in 0..MaxInits /\ spoilt \in BOOLEAN
  /\ DOMAIN addr2size \subseteq Address

(* The blocks and the regions are a partition of what the manager has got. *)
Partition ==
  /\ Valid(Blocks) /\ (~spoilt => Positive(Blocks))
  /\ BytesIn(Blocks) \cup LiveBytes = owned
  /\ BytesIn(Blocks) \cap LiveBytes = {}
  /\ \A q, r \in live : q # r => Bytes(q[1], q[2]) \cap Bytes(r[1], r[2]) = {}
  /\ kind = "vm" /\ ~spoilt => Merged(Blocks)

(* A VMAllocator is used from its start, and all of it is mapped the first *)
(* time.                                                                   *)
Backed ==
  kind = "vm" =>
    /\ owned \subseteq 0..(cuda.buffered - 1)
    /\ owned \subseteq cuda.mapped
    /\ inits = 0 => cuda.buffered = 0 /\ ~cuda.reserved /\ cuda.mapped = {} /\ cuda.handles = 0
    /\ inits = 1 /\ cuda.reserved =>
         /\ cuda.mapped = 0..(cuda.buffered - 1)
         /\ cuda.buffered > 0 => cuda.handles > 0
    /\ inits = 1 /\ ~cuda.reserved => cuda.mapped = {}

IInv == Typed /\ Partition /\ Backed

LEMMA LiveOf ==
  \A y : y \in LiveBytes <=> \E r \in live : y \in Bytes(r[1], r[2])
BY DEF LiveBytes

LEMMA AlignFacts ==
  ASSUME NEW x \in Nat
  PROVE  Align(x) \in Nat /\ Align(x) >= x
BY GranularityAssumption DEF Align

(* Addresses and sizes are small, as their bytes are. *)
LEMMA TypeHolds == IInv => TypeOK
<1> SUFFICES ASSUME IInv PROVE TypeOK
  OBVIOUS
<1> DEFINE b == Blocks
<1>0. /\ Typed /\ Valid(b) /\ (~spoilt => Positive(b)) /\ BytesIn(b) \subseteq 0..(Space - 1)
      /\ Space \in Nat /\ Space > 0 /\ b.a2s = addr2size /\ b.s2a = size2addr
  <2>1. Typed /\ Partition
    BY DEF IInv
  <2>2. BytesIn(b) \subseteq owned /\ owned \subseteq Address
    BY <2>1 DEF Partition, Typed
  <2>3. b.a2s = addr2size /\ b.s2a = size2addr
    BY DEF Blocks
  <2>4. Valid(b) /\ (~spoilt => Positive(b))
    BY <2>1 DEF Partition
  <2>5. Address = 0..(Space - 1) /\ Space \in Nat /\ Space > 0
    BY SpaceAssumption DEF Address
  <2> HIDE DEF b
  <2> QED BY <2>1, <2>2, <2>3, <2>4, <2>5
<1> HIDE DEF b
<1>1. ASSUME NEW a \in DOMAIN addr2size
      PROVE  addr2size[a] \in 0..Space /\ (addr2size[a] = 0 => spoilt)
  <2>1. a \in Nat /\ addr2size[a] \in Nat /\ (addr2size[a] = 0 => spoilt)
    BY <1>0, <1>1 DEF Valid, Sized, Positive, Typed
  <2>2. ASSUME addr2size[a] > 0 PROVE addr2size[a] <= Space
    <3>1. a + addr2size[a] - 1 \in Bytes(a, addr2size[a])
      BY <2>1, <2>2 DEF Bytes
    <3>2. a + addr2size[a] - 1 \in 0..(Space - 1)
      BY <1>0, <1>1, <3>1, BytesOf
    <3> QED BY <1>0, <2>1, <3>2
  <2> QED BY <1>0, <2>1, <2>2
<1>2. DOMAIN size2addr \subseteq 0..Space
  <2>1. ASSUME NEW s \in DOMAIN size2addr PROVE s \in 0..Space
    <3>1. \E a \in DOMAIN addr2size : addr2size[a] = s
      BY <1>0, <2>1 DEF Valid, Agree
    <3> QED BY <1>1, <3>1
  <2> QED BY <2>1
<1>3. \A a \in DOMAIN addr2size : addr2size[a] \in 1..Space \/ spoilt
  BY <1>0, <1>1
<1> QED BY <1>0, <1>2, <1>3 DEF Typed, CudaTyped, TypeOK

LEMMA InitHolds == Init => IInv
<1> SUFFICES ASSUME Init PROVE IInv
  OBVIOUS
<1>1. /\ addr2size = EmptyMap /\ size2addr = EmptyMap /\ DOMAIN EmptyMap = {}
      /\ Blocks.a2s = addr2size /\ Blocks.s2a = size2addr
      /\ live = {} /\ owned = {} /\ spoilt = FALSE /\ inits = 0 /\ kind \in Kinds /\ cuda = NewCuda
  BY DEF Init, EmptyMap, Blocks
<1>2. BytesIn(Blocks) = {} /\ LiveBytes = {}
  BY <1>1, BytesOf, LiveOf
<1>3. Partition
  BY <1>1, <1>2 DEF Partition, Valid, Agree, Disjoint, Sized, Positive, Merged
<1>4. Typed
  <2>1. CudaTyped
    BY <1>1, SpaceAssumption DEF CudaTyped, NewCuda, Address
  <2>2. inits \in 0..MaxInits
    BY <1>1, MaxInitsAssumption
  <2> QED BY <1>1, <2>1, <2>2 DEF Typed
<1>5. Backed
  <2>1. ~cuda.reserved /\ cuda.buffered = 0 /\ cuda.mapped = {} /\ cuda.handles = 0
    BY <1>1 DEF NewCuda
  <2> QED BY <1>1, <2>1 DEF Backed
<1> QED BY <1>3, <1>4, <1>5 DEF IInv

-----------------------------------------------------------------------------
(* A region is handed out: it comes from the free blocks and from G, what  *)
(* the provider has just given.                                            *)
LEMMA HandsOut ==
  ASSUME IInv, ~spoilt, NEW c, NEW G \in SUBSET Address, NEW addr \in Address, NEW needed \in Sizes,
         Valid(c), Positive(c), kind = "vm" => Merged(c),
         G \cap owned = {}, owned' = owned \cup G,
         BytesIn(c) \cup Bytes(addr, needed) = BytesIn(Blocks) \cup G,
         BytesIn(c) \cap Bytes(addr, needed) = {},
         SetBlocks(c), HandOut(addr, needed),
         UNCHANGED <<kind, inits, spoilt>>, CudaTyped'
  PROVE  Typed' /\ Partition' /\ R!Take(<<addr, needed>>)
<1> DEFINE new == Bytes(addr, needed)
<1>1. /\ Typed /\ Partition
      /\ BytesIn(Blocks) \subseteq owned /\ LiveBytes \subseteq owned
  BY DEF IInv, Partition
<1>2. \A q \in live : Bytes(q[1], q[2]) \subseteq LiveBytes
  BY LiveOf
<1>3. /\ new \subseteq BytesIn(Blocks) \cup G /\ new \cap LiveBytes = {}
      /\ BytesIn(c) \cap LiveBytes = {}
  BY <1>1 DEF Partition
<1>4. live' = live \cup {<<addr, needed>>}
  BY DEF HandOut
<1>5. LiveBytes' = LiveBytes \cup new
  <2>1. \A y : y \in LiveBytes' <=> \E r \in live' : y \in Bytes(r[1], r[2])
    BY DEF LiveBytes
  <2>2. \A y : y \in LiveBytes' <=> y \in LiveBytes \/ y \in new
    <3>1. \A y : y \in new <=> y \in Bytes(<<addr, needed>>[1], <<addr, needed>>[2])
      OBVIOUS
    <3>2. \A y : (\E r \in live' : y \in Bytes(r[1], r[2]))
                   <=> (\E r \in live : y \in Bytes(r[1], r[2])) \/ y \in new
      <4> HIDE DEF new
      <4> QED BY <1>4, <3>1
    <3> QED BY <2>1, <3>2, LiveOf
  <2> QED BY <2>2
<1>6. /\ addr2size' = c.a2s /\ size2addr' = c.s2a
      /\ Blocks'.a2s = c.a2s /\ Blocks'.s2a = c.s2a /\ BytesIn(Blocks') = BytesIn(c)
  BY DEF SetBlocks, Blocks, BytesIn
<1>7. Valid(Blocks') /\ Positive(Blocks') /\ (kind = "vm" => Merged(Blocks'))
  BY <1>6 DEF Valid, Agree, Disjoint, Sized, Positive, Merged
<1>8. \A q, r \in live' : q # r => Bytes(q[1], q[2]) \cap Bytes(r[1], r[2]) = {}
  BY <1>1, <1>2, <1>3, <1>4 DEF Partition
<1>9. Partition'
  <2>1. BytesIn(Blocks') \cup LiveBytes' = owned' /\ BytesIn(Blocks') \cap LiveBytes' = {}
    BY <1>1, <1>3, <1>5, <1>6 DEF Partition
  <2> QED BY <1>7, <1>8, <2>1 DEF Partition
<1>10. Typed'
  <2>1. \A a \in DOMAIN c.a2s : a \in Bytes(a, c.a2s[a])
    BY DEF Valid, Sized, Positive, Bytes
  <2>2. BytesIn(c) \subseteq Address
    BY <1>1 DEF Typed
  <2>3. DOMAIN addr2size' \subseteq Address
    BY <1>6, <2>1, <2>2, BytesOf
  <2>4. live' \subseteq Address \X Sizes
    BY <1>1, <1>4 DEF Typed
  <2> QED BY <1>1, <2>3, <2>4 DEF Typed
<1>11. R!Take(<<addr, needed>>)
  BY <1>2, <1>3, <1>4 DEF R!Take, R!Cells, Bytes
<1> QED BY <1>9, <1>10, <1>11

-----------------------------------------------------------------------------
(* The steps *)

(* What every proof about a step starts from.                              *)
LEMMA Facts ==
  ASSUME IInv, ~spoilt
  PROVE  /\ Typed /\ Partition /\ Backed /\ Good(Blocks)
         /\ Blocks.a2s = addr2size /\ Blocks.s2a = size2addr
         /\ BytesIn(Blocks) \subseteq owned /\ LiveBytes \subseteq owned
         /\ (kind = "vm" => Merged(Blocks))
         /\ \A a \in DOMAIN addr2size :
              /\ a \in Address /\ a \in Nat /\ addr2size[a] \in Nat /\ addr2size[a] > 0
              /\ Bytes(a, addr2size[a]) \subseteq owned
<1> DEFINE b == Blocks
<1>1. Typed /\ Partition /\ Backed
  BY DEF IInv
<1>2. b.a2s = addr2size /\ b.s2a = size2addr
  BY DEF Blocks
<1>3. Valid(b) /\ Positive(b) /\ (kind = "vm" => Merged(b))
  BY <1>1 DEF Partition
<1>4. BytesIn(b) \subseteq owned /\ LiveBytes \subseteq owned
  BY <1>1 DEF Partition
<1> HIDE DEF b
<1>5. \A a \in DOMAIN addr2size : Bytes(a, addr2size[a]) \subseteq owned
  BY <1>2, <1>4, BytesOf
<1>6. \A a \in DOMAIN addr2size :
         a \in Address /\ a \in Nat /\ addr2size[a] \in Nat /\ addr2size[a] > 0
  BY <1>1, <1>2, <1>3 DEF Typed, Valid, Sized, Positive
<1> QED BY <1>1, <1>2, <1>3, <1>4, <1>5, <1>6 DEF Good, b

LEMMA Emptied ==
  ASSUME live = {}, UNCHANGED <<live, spoilt>>, owned' = {}, SetBlocks(NoBlocks)
  PROVE  Partition' /\ DOMAIN addr2size' = {}
<1>1. /\ Blocks'.a2s = EmptyMap /\ Blocks'.s2a = EmptyMap /\ DOMAIN EmptyMap = {}
      /\ addr2size' = EmptyMap
  BY DEF SetBlocks, NoBlocks, EmptyMap, Blocks
<1>2. BytesIn(Blocks') = {} /\ LiveBytes' = {}
  BY <1>1 DEF BytesIn, LiveBytes
<1> QED
  BY <1>1, <1>2 DEF Partition, Valid, Agree, Disjoint, Sized, Positive, Merged

LEMMA SetUpStep ==
  ASSUME IInv, ~spoilt, SetUp
  PROVE  IInv' /\ live' = live
<1>1. /\ Typed /\ Backed /\ Space \in Nat /\ Space > 0 /\ inits \in Nat /\ inits < MaxInits
      /\ inits' = inits + 1 /\ MaxInits \in Nat /\ owned' = {}
      /\ UNCHANGED <<kind, live, spoilt>>
  BY SpaceAssumption, MaxInitsAssumption DEF IInv, Typed, SetUp
<1>2. Partition' /\ DOMAIN addr2size' = {}
  BY <1>1, Emptied DEF SetUp
<1>3. PICK total \in 0..Space : cuda' = Reserve(cuda, total)
  BY <1>1 DEF SetUp
<1>4. /\ CudaTyped' /\ cuda'.buffered = cuda.buffered
      /\ cuda'.reserved = TRUE /\ cuda'.mapped = {}
  <2>1. CudaTyped
    BY <1>1 DEF Typed
  <2> QED BY <1>1, <1>3, <2>1 DEF CudaTyped, Reserve
<1>5. Typed'
  BY <1>1, <1>2, <1>4 DEF Typed
<1>6. Backed'
  BY <1>1, <1>4 DEF Backed
<1> QED BY <1>1, <1>2, <1>5, <1>6 DEF IInv

LEMMA TearDownStep ==
  ASSUME IInv, ~spoilt, TearDown
  PROVE  IInv' /\ live' = live
<1>1. /\ Typed /\ Backed /\ owned' = {} /\ cuda' = Destroyed(cuda) /\ cuda.reserved
      /\ UNCHANGED <<kind, live, inits, spoilt>>
  BY DEF IInv, TearDown
<1>2. Partition' /\ DOMAIN addr2size' = {}
  BY <1>1, Emptied DEF TearDown
<1>3. /\ CudaTyped' /\ cuda'.buffered = cuda.buffered
      /\ cuda'.reserved = FALSE
      /\ cuda'.mapped = IF cuda.handles > 0 /\ 0..(cuda.buffered - 1) \subseteq cuda.mapped
                          THEN cuda.mapped \ 0..(cuda.buffered - 1) ELSE cuda.mapped
  <2>1. CudaTyped
    BY <1>1 DEF Typed
  <2> QED BY <1>1, <2>1 DEF CudaTyped, Destroyed
<1>4. Typed'
  BY <1>1, <1>2, <1>3 DEF Typed
<1>5. ASSUME kind = "vm", inits = 1 PROVE cuda'.mapped = {}
  <2>1. cuda.mapped = 0..(cuda.buffered - 1) /\ (cuda.buffered > 0 => cuda.handles > 0)
        /\ cuda.buffered \in Nat
    BY <1>1, <1>5, SpaceAssumption DEF Backed, Typed, CudaTyped
  <2> QED BY <1>3, <2>1
<1>6. Backed'
  <2>1. kind = "vm" => inits # 0
    BY <1>1 DEF Backed
  <2> QED BY <1>1, <1>3, <1>5, <2>1 DEF Backed
<1> QED BY <1>1, <1>2, <1>4, <1>6 DEF IInv

LEMMA AllocFromBlockStep ==
  ASSUME IInv, ~spoilt, NEW needed \in Sizes, AllocFromBlock(needed)
  PROVE  IInv' /\ \E a \in Address : R!Take(<<a, needed>>)
<1> DEFINE s == Min(Fitting(needed))
           a == Min(size2addr[s])
           b == Blocks
           c == AddRest(RemoveBlock(b, a), a + needed, addr2size[a] - needed)
<1>1. /\ Typed /\ Backed /\ Good(b) /\ b.a2s = addr2size /\ b.s2a = size2addr
      /\ (kind = "vm" => Merged(b)) /\ needed \in Nat
      /\ \A x \in DOMAIN addr2size : x \in Address /\ x \in Nat /\ addr2size[x] \in Nat
  BY Facts, SizesAssumption
<1>2. Agree(b)
  BY <1>1 DEF Good, Valid
<1> HIDE DEF b
<1>3. /\ \A z \in DOMAIN size2addr :
           /\ z \in Nat /\ size2addr[z] # {}
           /\ \A x \in size2addr[z] : x \in DOMAIN addr2size /\ addr2size[x] = z /\ x \in Nat
  BY <1>1, <1>2 DEF Agree
<1>4. s \in DOMAIN size2addr /\ s >= needed
  <2>1. Fitting(needed) \in SUBSET Nat /\ Fitting(needed) # {}
    BY <1>3 DEF Fitting, AllocFromBlock
  <2>2. s \in Fitting(needed)
    BY <2>1, Least
  <2> HIDE DEF s
  <2> QED BY <2>2 DEF Fitting
<1>5. a \in DOMAIN addr2size /\ addr2size[a] = s
  <2>1. size2addr[s] \in SUBSET Nat /\ size2addr[s] # {}
    BY <1>3, <1>4
  <2>2. a \in size2addr[s]
    BY <2>1, Least
  <2> HIDE DEF s, a
  <2> QED BY <1>3, <1>4, <2>2
<1>6. SetBlocks(c) /\ HandOut(a, needed) /\ UNCHANGED <<kind, cuda, owned, inits, spoilt>>
  <2>1. RemoveBlock(b, a) = [a2s |-> Erase(addr2size, a),
                             s2a |-> RemoveFromSize2Addr(size2addr, a, s)]
    BY <1>1, <1>5 DEF RemoveBlock
  <2> QED BY <2>1 DEF AllocFromBlock
<1> HIDE DEF s, a
<1>7. /\ Good(c)
      /\ BytesIn(c) = BytesIn(b) \ Bytes(a, needed)
      /\ Bytes(a, needed) \subseteq BytesIn(b)
      /\ Merged(b) => Merged(c)
  BY <1>1, <1>4, <1>5, Split
<1> HIDE DEF c
<1>8. Typed' /\ Partition' /\ R!Take(<<a, needed>>)
  <2> DEFINE G == {}
  <2>1. /\ G \in SUBSET Address /\ G \cap owned = {} /\ owned' = owned \cup G
        /\ a \in Address /\ Valid(c) /\ Positive(c) /\ (kind = "vm" => Merged(c))
        /\ CudaTyped'
    BY <1>1, <1>5, <1>6, <1>7 DEF Good, Typed, CudaTyped
  <2>2. BytesIn(c) \cup Bytes(a, needed) = BytesIn(b) \cup G
        /\ BytesIn(c) \cap Bytes(a, needed) = {}
    BY <1>7
  <2> HIDE DEF G
  <2> QED BY <1>6, <2>1, <2>2, HandsOut DEF b
<1>9. Backed'
  BY <1>1, <1>6 DEF Backed
<1> QED BY <1>1, <1>5, <1>8, <1>9 DEF IInv

(* LastAddr is the address of a block, and the largest.                    *)
LEMMA LastBlock ==
  ASSUME IInv, ~spoilt, DOMAIN addr2size # {}
  PROVE  LastAddr \in DOMAIN addr2size /\ \A x \in DOMAIN addr2size : x <= LastAddr
<1>1. DOMAIN addr2size \in SUBSET (0..Space) /\ Space \in Nat
  BY Facts, SpaceAssumption DEF Address
<1> QED BY <1>1, Greatest DEF LastAddr

LEMMA AllocByVMAllocatorStep ==
  ASSUME IInv, ~spoilt, NEW needed \in Sizes, AllocByVMAllocator(needed), cuda.reserved
  PROVE  IInv' /\ \E a \in Address : R!Take(<<a, needed>>)
<1> DEFINE end == cuda.buffered
           last == LastAddr
           missing == Missing(needed, end)
           g == Align(missing)
           addr == IF EndsLast(end) THEN last ELSE end
           b == Blocks
           d == IF EndsLast(end) THEN RemoveBlock(b, last) ELSE b
           G == Bytes(end, g)
           x0 == end + missing
           z0 == g - missing
           c == AddRest(d, x0, z0)
           old == IF EndsLast(end) THEN Bytes(last, addr2size[last]) ELSE {}
<1>1. /\ Typed /\ Backed /\ Good(b) /\ b.a2s = addr2size /\ BytesIn(b) \subseteq owned
      /\ Merged(b) /\ kind = "vm" /\ needed \in Nat
      /\ \A x \in DOMAIN addr2size :
           /\ x \in Address /\ x \in Nat /\ addr2size[x] \in Nat /\ addr2size[x] > 0
           /\ Bytes(x, addr2size[x]) \subseteq owned
  BY Facts, SizesAssumption DEF AllocByVMAllocator
<1>2. /\ end \in Nat /\ Space \in Nat /\ Address = 0..(Space - 1) /\ cuda.total <= Space
      /\ owned \subseteq 0..(end - 1) /\ cuda.total \in Nat
  BY <1>1, SpaceAssumption DEF Typed, CudaTyped, Backed, Address
<1>3. /\ missing > 0 /\ g + end <= cuda.total
      /\ cuda' = Extended(cuda, missing)
      /\ owned' = owned \cup end..(end + g - 1)
      /\ SetBlocks(c) /\ HandOut(addr, needed)
      /\ UNCHANGED <<kind, inits, spoilt>>
  BY DEF AllocByVMAllocator, ExtendFits
<1>4. EndsLast(end) =>
        last \in DOMAIN addr2size /\ last + addr2size[last] = end
          /\ missing = needed - addr2size[last]
  BY LastBlock DEF EndsLast, Missing
<1>5. ~EndsLast(end) => missing = needed
  BY DEF Missing
<1>6. missing \in Nat /\ missing <= needed
  <2> HIDE DEF end, last, missing
  <2> QED BY <1>1, <1>3, <1>4, <1>5
<1>7. g \in Nat /\ g >= missing /\ g > 0
  BY <1>3, <1>6, AlignFacts
<1>8. \A x \in DOMAIN b.a2s : x + b.a2s[x] <= end
  <2> SUFFICES ASSUME NEW x \in DOMAIN addr2size PROVE x + addr2size[x] <= end
    BY <1>1
  <2>1. x \in Nat /\ addr2size[x] \in Nat /\ x + addr2size[x] - 1 \in Bytes(x, addr2size[x])
    BY <1>1 DEF Bytes
  <2>2. x + addr2size[x] - 1 \in 0..(end - 1)
    BY <1>1, <1>2, <2>1
  <2> HIDE DEF end
  <2> QED BY <1>2, <2>1, <2>2
<1>9. cuda'.buffered = end + g /\ cuda'.mapped = cuda.mapped \cup G
      /\ cuda'.reserved = cuda.reserved /\ cuda'.total = cuda.total
      /\ cuda'.handles = cuda.handles + 1
  <2>1. CudaTyped
    BY <1>1 DEF Typed
  <2> QED BY <1>3, <2>1 DEF CudaTyped, Extended, Chunk, Bytes
<1> DEFINE mapped == cuda.mapped
<1>10. mapped \subseteq Address /\ cuda \in [reserved : BOOLEAN, total : 0..Space,
         buffered : 0..Space, handles : Nat, mapped : SUBSET Address]
  BY <1>1 DEF Typed, CudaTyped
<1>11. cuda' = [cuda EXCEPT !.buffered = end + g, !.handles = cuda.handles + 1,
                            !.mapped = mapped \cup G]
  BY <1>3 DEF Extended, Chunk, Bytes
<1> HIDE DEF end, last, missing, g, b, d, G, x0, z0, c, old, addr, mapped
<1>12. G \in SUBSET Address /\ G \cap owned = {}
  BY <1>2, <1>3, <1>7 DEF G, Bytes
<1>13. CudaTyped'
  <2>1. end + g \in 0..Space /\ cuda.handles + 1 \in Nat
    BY <1>2, <1>3, <1>7, <1>10
  <2>2. mapped \cup G \in SUBSET Address
    BY <1>10, <1>12
  <2> QED BY <1>10, <1>11, <2>1, <2>2 DEF CudaTyped
<1>14. /\ x0 \in Nat /\ z0 \in Nat /\ x0 = end + missing /\ x0 + z0 = end + g
       /\ Bytes(x0, z0) = G \ Bytes(end, missing) /\ Bytes(end, missing) \subseteq G
  BY <1>2, <1>6, <1>7 DEF G, Bytes, x0, z0
<1>15. /\ Good(d) /\ Merged(d)
       /\ DOMAIN d.a2s \subseteq DOMAIN b.a2s /\ (\A x \in DOMAIN d.a2s : d.a2s[x] = b.a2s[x])
       /\ BytesIn(d) = BytesIn(b) \ old /\ old \subseteq BytesIn(b)
  <2>1. CASE EndsLast(end)
    <3>1. /\ d = RemoveBlock(b, last) /\ last \in DOMAIN b.a2s
          /\ old = Bytes(last, b.a2s[last])
      BY <1>1, <1>4, <2>1 DEF d, old
    <3>2. old \subseteq BytesIn(b)
      BY <3>1, BytesOf
    <3> QED BY <1>1, <3>1, <3>2, Remove
  <2>2. CASE ~EndsLast(end)
    <3>1. d = b /\ old = {}
      BY <2>2 DEF d, old
    <3> QED BY <1>1, <3>1
  <2> QED BY <2>1, <2>2
<1>16. /\ Good(c) /\ Merged(c)
       /\ BytesIn(c) = BytesIn(d) \cup (G \ Bytes(end, missing))
  <2>1. Bytes(x0, z0) \cap BytesIn(d) = {}
    BY <1>1, <1>12, <1>14, <1>15
  <2>2. \A x \in DOMAIN d.a2s :
           /\ x \in Nat /\ d.a2s[x] \in Nat /\ d.a2s[x] > 0 /\ x + d.a2s[x] <= end
    BY <1>1, <1>8, <1>15
  <2>3. x0 + z0 \notin DOMAIN d.a2s
    BY <1>2, <1>7, <1>14, <2>2
  <2>4. \A x \in DOMAIN d.a2s : x + d.a2s[x] # x0
    BY <1>2, <1>3, <1>6, <1>14, <2>2
  <2>5. /\ Good(c) /\ BytesIn(c) = BytesIn(d) \cup Bytes(x0, z0)
        /\ Merged(d) /\ x0 + z0 \notin DOMAIN d.a2s
             /\ (\A x \in DOMAIN d.a2s : x + d.a2s[x] # x0) => Merged(c)
    BY <1>14, <1>15, <2>1, Rest DEF c
  <2> QED BY <1>14, <1>15, <2>3, <2>4, <2>5
<1>17. addr \in Address /\ Bytes(addr, needed) = old \cup Bytes(end, missing)
  <2>1. CASE EndsLast(end)
    <3>1. addr = last /\ old = Bytes(last, addr2size[last])
      BY <2>1 DEF addr, old
    <3> DEFINE s == addr2size[last]
    <3>2. last \in Address /\ last \in Nat /\ s \in Nat /\ last + s = end /\ needed = s + missing
      BY <1>1, <1>4, <1>6, <2>1
    <3> HIDE DEF s
    <3>3. Bytes(last, needed) = Bytes(last, s) \cup Bytes(end, missing)
      BY <1>3, <1>6, <3>2 DEF Bytes
    <3> QED BY <3>1, <3>2, <3>3 DEF s
  <2>2. CASE ~EndsLast(end)
    <3>1. addr = end /\ old = {} /\ missing = needed
      BY <1>5, <2>2 DEF addr, old
    <3>2. end \in Address
      BY <1>2, <1>3, <1>7
    <3> QED BY <3>1, <3>2
  <2> QED BY <2>1, <2>2
<1>18. /\ BytesIn(c) \cup Bytes(addr, needed) = BytesIn(b) \cup G
       /\ BytesIn(c) \cap Bytes(addr, needed) = {}
  <2>1. BytesIn(b) \cap G = {} /\ Bytes(end, missing) \subseteq G
    BY <1>1, <1>12, <1>14
  <2> QED BY <1>15, <1>16, <1>17, <2>1
<1>19. owned' = owned \cup G
  BY <1>3 DEF G, Bytes
<1>20. Typed' /\ Partition' /\ R!Take(<<addr, needed>>)
  <2>1. Valid(c) /\ Positive(c)
    BY <1>16 DEF Good
  <2> QED BY <1>3, <1>12, <1>13, <1>16, <1>17, <1>18, <1>19, <2>1, HandsOut DEF b
<1>21. Backed'
  <2>1. owned' \subseteq 0..(end + g - 1) /\ G = end..(end + g - 1)
    BY <1>2, <1>7, <1>19 DEF G, Bytes
  <2>2. owned' \subseteq cuda'.mapped
    BY <1>1, <1>9, <1>19 DEF Backed
  <2>3. inits # 0
    BY <1>1 DEF Backed
  <2>4. ASSUME inits = 1 PROVE cuda'.mapped = 0..(cuda'.buffered - 1) /\ cuda'.handles > 0
    <3>1. cuda.mapped = 0..(end - 1) /\ cuda.handles \in Nat
      BY <1>1, <1>10, <2>4 DEF Backed, end
    <3> QED BY <1>2, <1>7, <1>9, <2>1, <3>1
  <2>5. cuda'.reserved /\ inits' = inits
    BY <1>3, <1>9
  <2>6. owned' \subseteq 0..(cuda'.buffered - 1)
    BY <1>2, <1>7, <1>9, <2>1
  <2> QED BY <2>2, <2>3, <2>4, <2>5, <2>6 DEF Backed
<1> QED BY <1>17, <1>20, <1>21 DEF IInv

LEMMA AllocByAllocatorStep ==
  ASSUME IInv, ~spoilt, NEW needed \in Sizes, AllocByAllocator(needed)
  PROVE  IInv' /\ \E a \in Address : R!Take(<<a, needed>>)
<1> PICK p \in Provided(needed) :
      /\ owned' = owned \cup p[1]..(p[1] + p[2] - 1)
      /\ IF EndsLast(p[1])
            THEN /\ SetBlocks(AddFreeBlock(RemoveBlock(Blocks, LastAddr),
                                LastAddr + needed,
                                addr2size[LastAddr] + p[2] - needed))
                 /\ HandOut(LastAddr, needed)
            ELSE /\ SetBlocks(AddRest(Blocks, p[1] + needed, p[2] - needed))
                 /\ HandOut(p[1], needed)
  BY DEF AllocByAllocator
<1> DEFINE at == p[1]
           got == p[2]
           b == Blocks
           G == Bytes(at, got)
<1>1. /\ Typed /\ Backed /\ Good(b) /\ b.a2s = addr2size /\ b.s2a = size2addr
      /\ BytesIn(b) \subseteq owned /\ needed \in Nat
      /\ \A x \in DOMAIN addr2size :
           /\ x \in Address /\ x \in Nat /\ addr2size[x] \in Nat /\ addr2size[x] > 0
           /\ Bytes(x, addr2size[x]) \subseteq owned
  BY Facts, SizesAssumption
<1>2. kind = "allocator" /\ UNCHANGED <<kind, cuda, inits, spoilt>> /\ Fitting(needed) = {}
  BY DEF AllocByAllocator
<1>3. /\ at \in Address /\ at \in Nat /\ got \in Nat /\ got >= needed
      /\ Space \in Nat /\ Address = 0..(Space - 1) /\ at + got <= Space
      /\ G \cap owned = {} /\ owned' = owned \cup G
  BY <1>1, SpaceAssumption DEF Provided, Address, Bytes
<1>4. G \in SUBSET Address
  BY <1>3 DEF Bytes
<1>5. CudaTyped'
  BY <1>1, <1>2 DEF Typed, CudaTyped
<1>6. Backed'
  BY <1>2 DEF Backed
<1>7. CASE EndsLast(at)
  <2> DEFINE last == LastAddr
             s == addr2size[last]
             x == last + needed
             z == s + got - needed
             d == RemoveBlock(b, last)
             c == AddRest(d, x, z)
  <2>1. last \in DOMAIN addr2size /\ last + s = at
    BY <1>7, LastBlock DEF EndsLast
  <2>2. last \in Address /\ last \in Nat /\ s \in Nat /\ s > 0 /\ s < needed
    <3>1. s \in DOMAIN size2addr
      BY <1>1, <2>1 DEF Good, Valid, Agree
    <3> QED BY <1>1, <1>2, <2>1, <3>1 DEF Fitting
  <2>3. x \in Nat /\ z \in Nat /\ z > 0 /\ x + z = at + got /\ x > at
    <3>1. /\ at \in Nat /\ got \in Nat /\ got >= needed /\ needed \in Nat /\ last \in Nat /\ s \in Nat
          /\ s > 0 /\ s < needed /\ last + s = at
      BY <1>1, <1>3, <2>1, <2>2
    <3> HIDE DEF at, got, last, s
    <3> QED BY <3>1
  <2>4. SetBlocks(c) /\ HandOut(last, needed)
    BY <1>7, <2>3 DEF AddRest
  <2> HIDE DEF last, s, x, z, d, c, b, G, at, got
  <2>5. /\ Good(d) /\ BytesIn(d) = BytesIn(b) \ Bytes(last, s)
        /\ Bytes(last, s) \subseteq BytesIn(b)
    <3>1. last \in DOMAIN b.a2s /\ b.a2s[last] = s
      BY <1>1, <2>1 DEF s
    <3> QED BY <1>1, <3>1, Remove, BytesOf DEF d
  <2>6. Bytes(x, z) \subseteq G
    BY <1>3, <2>3 DEF Bytes, G
  <2>7. /\ Good(c) /\ BytesIn(c) = BytesIn(d) \cup Bytes(x, z)
    BY <1>1, <1>3, <2>3, <2>5, <2>6, Rest DEF c
  <2>8. Bytes(last, needed) = Bytes(last, s) \cup (G \ Bytes(x, z))
    <3>1. /\ x = last + needed /\ last + s = at /\ x + z = at + got
          /\ last \in Nat /\ s \in Nat /\ needed \in Nat /\ at \in Nat /\ got \in Nat
          /\ x \in Nat /\ z \in Nat /\ x > at
      BY <1>1, <1>3, <2>1, <2>2, <2>3 DEF x
    <3>2. \A y \in Int : y \in Bytes(last, needed) <=> last <= y /\ y < x
      BY <3>1 DEF Bytes
    <3>3. \A y \in Int : y \in Bytes(last, s) <=> last <= y /\ y < at
      BY <3>1 DEF Bytes
    <3>4. \A y \in Int : y \in G \ Bytes(x, z) <=> at <= y /\ y < x
      BY <3>1 DEF Bytes, G
    <3>5. \A y : y \in Bytes(last, needed) \/ y \in Bytes(last, s) \/ y \in G => y \in Int
      BY DEF Bytes, G
    <3>6. \A y : y \in Bytes(last, needed) <=> y \in Bytes(last, s) \cup (G \ Bytes(x, z))
      BY <3>1, <3>2, <3>3, <3>4, <3>5
    <3> QED BY <3>6
  <2>9. /\ BytesIn(c) \cup Bytes(last, needed) = BytesIn(b) \cup G
        /\ BytesIn(c) \cap Bytes(last, needed) = {}
    <3>1. BytesIn(b) \cap G = {}
      BY <1>1, <1>3
    <3> QED BY <2>5, <2>6, <2>7, <2>8, <3>1
  <2>10. Valid(c) /\ Positive(c) /\ (kind = "vm" => Merged(c))
    BY <1>2, <2>7 DEF Good
  <2>11. Typed' /\ Partition' /\ R!Take(<<last, needed>>)
    BY <1>2, <1>3, <1>4, <1>5, <2>2, <2>4, <2>9, <2>10, HandsOut DEF b
  <2> QED BY <1>6, <2>2, <2>11 DEF IInv
<1>8. CASE ~EndsLast(at)
  <2> DEFINE x == at + needed
             z == got - needed
             c == AddRest(b, x, z)
  <2>1. SetBlocks(c) /\ HandOut(at, needed)
    BY <1>8
  <2> HIDE DEF x, z, c, b, G, at, got
  <2>2. /\ x \in Nat /\ z \in Nat
        /\ Bytes(x, z) = G \ Bytes(at, needed) /\ Bytes(at, needed) \subseteq G
    <3>1. /\ x \in Nat /\ z \in Nat /\ x = at + needed /\ x + z = at + got
          /\ at \in Nat /\ needed \in Nat /\ got \in Nat /\ needed <= got
      BY <1>1, <1>3 DEF x, z
    <3> QED BY <3>1 DEF Bytes, G
  <2>3. /\ Good(c) /\ BytesIn(c) = BytesIn(b) \cup Bytes(x, z)
    BY <1>1, <1>3, <2>2, Rest DEF c
  <2>4. /\ BytesIn(c) \cup Bytes(at, needed) = BytesIn(b) \cup G
        /\ BytesIn(c) \cap Bytes(at, needed) = {}
    <3>1. BytesIn(b) \cap G = {}
      BY <1>1, <1>3
    <3> QED BY <2>2, <2>3, <3>1
  <2>5. Valid(c) /\ Positive(c) /\ (kind = "vm" => Merged(c))
    BY <1>2, <2>3 DEF Good
  <2>6. Typed' /\ Partition' /\ R!Take(<<at, needed>>)
    BY <1>2, <1>3, <1>4, <1>5, <2>1, <2>4, <2>5, HandsOut DEF b
  <2> QED BY <1>3, <1>6, <2>6 DEF IInv
<1> QED BY <1>7, <1>8

LEMMA FreeStep ==
  ASSUME IInv, ~spoilt, NEW r \in live, Free(r[1], r[2])
  PROVE  IInv' /\ R!Return(r)
<1> DEFINE a == r[1]
           s == r[2]
           b == Blocks
           c == AddMerged(b, a, s)
           region == Bytes(a, s)
<1>1. /\ Typed /\ Partition /\ Backed /\ Good(b) /\ b.a2s = addr2size /\ b.s2a = size2addr
      /\ (kind = "vm" => Merged(b)) /\ BytesIn(b) \subseteq owned
  BY Facts
<1>2. a \in Address /\ a \in Nat /\ s \in Nat /\ r = <<a, s>>
  <2>1. r \in Address \X Sizes
    BY <1>1 DEF Typed
  <2>2. r = <<a, s>> /\ a \in Address /\ s \in Sizes
    BY <2>1
  <2> QED BY <2>2, SizesAssumption, SpaceAssumption DEF Address
<1>3. /\ SetBlocks(c) /\ live' = live \ {r} /\ spoilt' = (s = 0 /\ c # b)
      /\ UNCHANGED <<kind, cuda, owned, inits>>
  BY <1>2 DEF Free
<1>4. region \subseteq LiveBytes /\ region \cap BytesIn(b) = {}
  <2>1. region \subseteq LiveBytes
    BY LiveOf
  <2> QED BY <1>1, <2>1 DEF Partition
<1> HIDE DEF a, s, b, c, region
<1>5. /\ Valid(c) /\ (s > 0 => Positive(c))
      /\ DOMAIN c.a2s \subseteq DOMAIN b.a2s \cup {a}
      /\ BytesIn(c) = BytesIn(b) \cup region
      /\ Merged(b) /\ s > 0 => Merged(c)
  BY <1>1, <1>2, <1>4, AddsMerged DEF c, region
<1>6. LiveBytes' = LiveBytes \ region
  <2>1. \A y : y \in LiveBytes' <=> \E q \in live' : y \in Bytes(q[1], q[2])
    BY DEF LiveBytes
  <2>2. region = Bytes(r[1], r[2])
    BY DEF region, a, s
  <2>3. \A q \in live : q # r => Bytes(q[1], q[2]) \cap region = {}
    BY <1>1, <2>2 DEF Partition
  <2>4. \A y : y \in LiveBytes' <=> y \in LiveBytes /\ y \notin region
    BY <1>3, <2>1, <2>2, <2>3, LiveOf
  <2> QED BY <2>4
<1>7. /\ addr2size' = c.a2s /\ size2addr' = c.s2a
      /\ Blocks'.a2s = c.a2s /\ Blocks'.s2a = c.s2a /\ BytesIn(Blocks') = BytesIn(c)
  BY <1>3 DEF SetBlocks, Blocks, BytesIn
<1>8. spoilt' \in BOOLEAN /\ (~spoilt' => s > 0 \/ c = b)
  <2>1. spoilt' \in BOOLEAN /\ (~spoilt' => ~(s = 0 /\ c # b))
    BY <1>3
  <2>2. s = 0 \/ s > 0
    BY <1>2
  <2> QED BY <2>1, <2>2
<1>9. ~spoilt' => Positive(c) /\ (kind = "vm" => Merged(c))
  <2>1. CASE s > 0
    BY <1>1, <1>5, <2>1
  <2>2. CASE c = b
    BY <1>1, <2>2 DEF Good
  <2> QED BY <1>8, <2>1, <2>2
<1>10. Partition'
  <2>1. BytesIn(Blocks') \cup LiveBytes' = owned' /\ BytesIn(Blocks') \cap LiveBytes' = {}
    BY <1>1, <1>3, <1>4, <1>5, <1>6, <1>7 DEF Partition, b
  <2>2. Valid(Blocks') /\ (Positive(c) => Positive(Blocks')) /\ (Merged(c) => Merged(Blocks'))
    <3>1. Valid(Blocks')
      BY <1>5, <1>7 DEF Valid, Agree, Disjoint, Sized
    <3>2. Positive(c) => Positive(Blocks')
      BY <1>7 DEF Positive
    <3>3. Merged(c) => Merged(Blocks')
      BY <1>7 DEF Merged
    <3> QED BY <3>1, <3>2, <3>3
  <2>3. \A q, t \in live' : q # t => Bytes(q[1], q[2]) \cap Bytes(t[1], t[2]) = {}
    BY <1>1, <1>3 DEF Partition
  <2>4. (~spoilt' => Positive(Blocks')) /\ (kind' = "vm" /\ ~spoilt' => Merged(Blocks'))
    BY <1>3, <1>9, <2>2
  <2> QED BY <2>1, <2>2, <2>3, <2>4 DEF Partition
<1>11. Typed'
  <2>1. DOMAIN addr2size' \subseteq Address
    BY <1>1, <1>2, <1>5, <1>7 DEF Typed
  <2>2. CudaTyped' /\ live' \subseteq Address \X Sizes
    BY <1>1, <1>3 DEF Typed, CudaTyped
  <2> QED BY <1>1, <1>3, <1>8, <2>1, <2>2 DEF Typed
<1>12. Backed'
  BY <1>1, <1>3 DEF Backed
<1> QED BY <1>3, <1>10, <1>11, <1>12 DEF IInv, R!Return

LEMMA Step ==
  ASSUME IInv, [Next]_vars
  PROVE  IInv' /\ [R!Next]_live
<1>1. CASE UNCHANGED vars
  <2>1. /\ addr2size' = addr2size /\ size2addr' = size2addr /\ live' = live
        /\ UNCHANGED <<kind, cuda, owned, inits, spoilt>>
    BY <1>1 DEF vars
  <2>2. Blocks' = Blocks /\ LiveBytes' = LiveBytes
    BY <2>1 DEF Blocks, LiveBytes
  <2> QED
    BY <2>1, <2>2 DEF IInv, Typed, CudaTyped, Partition, Backed
<1>2. CASE Next
  <2>1. ~spoilt
    BY <1>2 DEF Next
  <2>2. CASE SetUp \/ TearDown
    BY <2>1, <2>2, SetUpStep, TearDownStep
  <2>3. ASSUME NEW n \in Sizes, Alloc(n) PROVE IInv' /\ R!Next
    <3>1. IInv' /\ \E a \in Address : R!Take(<<a, n>>)
      BY <2>1, <2>3, AllocFromBlockStep, AllocByVMAllocatorStep, AllocByAllocatorStep DEF Alloc
    <3>2. PICK a \in Address : R!Take(<<a, n>>)
      BY <3>1
    <3>3. <<a, n>> \in R!Region
      BY DEF R!Region
    <3> QED BY <3>1, <3>2, <3>3 DEF R!Next
  <2>4. ASSUME NEW r \in live, Free(r[1], r[2]) PROVE IInv' /\ R!Next
    <3>1. IInv' /\ R!Return(r)
      BY <2>1, <2>4, FreeStep
    <3>2. r \in R!Region
      BY DEF IInv, Typed, R!Region
    <3> QED BY <3>1, <3>2 DEF R!Next
  <2> QED BY <1>2, <2>2, <2>3, <2>4 DEF Next
<1> QED BY <1>1, <1>2

LEMMA LiveIsMapped == IInv => MappedWhileLive
<1> SUFFICES ASSUME IInv, kind = "vm"
             PROVE  /\ LiveBytes \subseteq cuda.mapped
                    /\ inits = 1 /\ ~cuda.reserved => cuda.mapped = {}
  BY DEF MappedWhileLive
<1>1. LiveBytes \subseteq owned
  BY DEF IInv, Partition
<1> QED BY <1>1 DEF IInv, Backed

LEMMA Invariance == Spec => []IInv
<1>1. Init => IInv
  BY InitHolds
<1>2. IInv /\ [Next]_vars => IInv'
  BY Step
<1> QED BY <1>1, <1>2, PTL DEF Spec

-----------------------------------------------------------------------------
(* Every variable keeps its type, and no block is empty or larger than the *)
(* address space (compact_addr_manager.h:60-63).                           *)
THEOREM TypeCorrect == Spec => []TypeOK
<1>1. IInv => TypeOK
  BY TypeHolds
<1> QED BY <1>1, Invariance, PTL

(* addr2size_ and size2addr_ hold the same blocks, and every byte from the *)
(* provider is in one of them or in one region: Alloc and Free             *)
(* (compact_addr_manager.cc:40-157) neither lose a byte nor give it twice, *)
(* and over a VMAllocator they never leave two neighbours apart.           *)
THEOREM MapsAgree == Spec => []BlocksKept
<1>1. IInv => BlocksKept
  BY DEF IInv, Partition, Valid, BlocksKept
<1> QED BY <1>1, Invariance, PTL

(* What a CompactAddrManager over a CudaBufferedAllocator hands out is     *)
(* mapped (cuda_buffered_allocator.cc:103-135), also after another Init.   *)
THEOREM HandsOutMapped == Spec => []MappedWhileLive
BY LiveIsMapped, Invariance, PTL

(* The manager is a RegionAllocator: regions in the hands of clients never *)
(* overlap (compact_addr_manager.cc:40-157).                               *)
THEOREM Refinement == Spec => ImplementsRegions
<1>1. Init => R!Init
  BY DEF Init, R!Init
<1>2. IInv /\ [Next]_vars => [R!Next]_live
  BY Step
<1> QED BY <1>1, <1>2, Invariance, PTL DEF Spec, ImplementsRegions, R!Spec

-----------------------------------------------------------------------------
(* PageManager.  Its maps are those of BlockMaps again. *)
LEMMA SameMaps ==
  /\ P!NoBlocks = NoBlocks
  /\ \A b, a, s : P!AddFreeBlock(b, a, s) = AddFreeBlock(b, a, s)
  /\ \A b, a, s : P!AddMerged(b, a, s) = AddMerged(b, a, s)
  /\ \A b, a : P!RemoveFreeBlock(b, a, b.a2s[a]) = RemoveBlock(b, a)
  /\ \A b : P!Agree(b) <=> Agree(b)
  /\ \A b : P!Disjoint(b) <=> Disjoint(b)
  /\ \A b : P!Merged(b) <=> Merged(b)
  /\ \A b : P!BytesIn(b) = BytesIn(b)
  /\ \A S : P!Min(S) = Min(S) /\ P!Max(S) = Max(S) /\ P!Cardinality(S) = Cardinality(S)
<1>1. P!NoBlocks = NoBlocks
  BY DEF P!NoBlocks, P!EmptyMap, NoBlocks, EmptyMap
<1>2. \A f, k : P!Erase(f, k) = Erase(f, k)
  BY DEF P!Erase, Erase
<1>3. \A f, k, v : P!Assign(f, k, v) = Assign(f, k, v)
  BY DEF P!Assign, Assign
<1>4. \A f, a, s : P!RemoveFromSize2Addr(f, a, s) = RemoveFromSize2Addr(f, a, s)
  BY <1>2 DEF P!RemoveFromSize2Addr, RemoveFromSize2Addr
<1>5. \A f, a, s : P!AddToSize2Addr(f, a, s) = AddToSize2Addr(f, a, s)
  BY <1>3 DEF P!AddToSize2Addr, AddToSize2Addr
<1>6. \A b, a, s : P!AddFreeBlock(b, a, s) = AddFreeBlock(b, a, s)
  BY <1>3, <1>5 DEF P!AddFreeBlock, AddFreeBlock
<1>7. \A b, a : P!RemoveBlock(b, a) = RemoveBlock(b, a)
  BY <1>2, <1>4 DEF P!RemoveBlock, RemoveBlock
<1>8. \A b, a : P!RemoveFreeBlock(b, a, b.a2s[a]) = RemoveBlock(b, a)
  BY <1>2, <1>4 DEF P!RemoveFreeBlock, RemoveBlock
<1>9. \A S : P!Min(S) = Min(S) /\ P!Max(S) = Max(S) /\ P!Cardinality(S) = Cardinality(S)
  BY DEF P!Min, Min, P!Max, Max, P!Cardinality, Cardinality
<1>10. \A b, a, s : P!MergeNext(b, a, s) = MergeNext(b, a, s)
  BY <1>7 DEF P!MergeNext, MergeNext
<1>11. \A b, a : P!Predecessors(b, a) = Predecessors(b, a)
  BY DEF P!Predecessors, Predecessors
<1>12. \A b, a, s : P!MergePrevious(b, a, s) = MergePrevious(b, a, s)
  BY <1>4, <1>5, <1>6, <1>9, <1>11 DEF P!MergePrevious, MergePrevious
<1>13. \A b, a, s : P!AddMerged(b, a, s) = AddMerged(b, a, s)
  BY <1>10, <1>12 DEF P!AddMerged, AddMerged
<1>14. \A b : P!Agree(b) <=> Agree(b)
  BY DEF P!Agree, Agree
<1>15. \A a, s : P!Bytes(a, s) = Bytes(a, s)
  BY DEF P!Bytes, Bytes
<1>16. \A b : P!Disjoint(b) <=> Disjoint(b)
  BY <1>15 DEF P!Disjoint, Disjoint
<1>17. \A b : P!Merged(b) <=> Merged(b)
  BY DEF P!Merged, Merged
<1>18. \A b : P!BytesIn(b) = BytesIn(b)
  BY <1>15 DEF P!BytesIn, BytesIn
<1> QED BY <1>1, <1>6, <1>8, <1>9, <1>13, <1>14, <1>16, <1>17, <1>18

(* A page is known by its number, and by its offset. *)
LEMMA Offsets ==
  ASSUME NEW ps \in Nat \ {0}, NEW p \in Nat
  PROVE  p * ps \in Nat /\ (p * ps) \div ps = p
OBVIOUS

LEMMA SameOffset ==
  ASSUME NEW ps \in Nat \ {0}, NEW p \in Nat, NEW q \in Nat
  PROVE  /\ p * ps = q * ps => p = q
         /\ p * ps = q * ps + 1 => ps = 1 /\ p = q + 1
OBVIOUS

LEMMA SamePages ==
  ASSUME NEW ps \in Nat \ {0}, NEW N \in SUBSET Nat, IsFiniteSet(N)
  PROVE  LET offsets == {p * ps : p \in N} IN
         /\ IsFiniteSet(offsets) /\ Cardinality(offsets) = Cardinality(N)
         /\ {o \div ps : o \in offsets} = N
<1> DEFINE offsets == {p * ps : p \in N}
           f == [p \in N |-> p * ps]
<1>1. f \in [N -> offsets] /\ \A o \in offsets : \E p \in N : f[p] = o
  OBVIOUS
<1>2. \A p, q \in N : f[p] = f[q] => p = q
  BY SameOffset
<1>3. IsFiniteSet(offsets) /\ Cardinality(offsets) = Cardinality(N)
  <2> HIDE DEF f, offsets
  <2> QED BY <1>1, <1>2, OneToOne
<1>4. {o \div ps : o \in offsets} = N
  <2>1. \A p \in N : p * ps \in offsets /\ (p * ps) \div ps = p
    BY Offsets
  <2>2. \A o \in offsets : \E p \in N : o = p * ps
    OBVIOUS
  <2> HIDE DEF offsets
  <2>3. \A o \in offsets : o \div ps \in N
    BY <2>1, <2>2
  <2>4. \A p \in N : \E o \in offsets : p = o \div ps
    BY <2>1
  <2> QED BY <2>3, <2>4
<1> QED BY <1>3, <1>4

-----------------------------------------------------------------------------
PageInv ==
  /\ max \in 0..Pages /\ used \in Nat
  /\ pageSize \in PageSizes \cup {0} /\ (max > 0 => pageSize \in PageSizes)
  /\ Good(blocks) /\ Merged(blocks)
  /\ held = {p * pageSize : p \in P!PageNumbers}
  /\ BytesIn(blocks) \cup P!PageNumbers = 0..(max - 1)
  /\ BytesIn(blocks) \cap P!PageNumbers = {}
  /\ IsFiniteSet(held) /\ used = Cardinality(held)

LEMMA PageSizeIs ==
  ASSUME PageInv, held # {} \/ BytesIn(blocks) # {}
  PROVE  pageSize \in Nat \ {0} /\ pageSize \in PageSizes
<1>1. max > 0
  <2> SUFFICES ASSUME ~(max > 0) PROVE FALSE
    OBVIOUS
  <2>1. max \in Nat /\ max = 0
    BY DEF PageInv
  <2>2. 0..(max - 1) = {}
    BY <2>1
  <2> QED BY <2>2 DEF PageInv, P!PageNumbers
<1> QED BY <1>1, PagesAssumption DEF PageInv

LEMMA PagesInit == P!Init => PageInv
<1> SUFFICES ASSUME P!Init PROVE PageInv
  OBVIOUS
<1>1. max = 0 /\ used = 0 /\ pageSize = 0 /\ blocks = NoBlocks /\ held = {}
  BY SameMaps DEF P!Init
<1>2. /\ DOMAIN blocks.a2s = {} /\ DOMAIN blocks.s2a = {}
  BY <1>1 DEF NoBlocks, EmptyMap
<1>3. Good(blocks) /\ Merged(blocks)
  BY <1>2 DEF Good, Valid, Agree, Disjoint, Sized, Positive, Merged
<1>4. BytesIn(blocks) = {} /\ P!PageNumbers = {}
  BY <1>1, <1>2 DEF BytesIn, P!PageNumbers
<1>5. 0 \in 0..Pages /\ 0..(0 - 1) = {}
  BY PagesAssumption
<1>6. IsFiniteSet(held) /\ Cardinality(held) = 0
  BY <1>1, FS_EmptySet
<1> QED BY <1>1, <1>3, <1>4, <1>5, <1>6 DEF PageInv

LEMMA PagesSetUp == ASSUME PageInv, P!SetUp PROVE PageInv'
<1>1. PICK n \in 1..Pages, size \in PageSizes :
        max' = n /\ pageSize' = size /\ blocks' = AddFreeBlock(NoBlocks, 0, n)
  BY SameMaps DEF P!SetUp
<1>2. max = 0 /\ UNCHANGED <<used, held>>
  BY DEF P!SetUp
<1>3. held = {} /\ P!PageNumbers' = {}
  <2>1. P!PageNumbers = {}
    BY <1>2 DEF PageInv
  <2>2. held = {}
    BY <2>1 DEF PageInv
  <2> QED BY <1>2, <2>2 DEF P!PageNumbers
<1>4. DOMAIN NoBlocks.a2s = {} /\ DOMAIN NoBlocks.s2a = {}
  BY DEF NoBlocks, EmptyMap
<1>5. Valid(NoBlocks) /\ Positive(NoBlocks) /\ BytesIn(NoBlocks) = {}
  BY <1>4 DEF Valid, Agree, Disjoint, Sized, Positive, BytesIn
<1>6. n \in Nat /\ n > 0 /\ n \in 0..Pages
  BY <1>1, PagesAssumption
<1>7. /\ Valid(blocks') /\ Positive(blocks') /\ DOMAIN blocks'.a2s = {0}
      /\ BytesIn(blocks') = Bytes(0, n)
  <2>1. Bytes(0, n) \cap BytesIn(NoBlocks) = {} /\ 0 \in Nat /\ 0 \notin DOMAIN NoBlocks.a2s
    BY <1>4, <1>5
  <2> DEFINE b == NoBlocks
             a == 0
             r == AddFreeBlock(b, a, n)
  <2>2. Valid(b) /\ Positive(b) /\ DOMAIN b.a2s = {} /\ BytesIn(b) = {} /\ blocks' = r
    BY <1>1, <1>4, <1>5
  <2>3. n \in Nat /\ n > 0 /\ Bytes(a, n) \cap BytesIn(b) = {} /\ a \in Nat /\ a \notin DOMAIN b.a2s
    BY <1>6, <2>1
  <2> HIDE DEF b, a
  <2>4. /\ Valid(r) /\ (Positive(b) /\ n > 0 => Positive(r))
        /\ DOMAIN r.a2s = DOMAIN b.a2s \cup {a}
        /\ BytesIn(r) = BytesIn(b) \cup Bytes(a, n)
        /\ Merged(b) /\ n > 0 /\ a + n \notin DOMAIN b.a2s
             /\ (\A x \in DOMAIN b.a2s : x + b.a2s[x] # a) => Merged(r)
    BY <2>2, <2>3, Add
  <2> HIDE DEF r
  <2> QED BY <2>2, <2>3, <2>4 DEF a
<1>8. Merged(blocks')
  <2>1. blocks'.a2s[0] > 0 /\ blocks'.a2s[0] \in Nat
    BY <1>7 DEF Valid, Sized, Positive
  <2>2. 0 + blocks'.a2s[0] # 0
    BY <2>1
  <2> QED BY <1>7, <2>2 DEF Merged
<1>9. Bytes(0, n) = 0..(n - 1)
  BY <1>6 DEF Bytes
<1>10. held' = {p * pageSize' : p \in P!PageNumbers'}
  BY <1>2, <1>3
<1>11. /\ max' \in 0..Pages /\ used' \in Nat
       /\ pageSize' \in PageSizes \cup {0} /\ (max' > 0 => pageSize' \in PageSizes)
       /\ IsFiniteSet(held') /\ used' = Cardinality(held')
  BY <1>1, <1>2, <1>6 DEF PageInv
<1> QED BY <1>1, <1>3, <1>7, <1>8, <1>9, <1>10, <1>11 DEF PageInv, Good

-----------------------------------------------------------------------------
(* Alloc *)
LEMMA FirstIsBlock ==
  ASSUME NEW b, Good(b), NEW m \in Nat, BytesIn(b) \subseteq 0..m, BytesIn(b) # {}
  PROVE  /\ P!FirstBlock(b)[1] \in DOMAIN b.a2s
         /\ P!FirstBlock(b)[2] = b.a2s[P!FirstBlock(b)[1]]
<1> DEFINE size == Max(DOMAIN b.s2a)
           a == Min(b.s2a[size])
<1>1. P!FirstBlock(b)[1] = a /\ P!FirstBlock(b)[2] = size
  BY SameMaps DEF P!FirstBlock
<1>2. Agree(b) /\ Sized(b) /\ Positive(b)
  BY DEF Good, Valid
<1>3. DOMAIN b.s2a # {}
  <2>1. PICK x \in DOMAIN b.a2s : TRUE
    BY BytesOf
  <2> QED BY <1>2, <2>1 DEF Agree
<1>4. DOMAIN b.s2a \in SUBSET (0..(m + 1))
  <2> SUFFICES ASSUME NEW s \in DOMAIN b.s2a PROVE s \in 0..(m + 1)
    OBVIOUS
  <2>1. PICK x \in DOMAIN b.a2s : b.a2s[x] = s
    BY <1>2 DEF Agree
  <2>2. x \in Nat /\ s \in Nat /\ s > 0
    BY <1>2, <2>1 DEF Sized, Positive
  <2>3. x + s - 1 \in Bytes(x, s)
    BY <2>2 DEF Bytes
  <2>4. x + s - 1 \in 0..m
    BY <2>1, <2>3, BytesOf
  <2> QED BY <2>2, <2>4
<1>5. size \in DOMAIN b.s2a
  <2>1. m + 1 \in Nat
    OBVIOUS
  <2> QED BY <1>3, <1>4, <2>1, Greatest
<1> HIDE DEF size
<1>6. b.s2a[size] # {} /\ \A x \in b.s2a[size] : x \in DOMAIN b.a2s /\ b.a2s[x] = size
  BY <1>2, <1>5 DEF Agree
<1>7. b.s2a[size] \in SUBSET Nat
  BY <1>2, <1>6 DEF Sized
<1>8. a \in b.s2a[size]
  BY <1>6, <1>7, Least
<1> QED BY <1>1, <1>6, <1>8

Takeable(rest, b, m) ==
  /\ rest \in Nat /\ rest > 0 /\ m \in Nat
  /\ Good(b) /\ Merged(b) /\ BytesIn(b) \subseteq 0..m /\ BytesIn(b) # {}

(* What the step of TakeFrom leads to, n pages from a *)
Took(r, rest, pages, b, a, n) ==
  /\ n > 0 /\ n <= rest /\ Bytes(a, n) \subseteq BytesIn(b)
  /\ r = [rest |-> rest - n, pages |-> pages \cup Bytes(a, n), blocks |-> r.blocks]
  /\ Good(r.blocks) /\ Merged(r.blocks)
  /\ BytesIn(r.blocks) = BytesIn(b) \ Bytes(a, n)

LEMMA TakesFrom ==
  ASSUME NEW rest, NEW pages, NEW b, NEW m, Takeable(rest, b, m),
         NEW r, r = P!TakeFrom([rest |-> rest, pages |-> pages, blocks |-> b])
  PROVE  \E a, n \in Nat : Took(r, rest, pages, b, a, n)
<1>0. /\ rest \in Nat /\ rest > 0 /\ m \in Nat
      /\ Good(b) /\ Merged(b) /\ BytesIn(b) \subseteq 0..m /\ BytesIn(b) # {}
  BY DEF Takeable
<1> DEFINE acc == [rest |-> rest, pages |-> pages, blocks |-> b]
           a == P!FirstBlock(b)[1]
           s == P!FirstBlock(b)[2]
           n == P!Min({rest, s})
           c == AddRest(RemoveBlock(b, a), a + n, s - n)
<1>1. a \in DOMAIN b.a2s /\ s = b.a2s[a] /\ a \in Nat /\ s \in Nat /\ s > 0
  <2>1. a \in DOMAIN b.a2s /\ s = b.a2s[a]
    BY <1>0, FirstIsBlock
  <2> HIDE DEF a, s
  <2> QED BY <1>0, <2>1 DEF Good, Valid, Sized, Positive
<1> HIDE DEF a, s
<1>2. n \in {rest, s} /\ n <= rest /\ n <= s
  <2>1. {rest, s} \in SUBSET Nat /\ {rest, s} # {}
    BY <1>0, <1>1
  <2>2. Min({rest, s}) \in {rest, s} /\ \A x \in {rest, s} : Min({rest, s}) <= x
    BY <2>1, Least
  <2> QED BY <1>0, <1>1, <2>2, SameMaps
<1>3. r = [rest |-> rest - n, pages |-> pages \cup a..(a + n - 1),
           blocks |-> P!KeepRest(P!RemoveFreeBlock(b, a, s), a, n, s)]
  <2>1. acc.rest = rest /\ acc.pages = pages /\ acc.blocks = b
    OBVIOUS
  <2> HIDE DEF acc
  <2>2. r = IF acc.rest = 0 THEN acc
            ELSE [rest |-> acc.rest - P!Min({acc.rest, P!FirstBlock(acc.blocks)[2]}),
                  pages |-> acc.pages \cup P!FirstBlock(acc.blocks)[1]
                              ..(P!FirstBlock(acc.blocks)[1]
                                 + P!Min({acc.rest, P!FirstBlock(acc.blocks)[2]}) - 1),
                  blocks |-> P!KeepRest(
                    P!RemoveFreeBlock(acc.blocks, P!FirstBlock(acc.blocks)[1], P!FirstBlock(acc.blocks)[2]),
                    P!FirstBlock(acc.blocks)[1],
                    P!Min({acc.rest, P!FirstBlock(acc.blocks)[2]}), P!FirstBlock(acc.blocks)[2])]
    BY Zenon DEF P!TakeFrom, acc
  <2>3. acc.rest # 0
    BY <1>0, <2>1
  <2>4. P!FirstBlock(acc.blocks)[1] = a /\ P!FirstBlock(acc.blocks)[2] = s
        /\ P!Min({acc.rest, P!FirstBlock(acc.blocks)[2]}) = n
    BY <2>1, Zenon DEF a, s
  <2> HIDE DEF n
  <2> QED BY <2>1, <2>2, <2>3, <2>4
<1> HIDE DEF n
<1>4. n \in Nat /\ n > 0
  BY <1>0, <1>1, <1>2
<1>5. P!KeepRest(P!RemoveFreeBlock(b, a, s), a, n, s) = c
  <2>1. P!RemoveFreeBlock(b, a, s) = RemoveBlock(b, a)
    BY <1>1, SameMaps
  <2>2. n < s <=> s - n > 0
    BY <1>1, <1>4
  <2> QED BY <2>1, <2>2, SameMaps DEF P!KeepRest, AddRest
<1>6. r = [rest |-> rest - n, pages |-> pages \cup Bytes(a, n), blocks |-> c]
  BY <1>3, <1>5 DEF Bytes
<1>7. LET d == AddRest(RemoveBlock(b, a), a + n, b.a2s[a] - n) IN
      /\ Good(d)
      /\ BytesIn(d) = BytesIn(b) \ Bytes(a, n)
      /\ Bytes(a, n) \subseteq BytesIn(b)
      /\ Merged(b) => Merged(d)
  BY <1>0, <1>1, <1>2, <1>4, Split
<1>8. Good(c) /\ Merged(c) /\ BytesIn(c) = BytesIn(b) \ Bytes(a, n) /\ Bytes(a, n) \subseteq BytesIn(b)
  BY <1>0, <1>1, <1>7
<1> HIDE DEF c
<1>9. r.blocks = c
  BY <1>6
<1> QED BY <1>1, <1>2, <1>4, <1>6, <1>8, <1>9 DEF Took

(* The loop: its state after each block *)
Taking(f, needed, k) ==
  /\ f = [i \in 0..k |-> f[i]]
  /\ f[0] = [rest |-> needed, pages |-> {}, blocks |-> blocks]
  /\ \A i \in 1..k : f[i] = P!TakeFrom(f[i - 1])

LEMMA TakingExists ==
  ASSUME NEW needed \in Nat
  PROVE  \E f : Taking(f, needed, needed)
<1> DEFINE Q == {k \in Nat : \E f : Taking(f, needed, k)}
<1>1. 0 \in Q
  <2> DEFINE f == [i \in 0..0 |-> [rest |-> needed, pages |-> {}, blocks |-> blocks]]
  <2>1. Taking(f, needed, 0)
    BY DEF Taking
  <2> QED BY <2>1
<1>2. ASSUME NEW k \in Q PROVE k + 1 \in Q
  <2>1. PICK f : Taking(f, needed, k)
    OBVIOUS
  <2> DEFINE g == [i \in 0..(k + 1) |-> IF i = k + 1 THEN P!TakeFrom(f[k]) ELSE f[i]]
  <2>2. /\ k \in Nat /\ g = [i \in 0..(k + 1) |-> g[i]]
        /\ g[k + 1] = P!TakeFrom(f[k]) /\ \A i \in 0..k : g[i] = f[i]
    OBVIOUS
  <2> HIDE DEF g
  <2>3. g[0] = [rest |-> needed, pages |-> {}, blocks |-> blocks]
    <3>1. 0 \in 0..k
      BY <2>2
    <3>2. f[0] = [rest |-> needed, pages |-> {}, blocks |-> blocks]
      BY <2>1 DEF Taking
    <3> QED BY <2>2, <3>1, <3>2
  <2>4. ASSUME NEW i \in 1..(k + 1) PROVE g[i] = P!TakeFrom(g[i - 1])
    <3>1. CASE i = k + 1
      <4>1. i - 1 = k /\ k \in 0..k
        BY <2>2, <3>1
      <4>2. g[i - 1] = f[k]
        BY <2>2, <4>1
      <4> QED BY <2>2, <3>1, <4>2
    <3>2. CASE i # k + 1
      <4>1. i \in 1..k /\ i \in 0..k /\ i - 1 \in 0..k
        BY <2>2, <3>2
      <4> QED BY <2>1, <2>2, <4>1 DEF Taking
    <3> QED BY <3>1, <3>2
  <2>5. Taking(g, needed, k + 1)
    BY <2>2, <2>3, <2>4 DEF Taking
  <2> QED BY <2>2, <2>5
<1>3. Q = Nat
  <2> HIDE DEF Q
  <2>1. Q \in SUBSET Nat
    BY DEF Q
  <2> QED BY <1>1, <1>2, <2>1, Induction
<1> QED BY <1>3

LEMMA AllocTakes ==
  ASSUME NEW needed \in Nat, P!Alloc(needed)
  PROVE  \E f : /\ Taking(f, needed, needed) /\ blocks' = f[needed].blocks
                /\ held' = held \cup {p * pageSize : p \in f[needed].pages}
<1> DEFINE start == [rest |-> needed, pages |-> {}, blocks |-> blocks]
           took == CHOOSE f : f = [i \in 0..needed |->
                      IF i = 0 THEN start ELSE P!TakeFrom(f[i - 1])]
<1>1. PICK f : Taking(f, needed, needed)
  BY TakingExists
<1>2. f = [i \in 0..needed |-> IF i = 0 THEN start ELSE P!TakeFrom(f[i - 1])]
  <2> HIDE DEF start
  <2>1. ASSUME NEW i \in 0..needed PROVE f[i] = IF i = 0 THEN start ELSE P!TakeFrom(f[i - 1])
    <3>1. i = 0 \/ i \in 1..needed
      OBVIOUS
    <3> QED BY <1>1, <3>1 DEF Taking, start
  <2>2. f = [i \in 0..needed |-> f[i]]
    BY <1>1 DEF Taking
  <2> QED BY <2>1, <2>2
<1> HIDE DEF start
<1>3. took = [i \in 0..needed |-> IF i = 0 THEN start ELSE P!TakeFrom(took[i - 1])]
  BY <1>2, Zenon
<1>4. /\ blocks' = took[needed].blocks
      /\ held' = held \cup {p * pageSize : p \in took[needed].pages}
  BY Zenon DEF P!Alloc, start
<1> HIDE DEF took
<1>5. Taking(took, needed, needed)
  <2>1. took = [i \in 0..needed |-> took[i]]
    BY <1>3
  <2>2. \A i \in 0..needed : took[i] = IF i = 0 THEN start ELSE P!TakeFrom(took[i - 1])
    BY <1>3
  <2>3. took[0] = start
    BY <2>2
  <2>4. \A i \in 1..needed : took[i] = P!TakeFrom(took[i - 1])
    BY <2>2
  <2> QED BY <2>1, <2>3, <2>4 DEF Taking, start
<1> QED BY <1>4, <1>5

-----------------------------------------------------------------------------
(* After i blocks *)
Taken(i, needed, rest, pages, b) ==
  /\ rest \in Nat /\ (rest = 0 \/ rest <= needed - i) /\ rest <= needed
  /\ pages \subseteq BytesIn(blocks) /\ IsFiniteSet(pages) /\ Cardinality(pages) = needed - rest
  /\ Good(b) /\ Merged(b) /\ BytesIn(b) = BytesIn(blocks) \ pages

Enough(needed, m) ==
  /\ needed \in Nat /\ m \in Nat /\ Good(blocks) /\ BytesIn(blocks) \subseteq 0..m
  /\ needed <= Cardinality(BytesIn(blocks))

LEMMA TakesOne ==
  ASSUME NEW needed, NEW m, Enough(needed, m),
         NEW i \in Nat, NEW rest, NEW pages, NEW b, Taken(i, needed, rest, pages, b)
  PROVE  \E rest2, pages2, b2 :
           /\ Taken(i + 1, needed, rest2, pages2, b2)
           /\ P!TakeFrom([rest |-> rest, pages |-> pages, blocks |-> b])
              = [rest |-> rest2, pages |-> pages2, blocks |-> b2]
<1>0. /\ rest \in Nat /\ (rest = 0 \/ rest <= needed - i) /\ rest <= needed
      /\ pages \subseteq BytesIn(blocks) /\ IsFiniteSet(pages) /\ Cardinality(pages) = needed - rest
      /\ Good(b) /\ Merged(b) /\ BytesIn(b) = BytesIn(blocks) \ pages
      /\ needed \in Nat /\ m \in Nat /\ Good(blocks) /\ BytesIn(blocks) \subseteq 0..m
      /\ needed <= Cardinality(BytesIn(blocks))
  BY DEF Taken, Enough
<1>1. CASE rest = 0
  <2>1. P!TakeFrom([rest |-> rest, pages |-> pages, blocks |-> b])
        = [rest |-> rest, pages |-> pages, blocks |-> b]
    <3> DEFINE acc == [rest |-> rest, pages |-> pages, blocks |-> b]
    <3>1. acc.rest = 0
      BY <1>1
    <3> HIDE DEF acc
    <3>2. P!TakeFrom(acc) = acc
      BY <3>1 DEF P!TakeFrom
    <3> QED BY <3>2 DEF acc
  <2>2. Taken(i + 1, needed, rest, pages, b)
    BY <1>0, <1>1 DEF Taken
  <2> QED BY <2>1, <2>2
<1>2. CASE rest # 0
  <2>1. BytesIn(b) # {}
    <3> SUFFICES ASSUME BytesIn(b) = {} PROVE FALSE
      OBVIOUS
    <3>1. pages = BytesIn(blocks)
      BY <1>0
    <3>2. needed <= needed - rest
      BY <1>0, <3>1
    <3> QED BY <1>0, <1>2, <3>2
  <2> DEFINE r == P!TakeFrom([rest |-> rest, pages |-> pages, blocks |-> b])
  <2>0. r = P!TakeFrom([rest |-> rest, pages |-> pages, blocks |-> b])
    OBVIOUS
  <2> HIDE DEF r
  <2>9. Takeable(rest, b, m)
    BY <1>0, <1>2, <2>1 DEF Takeable
  <2>10. PICK a \in Nat, n \in Nat : Took(r, rest, pages, b, a, n)
    BY <2>0, <2>9, TakesFrom
  <2>2. /\ n > 0 /\ n <= rest /\ Bytes(a, n) \subseteq BytesIn(b)
        /\ r = [rest |-> rest - n, pages |-> pages \cup Bytes(a, n), blocks |-> r.blocks]
        /\ Good(r.blocks) /\ Merged(r.blocks)
        /\ BytesIn(r.blocks) = BytesIn(b) \ Bytes(a, n)
    BY <2>10 DEF Took
  <2>3. IsFiniteSet(Bytes(a, n)) /\ Cardinality(Bytes(a, n)) = n
    <3>1. a \in Int /\ a + n - 1 \in Int /\ ~(a > a + n - 1) /\ a + n - 1 - a + 1 = n
      BY <2>2
    <3> QED BY <3>1, FS_Interval DEF Bytes
  <2>4. IsFiniteSet(pages \cup Bytes(a, n)) /\ Cardinality(pages \cup Bytes(a, n)) = needed - (rest - n)
    <3>1. pages \cap Bytes(a, n) = {}
      BY <1>0, <2>2
    <3>2. /\ IsFiniteSet(pages \cup Bytes(a, n))
          /\ Cardinality(pages \cup Bytes(a, n))
             = Cardinality(pages) + Cardinality(Bytes(a, n)) - Cardinality(pages \cap Bytes(a, n))
      BY <1>0, <2>3, FS_Union
    <3>3. Cardinality(pages \cap Bytes(a, n)) = 0
      BY <3>1, FS_EmptySet
    <3>4. (needed - rest) + n - 0 = needed - (rest - n)
      BY <1>0, <2>2
    <3> QED BY <1>0, <2>3, <3>2, <3>3, <3>4
  <2>5. rest - n \in Nat /\ (rest - n = 0 \/ rest - n <= needed - (i + 1)) /\ rest - n <= needed
    BY <1>0, <1>2, <2>2
  <2>6. Taken(i + 1, needed, rest - n, pages \cup Bytes(a, n), r.blocks)
    <3>1. BytesIn(r.blocks) = BytesIn(blocks) \ (pages \cup Bytes(a, n))
      BY <1>0, <2>2
    <3>2. pages \cup Bytes(a, n) \subseteq BytesIn(blocks)
      BY <1>0, <2>2
    <3> QED BY <2>2, <2>4, <2>5, <3>1, <3>2 DEF Taken
  <2> QED BY <2>0, <2>2, <2>6
<1> QED BY <1>1, <1>2

LEMMA AllTaken ==
  ASSUME NEW needed, NEW m, Enough(needed, m), Merged(blocks),
         NEW f, Taking(f, needed, needed)
  PROVE  \E pages, b : /\ Taken(needed, needed, 0, pages, b)
                       /\ f[needed].pages = pages /\ f[needed].blocks = b
<1> DEFINE Record(rest, pages, b) == [rest |-> rest, pages |-> pages, blocks |-> b]
           At(i) == \E rest, pages, b :
                      Taken(i, needed, rest, pages, b) /\ f[i] = Record(rest, pages, b)
           Q == {i \in Nat : i <= needed => At(i)}
<1>0. needed \in Nat /\ Good(blocks)
  BY DEF Enough
<1>1. 0 \in Q
  <2>1. f[0] = Record(needed, {}, blocks)
    BY DEF Taking
  <2>2. Taken(0, needed, needed, {}, blocks)
    <3>1. IsFiniteSet({}) /\ Cardinality({}) = 0
      BY FS_EmptySet
    <3>2. needed - needed = 0 /\ needed <= needed - 0
      BY <1>0
    <3> QED BY <1>0, <3>1, <3>2 DEF Taken
  <2>3. At(0)
    BY <2>1, <2>2
  <2> HIDE DEF At
  <2> QED BY <2>3
<1>2. ASSUME NEW i \in Q PROVE i + 1 \in Q
  <2> SUFFICES ASSUME i + 1 <= needed PROVE At(i + 1)
    OBVIOUS
  <2>1. i \in Nat /\ At(i)
    <3> HIDE DEF At
    <3>1. i \in Nat /\ (i <= needed => At(i))
      OBVIOUS
    <3> QED BY <1>0, <3>1
  <2>2. PICK rest, pages, b : Taken(i, needed, rest, pages, b) /\ f[i] = Record(rest, pages, b)
    BY <2>1
  <2>3. f[i + 1] = P!TakeFrom(f[i])
    <3>1. i + 1 \in 1..needed /\ (i + 1) - 1 = i
      BY <1>0, <2>1
    <3>2. \A k \in 1..needed : f[k] = P!TakeFrom(f[k - 1])
      BY DEF Taking
    <3>3. f[i + 1] = P!TakeFrom(f[(i + 1) - 1])
      BY <3>1, <3>2
    <3> QED BY <3>1, <3>3
  <2>4. PICK rest2, pages2, b2 :
           /\ Taken(i + 1, needed, rest2, pages2, b2)
           /\ P!TakeFrom([rest |-> rest, pages |-> pages, blocks |-> b])
              = [rest |-> rest2, pages |-> pages2, blocks |-> b2]
    <3>1. Taken(i, needed, rest, pages, b)
      BY <2>2
    <3> HIDE DEF At, Q, Record
    <3> QED BY <2>1, <3>1, TakesOne
  <2>5. f[i + 1] = Record(rest2, pages2, b2)
    BY <2>2, <2>3, <2>4
  <2> QED BY <2>4, <2>5
<1>3. Q = Nat
  <2> HIDE DEF At
  <2>1. Q \in SUBSET Nat
    OBVIOUS
  <2> HIDE DEF Q
  <2> QED BY <1>1, <1>2, <2>1, Induction
<1>4. At(needed)
  <2> HIDE DEF At
  <2> QED BY <1>0, <1>3
<1>5. PICK rest, pages, b : Taken(needed, needed, rest, pages, b) /\ f[needed] = Record(rest, pages, b)
  BY <1>4
<1>6. rest = 0
  BY <1>0, <1>5 DEF Taken
<1>7. f[needed].pages = pages /\ f[needed].blocks = b
  BY <1>5
<1> QED BY <1>5, <1>6, <1>7

LEMMA AllPages ==
  ASSUME PageInv
  PROVE  /\ IsFiniteSet(BytesIn(blocks)) /\ IsFiniteSet(P!PageNumbers)
         /\ Cardinality(P!PageNumbers) = used
         /\ Cardinality(BytesIn(blocks)) = max - used
         /\ BytesIn(blocks) \subseteq 0..max /\ max \in Nat /\ used <= max
<1>1. /\ max \in Nat /\ used \in Nat /\ IsFiniteSet(held) /\ used = Cardinality(held)
      /\ held = {p * pageSize : p \in P!PageNumbers}
      /\ BytesIn(blocks) \cup P!PageNumbers = 0..(max - 1)
      /\ BytesIn(blocks) \cap P!PageNumbers = {}
  BY PagesAssumption DEF PageInv
<1>2. IsFiniteSet(0..(max - 1)) /\ Cardinality(0..(max - 1)) = max
  <2>1. 0 \in Int /\ max - 1 \in Int /\ (0 > max - 1 => max = 0) /\ max - 1 - 0 + 1 = max
    BY <1>1
  <2> QED BY <2>1, FS_Interval
<1>3. IsFiniteSet(BytesIn(blocks)) /\ IsFiniteSet(P!PageNumbers)
  BY <1>1, <1>2, FS_Subset
<1>4. Cardinality(P!PageNumbers) = used
  <2>1. CASE held = {}
    <3>1. P!PageNumbers = {}
      BY <1>1, <2>1
    <3> QED BY <1>1, <2>1, <3>1, FS_EmptySet
  <2>2. CASE held # {}
    <3>1. pageSize \in Nat \ {0} /\ P!PageNumbers \in SUBSET Nat
      <4>1. 0..(max - 1) \subseteq Nat
        OBVIOUS
      <4> QED BY <1>1, <2>2, <4>1, PageSizeIs
    <3> DEFINE N == P!PageNumbers
    <3>2. N \in SUBSET Nat /\ IsFiniteSet(N) /\ held = {p * pageSize : p \in N}
      BY <1>1, <1>3, <3>1
    <3> HIDE DEF N
    <3>3. LET offsets == {p * pageSize : p \in N} IN
          /\ IsFiniteSet(offsets) /\ Cardinality(offsets) = Cardinality(N)
          /\ {o \div pageSize : o \in offsets} = N
      BY <3>1, <3>2, SamePages
    <3>4. Cardinality(N) = Cardinality(held)
      BY <3>2, <3>3
    <3> QED BY <1>1, <3>4 DEF N
  <2> QED BY <2>1, <2>2
<1>5. Cardinality(BytesIn(blocks)) = max - used
  <2> DEFINE B == BytesIn(blocks)
             N == P!PageNumbers
  <2>1. IsFiniteSet(B) /\ IsFiniteSet(N) /\ B \cup N = 0..(max - 1) /\ B \cap N = {}
    BY <1>1, <1>3
  <2> HIDE DEF B, N
  <2>2. Cardinality(B \cup N) = Cardinality(B) + Cardinality(N) - Cardinality(B \cap N)
    BY <2>1, FS_Union
  <2>3. Cardinality(B \cap N) = 0 /\ Cardinality(B \cup N) = max /\ Cardinality(N) = used
    BY <1>2, <1>4, <2>1, FS_EmptySet DEF N
  <2>4. Cardinality(B) \in Nat
    BY <2>1, FS_CardinalityType
  <2>5. Cardinality(B) = max - used
    BY <1>1, <2>2, <2>3, <2>4
  <2> QED BY <2>5 DEF B
<1>6. Cardinality(BytesIn(blocks)) \in Nat
  BY <1>3, FS_CardinalityType
<1>7. used <= max
  BY <1>1, <1>5, <1>6
<1>8. BytesIn(blocks) \subseteq 0..max
  <2>1. 0..(max - 1) \subseteq 0..max
    BY <1>1
  <2> QED BY <1>1, <2>1
<1> QED BY <1>1, <1>3, <1>4, <1>5, <1>7, <1>8

LEMMA PagesAlloc ==
  ASSUME PageInv, NEW needed \in 1..Pages, P!Alloc(needed)
  PROVE  PageInv'
<1>1. needed \in Nat /\ needed > 0 /\ needed <= max - used
  BY PagesAssumption DEF P!Alloc, P!Avail
<1>2. /\ IsFiniteSet(BytesIn(blocks)) /\ IsFiniteSet(P!PageNumbers)
      /\ Cardinality(P!PageNumbers) = used
      /\ Cardinality(BytesIn(blocks)) = max - used
      /\ BytesIn(blocks) \subseteq 0..max /\ max \in Nat /\ used <= max
  BY AllPages
<1>3. PICK f : /\ Taking(f, needed, needed) /\ blocks' = f[needed].blocks
               /\ held' = held \cup {p * pageSize : p \in f[needed].pages}
  BY <1>1, AllocTakes
<1>4. PICK pages, b : /\ Taken(needed, needed, 0, pages, b)
                      /\ f[needed].pages = pages /\ f[needed].blocks = b
  <2>1. Enough(needed, max) /\ Merged(blocks)
    BY <1>1, <1>2 DEF Enough, PageInv
  <2> QED BY <1>3, <2>1, AllTaken
<1>5. /\ pages \subseteq BytesIn(blocks) /\ IsFiniteSet(pages) /\ Cardinality(pages) = needed
      /\ Good(blocks') /\ Merged(blocks') /\ BytesIn(blocks') = BytesIn(blocks) \ pages
      /\ held' = held \cup {p * pageSize : p \in pages}
  <2>1. needed - 0 = needed
    BY <1>1
  <2> QED BY <1>3, <1>4, <2>1 DEF Taken
<1>6. used' = used + needed /\ max' = max /\ pageSize' = pageSize
  BY DEF P!Alloc
<1>7. BytesIn(blocks) # {}
  BY <1>1, <1>2, FS_EmptySet
<1>8. pageSize \in Nat \ {0}
  BY <1>7, PageSizeIs
<1> DEFINE N == P!PageNumbers
           K == N \cup pages
<1>9. /\ held = {p * pageSize : p \in N} /\ BytesIn(blocks) \cup N = 0..(max - 1)
      /\ BytesIn(blocks) \cap N = {} /\ used \in Nat
      /\ IsFiniteSet(N) /\ Cardinality(N) = used
  BY <1>2 DEF PageInv
<1>10. N \cap pages = {} /\ K \in SUBSET Nat /\ IsFiniteSet(K)
  <2>1. 0..(max - 1) \subseteq Nat
    BY <1>2
  <2>2. IsFiniteSet(K)
    BY <1>5, <1>9, FS_Union
  <2> HIDE DEF N
  <2> QED BY <1>5, <1>9, <2>1, <2>2
<1>11. Cardinality(K) = used + needed
  <2> HIDE DEF N
  <2>1. Cardinality(N \cup pages) = Cardinality(N) + Cardinality(pages) - Cardinality(N \cap pages)
    BY <1>5, <1>9, FS_Union
  <2>2. Cardinality(N \cap pages) = 0
    BY <1>10, FS_EmptySet
  <2> QED BY <1>1, <1>5, <1>9, <2>1, <2>2
<1> HIDE DEF N
<1>12. held' = {p * pageSize : p \in K}
  BY <1>5, <1>9
<1> HIDE DEF K
<1>13. /\ IsFiniteSet(held') /\ Cardinality(held') = Cardinality(K)
       /\ {o \div pageSize : o \in held'} = K
  <2>1. LET offsets == {p * pageSize : p \in K} IN
        /\ IsFiniteSet(offsets) /\ Cardinality(offsets) = Cardinality(K)
        /\ {o \div pageSize : o \in offsets} = K
    BY <1>8, <1>10, SamePages
  <2> QED BY <1>12, <2>1
<1>14. P!PageNumbers' = K
  BY <1>6, <1>13 DEF P!PageNumbers
<1>15. held' = {p * pageSize' : p \in P!PageNumbers'}
  BY <1>6, <1>12, <1>14
<1>16. /\ BytesIn(blocks') \cup P!PageNumbers' = 0..(max' - 1)
       /\ BytesIn(blocks') \cap P!PageNumbers' = {}
  <2>1. /\ BytesIn(blocks') \cup K = 0..(max - 1)
        /\ BytesIn(blocks') \cap K = {}
    BY <1>5, <1>9, <1>10 DEF K
  <2> QED BY <1>6, <1>14, <2>1
<1>17. used' \in Nat /\ used' = Cardinality(held')
  BY <1>1, <1>6, <1>9, <1>11, <1>13
<1>18. /\ max' \in 0..Pages /\ pageSize' \in PageSizes \cup {0}
       /\ (max' > 0 => pageSize' \in PageSizes)
  BY <1>6 DEF PageInv
<1> QED BY <1>5, <1>13, <1>15, <1>16, <1>17, <1>18 DEF PageInv

-----------------------------------------------------------------------------
(* Free: a list of offsets, each once *)
Listed(list) ==
  /\ Len(list) \in Nat /\ Len(list) > 0 /\ list \in [1..Len(list) -> held]
  /\ \A i, j \in 1..Len(list) : list[i] = list[j] => i = j

PageAt(list, i) == list[i] \div pageSize
PagesTo(list, i) == {PageAt(list, j) : j \in 1..i}

LEMMA ListIs ==
  ASSUME NEW returned \in SUBSET held, IsFiniteSet(held),
         NEW list \in P!Injection(1..P!Cardinality(returned), returned),
         list # <<>>
  PROVE  Listed(list) /\ P!Range(list) = {list[i] : i \in 1..Len(list)}
<1> DEFINE n == Cardinality(returned)
<1>1. n \in Nat
  <2>1. IsFiniteSet(returned)
    BY FS_Subset
  <2> QED BY <2>1, FS_CardinalityType
<1>2. P!Cardinality(returned) = n
  BY SameMaps
<1>3. list \in [1..n -> returned] /\ \A i, j \in 1..n : i # j => list[i] # list[j]
  <2> HIDE DEF n
  <2> QED BY <1>2 DEF P!Injection, P!IsInjective
<1> HIDE DEF n
<1>4. Len(list) = n /\ DOMAIN list = 1..n
  BY <1>1, <1>3
<1>5. n > 0
  <2> SUFFICES ASSUME n = 0 PROVE FALSE
    BY <1>1
  <2>1. list \in Seq(returned) /\ Len(list) = 0
    BY <1>1, <1>3, <1>4
  <2> QED BY <2>1
<1>6. Listed(list)
  BY <1>1, <1>3, <1>4, <1>5 DEF Listed
<1>7. P!Range(list) = {list[i] : i \in 1..Len(list)}
  BY <1>4 DEF P!Range
<1> QED BY <1>6, <1>7

LEMMA ListedPages ==
  ASSUME PageInv, NEW list, Listed(list)
  PROVE  /\ pageSize \in Nat \ {0}
         /\ \A i \in 1..Len(list) :
              /\ PageAt(list, i) \in Nat /\ PageAt(list, i) \in P!PageNumbers
              /\ list[i] = PageAt(list, i) * pageSize
         /\ \A i, j \in 1..Len(list) : PageAt(list, i) = PageAt(list, j) => i = j
<1>1. pageSize \in Nat \ {0}
  <2>1. list[1] \in held
    BY DEF Listed
  <2> QED BY <2>1, PageSizeIs
<1>2. P!PageNumbers \subseteq Nat /\ held = {p * pageSize : p \in P!PageNumbers}
  <2>1. 0..(max - 1) \subseteq Nat
    OBVIOUS
  <2> QED BY <2>1 DEF PageInv
<1>3. ASSUME NEW i \in 1..Len(list)
      PROVE  /\ PageAt(list, i) \in Nat /\ PageAt(list, i) \in P!PageNumbers
             /\ list[i] = PageAt(list, i) * pageSize
  <2>1. list[i] \in held
    BY DEF Listed
  <2>2. PICK p \in P!PageNumbers : list[i] = p * pageSize
    BY <1>2, <2>1
  <2>3. p \in Nat
    BY <1>2
  <2>4. (p * pageSize) \div pageSize = p
    BY <1>1, <2>3, Offsets
  <2>5. PageAt(list, i) = p
    BY <2>2, <2>4 DEF PageAt
  <2> QED BY <2>2, <2>3, <2>5
<1>4. ASSUME NEW i \in 1..Len(list), NEW j \in 1..Len(list), PageAt(list, i) = PageAt(list, j)
      PROVE  i = j
  <2>1. list[i] = list[j]
    BY <1>3, <1>4
  <2> QED BY <2>1 DEF Listed
<1> QED BY <1>1, <1>3, <1>4

(* After offset i: n pages from s are collected, not yet in the blocks. *)
Run(i, list, acc, s, n) ==
  /\ s \in Nat /\ n \in Nat /\ n > 0
  /\ acc = [blocks |-> acc.blocks, start |-> s * pageSize,
            prev |-> (s + n - 1) * pageSize, size |-> n]
  /\ Bytes(s, n) \subseteq PagesTo(list, i)
  /\ Good(acc.blocks) /\ Merged(acc.blocks)
  /\ BytesIn(acc.blocks) = BytesIn(blocks) \cup (PagesTo(list, i) \ Bytes(s, n))

LEMMA PagesToIs ==
  ASSUME PageInv, NEW list, Listed(list), NEW i \in 1..Len(list)
  PROVE  /\ PagesTo(list, i) \subseteq P!PageNumbers
         /\ i # Len(list) => /\ PageAt(list, i + 1) \notin PagesTo(list, i)
                             /\ PagesTo(list, i + 1) = PagesTo(list, i) \cup {PageAt(list, i + 1)}
<1>1. Len(list) \in Nat
  BY DEF Listed
<1>2. \A j \in 1..i : j \in 1..Len(list)
  BY <1>1
<1>3. PagesTo(list, i) \subseteq P!PageNumbers
  BY <1>2, ListedPages DEF PagesTo
<1>4. ASSUME i # Len(list)
      PROVE  /\ PageAt(list, i + 1) \notin PagesTo(list, i)
             /\ PagesTo(list, i + 1) = PagesTo(list, i) \cup {PageAt(list, i + 1)}
  <2>1. i + 1 \in 1..Len(list) /\ i + 1 \notin 1..i /\ 1..(i + 1) = (1..i) \cup {i + 1}
    BY <1>1, <1>4
  <2>2. \A j \in 1..i : PageAt(list, j) # PageAt(list, i + 1)
    BY <1>2, <2>1, ListedPages
  <2> QED BY <2>1, <2>2 DEF PagesTo
<1> QED BY <1>3, <1>4

LEMMA Closes ==
  ASSUME PageInv, NEW list, Listed(list), NEW i \in 1..Len(list), NEW acc, NEW s, NEW n,
         Run(i, list, acc, s, n)
  PROVE  /\ Good(P!Closed(acc)) /\ Merged(P!Closed(acc))
         /\ BytesIn(P!Closed(acc)) = BytesIn(blocks) \cup PagesTo(list, i)
<1>1. /\ s \in Nat /\ n \in Nat /\ n > 0
      /\ Bytes(s, n) \subseteq PagesTo(list, i)
      /\ Good(acc.blocks) /\ Merged(acc.blocks)
      /\ BytesIn(acc.blocks) = BytesIn(blocks) \cup (PagesTo(list, i) \ Bytes(s, n))
  BY DEF Run
<1>2. acc.start = s * pageSize /\ acc.size = n
  BY DEF Run
<1>3. acc.start \div pageSize = s
  BY <1>1, <1>2, ListedPages, Offsets
<1> DEFINE b == acc.blocks
           r == AddMerged(b, s, n)
<1>4. P!Closed(acc) = r
  BY <1>2, <1>3, SameMaps DEF P!Closed, P!AddMergeFreeBlock
<1>5. Bytes(s, n) \cap BytesIn(b) = {}
  <2>1. PagesTo(list, i) \cap BytesIn(blocks) = {}
    BY PagesToIs DEF PageInv
  <2> QED BY <1>1, <2>1
<1>6. Good(b) /\ Merged(b) /\ BytesIn(b) = BytesIn(blocks) \cup (PagesTo(list, i) \ Bytes(s, n))
  BY <1>1
<1> HIDE DEF b
<1>7. /\ Valid(r) /\ (n > 0 => Positive(r))
      /\ DOMAIN r.a2s \subseteq DOMAIN b.a2s \cup {s}
      /\ BytesIn(r) = BytesIn(b) \cup Bytes(s, n)
      /\ Merged(b) /\ n > 0 => Merged(r)
  BY <1>1, <1>5, <1>6, AddsMerged
<1> HIDE DEF r
<1>8. BytesIn(r) = BytesIn(blocks) \cup PagesTo(list, i)
  BY <1>1, <1>6, <1>7
<1> QED BY <1>1, <1>4, <1>6, <1>7, <1>8 DEF Good

LEMMA CollectsOne ==
  ASSUME PageInv, NEW list, Listed(list), NEW i \in 1..Len(list), i # Len(list),
         NEW acc, NEW s, NEW n, Run(i, list, acc, s, n)
  PROVE  \E t, k : Run(i + 1, list, P!Collect(acc, list[i + 1]), t, k)
<1> DEFINE q == PageAt(list, i + 1)
           next == P!Collect(acc, list[i + 1])
<1>0. i + 1 \in 1..Len(list)
  <2>1. Len(list) \in Nat
    BY DEF Listed
  <2> QED BY <2>1
<1>1. /\ s \in Nat /\ n \in Nat /\ n > 0
      /\ acc = [blocks |-> acc.blocks, start |-> s * pageSize,
                prev |-> (s + n - 1) * pageSize, size |-> n]
      /\ Bytes(s, n) \subseteq PagesTo(list, i)
      /\ Good(acc.blocks) /\ Merged(acc.blocks)
      /\ BytesIn(acc.blocks) = BytesIn(blocks) \cup (PagesTo(list, i) \ Bytes(s, n))
  BY DEF Run
<1>2. /\ q \notin PagesTo(list, i) /\ PagesTo(list, i + 1) = PagesTo(list, i) \cup {q}
      /\ PagesTo(list, i) \subseteq P!PageNumbers
  BY PagesToIs
<1>3. q \in Nat /\ list[i + 1] = q * pageSize /\ pageSize \in Nat \ {0} /\ q \in P!PageNumbers
  BY <1>0, ListedPages
<1> HIDE DEF q
<1>4. acc.prev = (s + n - 1) * pageSize /\ acc.size = n /\ acc.start = s * pageSize
  BY <1>1
<1>5. CASE list[i + 1] = acc.prev + 1
  <2>1. pageSize = 1 /\ q = s + n
    <3>1. s + n - 1 \in Nat
      BY <1>1
    <3>2. q * pageSize = (s + n - 1) * pageSize + 1
      BY <1>3, <1>4, <1>5
    <3> DEFINE p == s + n - 1
    <3>3. p \in Nat /\ q * pageSize = p * pageSize + 1
      BY <3>1, <3>2
    <3> HIDE DEF p
    <3>4. pageSize = 1 /\ q = p + 1
      BY <1>3, <3>3, SameOffset
    <3> QED BY <1>1, <3>4 DEF p
  <2>2. next = [acc EXCEPT !.size = @ + 1, !.prev = list[i + 1]]
    BY <1>5 DEF P!Collect
  <2>3. next = [blocks |-> next.blocks, start |-> s * pageSize,
                prev |-> (s + (n + 1) - 1) * pageSize, size |-> n + 1]
        /\ next.blocks = acc.blocks
    <3>1. list[i + 1] = (s + (n + 1) - 1) * pageSize
      <4>1. q * pageSize = (s + (n + 1) - 1) * pageSize
        BY <1>1, <2>1
      <4> QED BY <1>3, <4>1
    <3> DEFINE c == acc.blocks
               u == s * pageSize
               v == (s + n - 1) * pageSize
               w == (s + (n + 1) - 1) * pageSize
    <3>2. acc = [blocks |-> c, start |-> u, prev |-> v, size |-> n]
      BY <1>1
    <3>3. next = [acc EXCEPT !.size = @ + 1, !.prev = w]
      BY <2>2, <3>1
    <3> HIDE DEF c, u, v, w, next
    <3>4. next = [blocks |-> c, start |-> u, prev |-> w, size |-> n + 1]
      BY <3>2, <3>3
    <3>5. next.blocks = c
      BY <3>4
    <3> QED BY <3>4, <3>5 DEF c, u, w
  <2>4. Bytes(s, n + 1) = Bytes(s, n) \cup {q}
    BY <1>1, <2>1 DEF Bytes
  <2> HIDE DEF next
  <2>5. n + 1 \in Nat /\ n + 1 > 0
    BY <1>1
  <2>6. /\ Bytes(s, n + 1) \subseteq PagesTo(list, i + 1)
        /\ BytesIn(next.blocks) = BytesIn(blocks) \cup (PagesTo(list, i + 1) \ Bytes(s, n + 1))
    BY <1>1, <1>2, <2>3, <2>4
  <2>7. Run(i + 1, list, next, s, n + 1)
    BY <1>1, <2>3, <2>5, <2>6 DEF Run
  <2> QED BY <2>7 DEF next
<1>6. CASE list[i + 1] # acc.prev + 1
  <2> DEFINE a == 1
  <2>1. next = [blocks |-> P!Closed(acc), start |-> list[i + 1], prev |-> list[i + 1], size |-> a]
    BY <1>6 DEF P!Collect
  <2>2. /\ Good(P!Closed(acc)) /\ Merged(P!Closed(acc))
        /\ BytesIn(P!Closed(acc)) = BytesIn(blocks) \cup PagesTo(list, i)
    BY Closes
  <2> HIDE DEF next
  <2>3. q + a - 1 = q /\ Bytes(q, a) = {q} /\ a \in Nat /\ a > 0
    BY <1>3 DEF Bytes
  <2>4. next.blocks = P!Closed(acc)
    BY <2>1
  <2>5. next = [blocks |-> next.blocks, start |-> q * pageSize,
                prev |-> (q + a - 1) * pageSize, size |-> a]
    BY <1>3, <2>1, <2>3, <2>4
  <2> HIDE DEF a
  <2>6. /\ Bytes(q, a) \subseteq PagesTo(list, i + 1)
        /\ BytesIn(next.blocks) = BytesIn(blocks) \cup (PagesTo(list, i + 1) \ Bytes(q, a))
    BY <1>2, <2>2, <2>3, <2>4
  <2>7. Run(i + 1, list, next, q, a)
    BY <1>3, <2>2, <2>3, <2>4, <2>5, <2>6 DEF Run
  <2> QED BY <2>7 DEF next
<1> QED BY <1>5, <1>6

(* The loop over a list of k offsets *)
Collecting(f, list, k) ==
  /\ f = [i \in 1..k |-> f[i]]
  /\ f[1] = [blocks |-> blocks, start |-> list[1], prev |-> list[1], size |-> 1]
  /\ \A i \in 2..k : f[i] = P!Collect(f[i - 1], list[i])

LEMMA CollectingExists ==
  ASSUME NEW list, NEW n \in Nat, n > 0
  PROVE  \E f : Collecting(f, list, n)
<1> DEFINE first == [blocks |-> blocks, start |-> list[1], prev |-> list[1], size |-> 1]
           Q == {k \in Nat : \E f : Collecting(f, list, k + 1)}
<1>1. 0 \in Q
  <2> DEFINE f == [i \in 1..1 |-> first]
             one == 0 + 1
  <2>0. one = 1 /\ 2..one = {}
    OBVIOUS
  <2>1. f = [i \in 1..1 |-> f[i]] /\ f[1] = first
    OBVIOUS
  <2> HIDE DEF f, one
  <2>2. Collecting(f, list, one)
    BY <2>0, <2>1 DEF Collecting
  <2> QED BY <2>2 DEF one
<1>2. ASSUME NEW k \in Q PROVE k + 1 \in Q
  <2>1. PICK f : Collecting(f, list, k + 1)
    OBVIOUS
  <2>0. k \in Nat
    OBVIOUS
  <2> DEFINE m == k + 1
             g == [i \in 1..(m + 1) |-> IF i = m + 1 THEN P!Collect(f[m], list[m + 1]) ELSE f[i]]
  <2>2. /\ m \in Nat /\ m > 0 /\ Collecting(f, list, m)
    BY <2>0, <2>1
  <2> HIDE DEF m
  <2>3. /\ g = [i \in 1..(m + 1) |-> g[i]]
        /\ g[m + 1] = P!Collect(f[m], list[m + 1]) /\ \A i \in 1..m : g[i] = f[i]
    BY <2>2
  <2> HIDE DEF g, Q
  <2>4. g[1] = first
    <3>1. 1 \in 1..m
      BY <2>2
    <3> QED BY <2>2, <2>3, <3>1 DEF Collecting
  <2> HIDE DEF first
  <2>5. ASSUME NEW i \in 2..(m + 1) PROVE g[i] = P!Collect(g[i - 1], list[i])
    <3>1. CASE i = m + 1
      <4>1. i - 1 = m /\ m \in 1..m
        BY <2>2, <3>1
      <4>2. g[i - 1] = f[m]
        BY <2>3, <4>1
      <4> QED BY <2>3, <3>1, <4>2
    <3>2. CASE i # m + 1
      <4>1. i \in 2..m /\ i \in 1..m /\ i - 1 \in 1..m
        BY <2>2, <3>2
      <4> QED BY <2>2, <2>3, <4>1 DEF Collecting
    <3> QED BY <3>1, <3>2
  <2>6. Collecting(g, list, m + 1)
    BY <2>3, <2>4, <2>5 DEF Collecting, first
  <2> QED BY <2>0, <2>6 DEF m, Q
<1>3. n - 1 \in Q
  <2> HIDE DEF Q
  <2>1. Q \in SUBSET Nat
    BY DEF Q
  <2>2. Q = Nat
    BY <1>1, <1>2, <2>1, Induction
  <2> QED BY <2>2
<1>4. (n - 1) + 1 = n
  OBVIOUS
<1> QED BY <1>3, <1>4

LEMMA FreeCollects ==
  ASSUME NEW list, Listed(list), P!Free(list)
  PROVE  \E f : Collecting(f, list, Len(list)) /\ blocks' = P!Closed(f[Len(list)])
<1> DEFINE first == [blocks |-> blocks, start |-> list[1], prev |-> list[1], size |-> 1]
           run == CHOOSE f : f = [i \in 1..Len(list) |->
                      IF i = 1 THEN first ELSE P!Collect(f[i - 1], list[i])]
<1>0. Len(list) \in Nat /\ Len(list) > 0
  BY DEF Listed
<1>1. PICK f : Collecting(f, list, Len(list))
  BY <1>0, CollectingExists
<1>2. f = [i \in 1..Len(list) |-> IF i = 1 THEN first ELSE P!Collect(f[i - 1], list[i])]
  <2> HIDE DEF first
  <2>1. ASSUME NEW i \in 1..Len(list)
        PROVE  f[i] = IF i = 1 THEN first ELSE P!Collect(f[i - 1], list[i])
    <3>1. i = 1 \/ i \in 2..Len(list)
      BY <1>0
    <3> QED BY <1>1, <3>1 DEF Collecting, first
  <2>2. f = [i \in 1..Len(list) |-> f[i]]
    BY <1>1 DEF Collecting
  <2> QED BY <2>1, <2>2
<1> HIDE DEF first
<1>3. run = [i \in 1..Len(list) |-> IF i = 1 THEN first ELSE P!Collect(run[i - 1], list[i])]
  BY <1>2, Zenon
<1>4. blocks' = P!Closed(run[Len(list)])
  BY Zenon DEF P!Free, first
<1> HIDE DEF run
<1>5. Collecting(run, list, Len(list))
  <2>1. run = [i \in 1..Len(list) |-> run[i]]
    BY <1>3
  <2>2. \A i \in 1..Len(list) :
          run[i] = IF i = 1 THEN first ELSE P!Collect(run[i - 1], list[i])
    BY <1>3
  <2>3. run[1] = first
    BY <1>0, <2>2
  <2>4. \A i \in 2..Len(list) : i \in 1..Len(list) /\ i # 1
    BY <1>0
  <2>5. \A i \in 2..Len(list) : run[i] = P!Collect(run[i - 1], list[i])
    BY <2>2, <2>4
  <2> QED BY <2>1, <2>3, <2>5 DEF Collecting, first
<1> QED BY <1>4, <1>5

LEMMA AllCollected ==
  ASSUME PageInv, NEW list, Listed(list), NEW f, Collecting(f, list, Len(list))
  PROVE  \E s, n : Run(Len(list), list, f[Len(list)], s, n)
<1> DEFINE At(i) == \E s, n : Run(i, list, f[i], s, n)
           Q == {i \in Nat : i + 1 <= Len(list) => At(i + 1)}
<1>0. Len(list) \in Nat /\ Len(list) > 0 /\ 1 \in 1..Len(list)
  BY DEF Listed
<1>1. At(1)
  <2> DEFINE q == PageAt(list, 1)
             a == 1
             acc == f[1]
  <2>1. acc = [blocks |-> blocks, start |-> list[1], prev |-> list[1], size |-> a]
    BY DEF Collecting
  <2>2. q \in Nat /\ list[1] = q * pageSize
    BY <1>0, ListedPages
  <2>3. PagesTo(list, a) = {q}
    <3>1. 1..1 = {1}
      OBVIOUS
    <3> QED BY <3>1 DEF PagesTo
  <2> HIDE DEF acc, q
  <2>4. q + a - 1 = q /\ Bytes(q, a) = {q} /\ a \in Nat /\ a > 0
    BY <2>2 DEF Bytes
  <2> HIDE DEF a
  <2>5. acc.blocks = blocks
    BY <2>1
  <2>6. acc = [blocks |-> acc.blocks, start |-> q * pageSize,
               prev |-> (q + a - 1) * pageSize, size |-> a]
    BY <2>1, <2>2, <2>4, <2>5
  <2>7. Bytes(q, a) \subseteq PagesTo(list, a)
        /\ BytesIn(acc.blocks) = BytesIn(blocks) \cup (PagesTo(list, a) \ Bytes(q, a))
    BY <2>3, <2>4, <2>5
  <2>8. Good(acc.blocks) /\ Merged(acc.blocks)
    BY <2>5 DEF PageInv
  <2>9. Run(a, list, acc, q, a)
    BY <2>2, <2>4, <2>6, <2>7, <2>8 DEF Run
  <2> QED BY <2>9 DEF acc, a
<1>2. ASSUME NEW i \in 1..Len(list), i # Len(list), At(i)
      PROVE  At(i + 1)
  <2>1. PICK s, n : Run(i, list, f[i], s, n)
    BY <1>2
  <2>2. f[i + 1] = P!Collect(f[i], list[i + 1])
    <3>1. i + 1 \in 2..Len(list) /\ (i + 1) - 1 = i
      BY <1>0, <1>2
    <3>2. \A k \in 2..Len(list) : f[k] = P!Collect(f[k - 1], list[k])
      BY DEF Collecting
    <3>3. f[i + 1] = P!Collect(f[(i + 1) - 1], list[i + 1])
      BY <3>1, <3>2
    <3> QED BY <3>1, <3>3
  <2>3. \E t, k : Run(i + 1, list, P!Collect(f[i], list[i + 1]), t, k)
    <3> HIDE DEF At, Q
    <3> QED BY <1>2, <2>1, CollectsOne
  <2> QED BY <2>2, <2>3
<1> HIDE DEF At
<1>3. 0 \in Q
  <2>1. 0 + 1 = 1
    OBVIOUS
  <2> QED BY <1>1, <2>1
<1>4. ASSUME NEW i \in Q PROVE i + 1 \in Q
  <2> SUFFICES ASSUME (i + 1) + 1 <= Len(list) PROVE At((i + 1) + 1)
    OBVIOUS
  <2>1. i \in Nat
    OBVIOUS
  <2>2. i + 1 \in 1..Len(list) /\ i + 1 # Len(list) /\ i + 1 <= Len(list)
    BY <1>0, <2>1
  <2>3. At(i + 1)
    BY <2>2
  <2> QED BY <1>2, <2>2, <2>3
<1>5. Q = Nat
  <2>1. Q \in SUBSET Nat
    OBVIOUS
  <2> HIDE DEF Q
  <2> QED BY <1>3, <1>4, <2>1, Induction
<1>6. At(Len(list))
  <2>1. Len(list) - 1 \in Q /\ (Len(list) - 1) + 1 = Len(list)
    <3> HIDE DEF Q
    <3> QED BY <1>0, <1>5
  <2>2. (Len(list) - 1) + 1 <= Len(list) => At((Len(list) - 1) + 1)
    BY <2>1
  <2> QED BY <1>0, <2>1, <2>2
<1> QED BY <1>6 DEF At

LEMMA PagesFree ==
  ASSUME PageInv, NEW returned \in SUBSET held,
         NEW list \in P!Injection(1..P!Cardinality(returned), returned),
         P!Free(list)
  PROVE  PageInv'
<1> DEFINE n == Len(list)
           back == {list[i] : i \in 1..n}
           N == P!PageNumbers
           K == N \ PagesTo(list, n)
<1>1. Listed(list) /\ P!Range(list) = back
  <2>1. IsFiniteSet(held) /\ list # <<>>
    BY DEF PageInv, P!Free
  <2> QED BY <2>1, ListIs
<1>2. n \in Nat /\ n \in 1..n /\ list \in [1..n -> held]
      /\ \A i, j \in 1..n : list[i] = list[j] => i = j
  BY <1>1 DEF Listed
<1>3. /\ pageSize \in Nat \ {0}
      /\ \A i \in 1..n :
           /\ PageAt(list, i) \in Nat /\ PageAt(list, i) \in P!PageNumbers
           /\ list[i] = PageAt(list, i) * pageSize
      /\ \A i, j \in 1..n : PageAt(list, i) = PageAt(list, j) => i = j
  BY <1>1, ListedPages
<1>4. PICK f : Collecting(f, list, n) /\ blocks' = P!Closed(f[n])
  BY <1>1, FreeCollects
<1>5. PICK s, k : Run(n, list, f[n], s, k)
  BY <1>1, <1>4, AllCollected
<1>6. /\ Good(blocks') /\ Merged(blocks')
      /\ BytesIn(blocks') = BytesIn(blocks) \cup PagesTo(list, n)
  <2> DEFINE acc == f[n]
  <2>1. Run(n, list, acc, s, k) /\ blocks' = P!Closed(acc)
    BY <1>4, <1>5
  <2> HIDE DEF acc, n
  <2>2. /\ Good(P!Closed(acc)) /\ Merged(P!Closed(acc))
        /\ BytesIn(P!Closed(acc)) = BytesIn(blocks) \cup PagesTo(list, n)
    BY <1>1, <1>2, <2>1, Closes DEF n
  <2> QED BY <2>1, <2>2
<1>7. held' = held \ back /\ used' = used - n /\ max' = max /\ pageSize' = pageSize
  BY <1>1 DEF P!Free
<1>8. /\ held = {p * pageSize : p \in N} /\ BytesIn(blocks) \cup N = 0..(max - 1)
      /\ BytesIn(blocks) \cap N = {} /\ IsFiniteSet(held)
      /\ used \in Nat /\ used = Cardinality(held)
  BY DEF PageInv
<1>9. IsFiniteSet(back) /\ Cardinality(back) = n /\ back \subseteq held
  <2>1. list \in [1..n -> back] /\ \A u \in back : \E i \in 1..n : list[i] = u
    BY <1>2
  <2>2. IsFiniteSet(1..n) /\ Cardinality(1..n) = n
    <3>1. 1 \in Int /\ n \in Int /\ ~(1 > n) /\ n - 1 + 1 = n
      BY <1>2
    <3> QED BY <3>1, FS_Interval
  <2>3. back \subseteq held
    BY <1>2
  <2> HIDE DEF back, n
  <2> QED BY <1>2, <2>1, <2>2, <2>3, OneToOne
<1>10. IsFiniteSet(held') /\ Cardinality(held') = used - n /\ used - n \in Nat
  <2> HIDE DEF back, n
  <2>1. /\ IsFiniteSet(held \ back)
        /\ Cardinality(held \ back) = Cardinality(held) - Cardinality(held \cap back)
    BY <1>8, FS_Difference
  <2>2. held \cap back = back
    BY <1>9
  <2>3. Cardinality(held \ back) \in Nat
    BY <2>1, FS_CardinalityType
  <2> QED BY <1>7, <1>8, <1>9, <2>1, <2>2, <2>3
<1>11. PagesTo(list, n) \subseteq N /\ N \subseteq Nat
  <2>1. 0..(max - 1) \subseteq Nat
    OBVIOUS
  <2>2. PagesTo(list, n) \subseteq P!PageNumbers
    BY <1>1, <1>2, PagesToIs
  <2> HIDE DEF n
  <2> QED BY <1>8, <2>1, <2>2
<1>12. held' = {p * pageSize : p \in K}
  <2>1. ASSUME NEW p \in N PROVE p * pageSize \in back <=> p \in PagesTo(list, n)
    <3>1. ASSUME p * pageSize \in back PROVE p \in PagesTo(list, n)
      <4>1. PICK i \in 1..n : p * pageSize = PageAt(list, i) * pageSize
        BY <1>3, <3>1
      <4>2. p \in Nat /\ PageAt(list, i) \in Nat
        BY <1>3, <1>11
      <4> DEFINE q == PageAt(list, i)
      <4>3. p * pageSize = q * pageSize /\ q \in Nat
        BY <4>1, <4>2
      <4> HIDE DEF q
      <4>4. p = q
        BY <1>3, <4>2, <4>3, SameOffset
      <4> QED BY <4>4 DEF q, PagesTo
    <3>2. ASSUME p \in PagesTo(list, n) PROVE p * pageSize \in back
      BY <1>3, <3>2 DEF PagesTo
    <3> QED BY <3>1, <3>2
  <2> HIDE DEF back, N
  <2> QED BY <1>7, <1>8, <2>1
<1>13. K \in SUBSET Nat /\ IsFiniteSet(K)
  <2>1. IsFiniteSet(N)
    BY AllPages
  <2>2. K \subseteq N
    OBVIOUS
  <2> HIDE DEF K, N
  <2> QED BY <1>11, <2>1, <2>2, FS_Subset
<1> HIDE DEF K
<1>14. {o \div pageSize : o \in held'} = K
  <2>1. LET offsets == {p * pageSize : p \in K} IN
        /\ IsFiniteSet(offsets) /\ Cardinality(offsets) = Cardinality(K)
        /\ {o \div pageSize : o \in offsets} = K
    BY <1>3, <1>13, SamePages
  <2> QED BY <1>12, <2>1
<1>15. P!PageNumbers' = K
  BY <1>7, <1>14 DEF P!PageNumbers
<1>16. held' = {p * pageSize' : p \in P!PageNumbers'}
  BY <1>7, <1>12, <1>15
<1>17. /\ BytesIn(blocks') \cup P!PageNumbers' = 0..(max' - 1)
       /\ BytesIn(blocks') \cap P!PageNumbers' = {}
  <2> HIDE DEF N, n
  <2>1. /\ BytesIn(blocks') \cup K = 0..(max - 1)
        /\ BytesIn(blocks') \cap K = {}
    BY <1>6, <1>8, <1>11 DEF K
  <2> QED BY <1>7, <1>15, <2>1
<1>18. used' \in Nat /\ used' = Cardinality(held')
  BY <1>7, <1>10
<1>19. /\ max' \in 0..Pages /\ pageSize' \in PageSizes \cup {0}
       /\ (max' > 0 => pageSize' \in PageSizes)
  BY <1>7 DEF PageInv
<1> QED BY <1>6, <1>10, <1>16, <1>17, <1>18, <1>19 DEF PageInv

LEMMA PagesStay == ASSUME PageInv, UNCHANGED pageVars PROVE PageInv'
BY DEF PageInv, P!PageNumbers, pageVars

LEMMA PagesNext == ASSUME PageInv, P!Next PROVE PageInv'
<1>1. CASE P!SetUp
  BY <1>1, PagesSetUp
<1>2. ASSUME NEW n \in 1..Pages, P!Alloc(n) PROVE PageInv'
  BY <1>2, PagesAlloc
<1>3. ASSUME NEW returned \in SUBSET held,
             NEW list \in P!Injection(1..P!Cardinality(returned), returned), P!Free(list)
      PROVE  PageInv'
  BY <1>3, PagesFree
<1> QED BY <1>1, <1>2, <1>3 DEF P!Next

LEMMA PagesSafe == ASSUME PageInv PROVE P!TypeOK /\ P!PagesKept
<1>1. P!PagesKept
  BY SameMaps DEF PageInv, P!PagesKept, Good, Valid
<1>2. max \in Nat /\ used \in 0..max /\ max <= Pages /\ Pages \in Nat
  <2>1. used \in Nat /\ max \in 0..Pages /\ Pages \in Nat
    BY PagesAssumption DEF PageInv
  <2> QED BY <2>1, AllPages
<1>3. ASSUME NEW a \in DOMAIN blocks.a2s PROVE a \in P!Page /\ blocks.a2s[a] \in 1..(max - a)
  <2>1. a \in Nat /\ blocks.a2s[a] \in Nat /\ blocks.a2s[a] > 0
    BY DEF PageInv, Good, Valid, Sized, Positive
  <2>2. a + blocks.a2s[a] - 1 \in Bytes(a, blocks.a2s[a])
    BY <2>1 DEF Bytes
  <2>3. a + blocks.a2s[a] - 1 \in BytesIn(blocks)
    BY <2>2, BytesOf
  <2>4. a + blocks.a2s[a] - 1 \in 0..(max - 1)
    BY <2>3 DEF PageInv
  <2> QED BY <1>2, <2>1, <2>4 DEF P!Page
<1>4. held \subseteq {p * pageSize : p \in P!Page}
  <2>1. P!PageNumbers \subseteq P!Page
    <3>1. 0..(max - 1) \subseteq P!Page
      BY <1>2 DEF P!Page
    <3> QED BY <3>1 DEF PageInv
  <2>2. held = {p * pageSize : p \in P!PageNumbers}
    BY DEF PageInv
  <2> QED BY <2>1, <2>2
<1>5. max \in 0..Pages /\ pageSize \in PageSizes \cup {0}
  BY DEF PageInv
<1> QED BY <1>1, <1>2, <1>3, <1>4, <1>5 DEF P!TypeOK

-----------------------------------------------------------------------------
ObjectInv == O!TypeOK /\ O!ObjectsKept

LEMMA StackIs ==
  ASSUME NEW slab \in Slab
  PROVE  /\ O!Stack(slab) \in Seq(O!Object) /\ O!Stack(slab) # <<>>
         /\ O!IsInjective(O!Stack(slab))
         /\ O!Range(O!Stack(slab)) = {slab} \X (1..PreallocNum)
<1> DEFINE s == O!Stack(slab)
<1>1. PreallocNum \in Nat /\ PreallocNum >= 1
  BY PreallocAssumption
<1>2. /\ DOMAIN s = 1..PreallocNum /\ \A i \in 1..PreallocNum : s[i] = <<slab, i>>
  BY DEF O!Stack
<1>3. s \in [1..PreallocNum -> O!Object]
  BY DEF O!Stack, O!Object
<1>4. s \in Seq(O!Object) /\ Len(s) = PreallocNum
  BY <1>1, <1>3
<1>5. s # <<>>
  BY <1>1, <1>4
<1> HIDE DEF s
<1>6. O!IsInjective(s)
  BY <1>2 DEF O!IsInjective
<1>7. O!Range(s) = {slab} \X (1..PreallocNum)
  <2>1. O!Range(s) = {<<slab, i>> : i \in 1..PreallocNum}
    BY <1>2 DEF O!Range
  <2> QED BY <2>1
<1> QED BY <1>4, <1>5, <1>6, <1>7 DEF s

LEMMA ObjectsInit == O!Init => ObjectInv
<1> SUFFICES ASSUME O!Init PROVE ObjectInv
  OBVIOUS
<1>1. CASE slabs = {} /\ objects = <<>>
  <2>1. O!Range(<<>>) = {} /\ O!IsInjective(<<>>) /\ <<>> \in Seq(O!Object)
    BY EmptySeq DEF O!Range, O!IsInjective
  <2> QED BY <1>1, <2>1 DEF ObjectInv, O!Init, O!TypeOK, O!ObjectsKept
<1>2. ASSUME NEW slab \in Slab, slabs = {slab}, objects = O!Stack(slab) PROVE ObjectInv
  BY <1>2, StackIs DEF ObjectInv, O!Init, O!TypeOK, O!ObjectsKept
<1> QED BY <1>1, <1>2 DEF O!Init

LEMMA ObjectsNext == ObjectInv /\ O!Next => ObjectInv'
<1> SUFFICES ASSUME ObjectInv, O!Next PROVE ObjectInv'
  OBVIOUS
<1>0. /\ slabs \subseteq Slab /\ objects \in Seq(O!Object) /\ taken \subseteq O!Object
      /\ O!IsInjective(objects) /\ O!Range(objects) \cap taken = {}
      /\ O!Range(objects) \cup taken = slabs \X (1..PreallocNum)
  BY DEF ObjectInv, O!TypeOK, O!ObjectsKept
<1>1. CASE O!AllocFree
  <2>1. /\ objects # <<>> /\ objects' = SubSeq(objects, 1, Len(objects) - 1)
        /\ taken' = taken \cup {objects[Len(objects)]}
        /\ slabs' = slabs
    BY <1>1 DEF O!AllocFree, O!Pop
  <2>2. /\ SubSeq(objects, 1, Len(objects) - 1) \in Seq(O!Object) /\ objects[Len(objects)] \in O!Object
        /\ O!Range(SubSeq(objects, 1, Len(objects) - 1)) = O!Range(objects) \ {objects[Len(objects)]}
        /\ objects[Len(objects)] \in O!Range(objects)
        /\ O!IsInjective(SubSeq(objects, 1, Len(objects) - 1))
    BY <1>0, <2>1, Popped DEF O!Range, O!IsInjective, Elements, Distinct
  <2> QED BY <1>0, <2>1, <2>2 DEF ObjectInv, O!TypeOK, O!ObjectsKept
<1>2. CASE O!AllocReserve
  <2>1. PICK slab \in Slab \ slabs : slabs' = slabs \cup {slab} /\ O!Pop(O!Stack(slab))
    BY <1>2 DEF O!AllocReserve
  <2> DEFINE s == O!Stack(slab)
  <2>2. /\ s \in Seq(O!Object) /\ s # <<>> /\ O!IsInjective(s)
        /\ O!Range(s) = {slab} \X (1..PreallocNum)
    BY StackIs
  <2>3. objects = <<>> /\ objects' = SubSeq(s, 1, Len(s) - 1) /\ taken' = taken \cup {s[Len(s)]}
    BY <1>2, <2>1 DEF O!AllocReserve, O!Pop
  <2> HIDE DEF s
  <2>4. /\ SubSeq(s, 1, Len(s) - 1) \in Seq(O!Object) /\ s[Len(s)] \in O!Object
        /\ O!Range(SubSeq(s, 1, Len(s) - 1)) = O!Range(s) \ {s[Len(s)]}
        /\ s[Len(s)] \in O!Range(s) /\ O!IsInjective(SubSeq(s, 1, Len(s) - 1))
    BY <2>2, Popped DEF O!Range, O!IsInjective, Elements, Distinct
  <2>5. taken = slabs \X (1..PreallocNum)
    BY <1>0, <2>3 DEF O!Range
  <2>6. O!Range(objects') \cap taken' = {}
    BY <2>1, <2>2, <2>3, <2>4, <2>5
  <2>7. O!Range(objects') \cup taken' = slabs' \X (1..PreallocNum)
    BY <2>1, <2>2, <2>3, <2>4, <2>5
  <2> QED BY <1>0, <2>1, <2>3, <2>4, <2>6, <2>7 DEF ObjectInv, O!TypeOK, O!ObjectsKept
<1>3. CASE O!Clear
  <2>1. slabs' = {} /\ objects' = <<>> /\ taken' = {}
    BY <1>3 DEF O!Clear, O!Cleared
  <2>2. O!Range(<<>>) = {} /\ O!IsInjective(<<>>) /\ <<>> \in Seq(O!Object)
    BY EmptySeq DEF O!Range, O!IsInjective
  <2> QED BY <2>1, <2>2 DEF ObjectInv, O!TypeOK, O!ObjectsKept
<1>4. ASSUME NEW o \in taken, O!Free(o) PROVE ObjectInv'
  <2>1. taken' = taken \ {o} /\ objects' = Append(objects, o) /\ slabs' = slabs
    BY <1>4 DEF O!Free
  <2>2. o \in O!Object /\ o \notin O!Range(objects)
    BY <1>0
  <2>3. /\ Append(objects, o) \in Seq(O!Object)
        /\ O!Range(Append(objects, o)) = O!Range(objects) \cup {o}
        /\ O!IsInjective(Append(objects, o))
    BY <1>0, <2>2, Pushed DEF O!Range, O!IsInjective, Elements, Distinct
  <2> QED BY <1>0, <2>1, <2>2, <2>3 DEF ObjectInv, O!TypeOK, O!ObjectsKept
<1> QED BY <1>1, <1>2, <1>3, <1>4 DEF O!Next

LEMMA ObjectsStay == ObjectInv /\ UNCHANGED objectVars => ObjectInv'
BY DEF ObjectInv, objectVars, O!TypeOK, O!ObjectsKept

-----------------------------------------------------------------------------
(* Mmap.  An object without memory is as it was constructed; one that      *)
(* points to itself is small; any other owns a block of the heap or a      *)
(* mapping with its descriptor, and no two objects own the same.  These    *)
(* are predicates over the values of obj, memory, open and written, since  *)
(* a move assignment is a destruction followed by a move construction.     *)
Member == [start : [to : Obj \cup Block \cup {Null}, off : Nat],
           base : Block \cup Values \cup {Null, Failed}, fd : Int, size : Nat]
Use == {M!Free, M!Heap} \cup {M!Mapped(n) : n \in Nat}

Owns(r, m, d) ==
  LET b == r.start.to IN
  \/ m[b].what = M!Heap /\ r.fd = -1 /\ r.start.off = 0
  \/ m[b].what = M!Mapped(r.size + r.start.off) /\ r.base = b /\ r.fd \in d

SoundObject(o, r, m, d) ==
  /\ r \in Member
  /\ r.start.to \in Obj => r.start.to = o
  /\ r.start.to = Null => r.start.off = 0 /\ r.fd = -1
  /\ r.start.to \in Block => Owns(r, m, d)

Apart(r, q) ==
  r.start.to \in Block /\ q.start.to \in Block =>
    r.start.to # q.start.to /\ (r.fd >= 0 => r.fd # q.fd)

SoundObjects(x, m, d) ==
  /\ DOMAIN x \subseteq Obj
  /\ \A o \in DOMAIN x : SoundObject(o, x[o], m, d)
  /\ \A o, p \in DOMAIN x : o # p => Apart(x[o], x[p])

MappedIn(m) == {b \in Block : m[b].what.use = "map"}

SoundMemory(x, m, d) ==
  /\ m \in [Block -> [what : Use, bytes : Int \X Int]]
  /\ d \subseteq Nat /\ IsFiniteSet(d)
  /\ Cardinality(d) = Cardinality(MappedIn(m))
  /\ \A b \in Block : m[b].what # M!Free => \E o \in DOMAIN x : x[o].start.to = b

BytesOfObject(r, m) ==
  IF r.start.to \in Obj THEN <<r.base, r.fd>> ELSE m[r.start.to].bytes

SoundBytes(x, m, w) ==
  /\ DOMAIN w = {o \in DOMAIN x : x[o].start.to # Null}
  /\ \A o \in DOMAIN w : w[o] = BytesOfObject(x[o], m)

Sound(x, m, d, w) == SoundObjects(x, m, d) /\ SoundMemory(x, m, d) /\ SoundBytes(x, m, w)

MmapInv == Sound(obj, memory, open, written)

Put(f, k, v) == [j \in DOMAIN f \cup {k} |-> IF j = k THEN v ELSE f[j]]
Without(f, k) == [j \in DOMAIN f \ {k} |-> f[j]]

LEMMA Uses ==
  /\ M!Free # M!Heap /\ M!Free.use # "map" /\ M!Heap.use # "map"
  /\ \A n : M!Mapped(n).use = "map" /\ M!Mapped(n) # M!Free /\ M!Mapped(n) # M!Heap
  /\ \A u \in Use : u # M!Free /\ u.use # "map" => u = M!Heap
BY DEF M!Free, M!Heap, M!Mapped, Use

(* What becomes of the objects when the members of one are put *)
LEMMA PutObject ==
  ASSUME NEW x, NEW m, NEW d, SoundObjects(x, m, d), NEW o \in Obj, NEW r, NEW n, NEW e,
         SoundObject(o, r, n, e),
         \A p \in DOMAIN x \ {o} :
            SoundObject(p, x[p], n, e) /\ Apart(x[p], r) /\ Apart(r, x[p])
  PROVE  SoundObjects(Put(x, o, r), n, e)
BY DEF SoundObjects, Put

LEMMA MmapInit == M!Init => MmapInv
<1> SUFFICES ASSUME M!Init PROVE MmapInv
  OBVIOUS
<1>1. obj = <<>> /\ written = <<>> /\ open = {} /\ DOMAIN obj = {} /\ DOMAIN written = {}
  BY EmptySeq, LenProperties DEF M!Init
<1>2. memory = [b \in Block |-> [what |-> M!Free, bytes |-> <<0, 0>>]]
  BY DEF M!Init
<1>3. MappedIn(memory) = {}
  BY <1>2, Uses DEF MappedIn
<1>4. SoundMemory(obj, memory, open)
  <2>1. memory \in [Block -> [what : Use, bytes : Int \X Int]]
    BY <1>2 DEF Use
  <2>2. \A b \in Block : memory[b].what = M!Free
    BY <1>2
  <2> QED BY <1>1, <1>3, <2>1, <2>2, FS_EmptySet DEF SoundMemory
<1>5. SoundObjects(obj, memory, open) /\ SoundBytes(obj, memory, written)
  BY <1>1 DEF SoundObjects, SoundBytes
<1> QED BY <1>4, <1>5 DEF MmapInv, Sound

LEMMA Written ==
  ASSUME MmapInv
  PROVE  /\ DOMAIN obj \subseteq Obj /\ DOMAIN written = {o \in DOMAIN obj : M!IsInit(o)}
         /\ \A o \in DOMAIN obj : /\ SoundObject(o, obj[o], memory, open)
                                  /\ M!IsInit(o) <=> obj[o].start.to # Null
                                  /\ M!IsInline(o) <=> obj[o].start.to \in Obj
<1>1. /\ DOMAIN obj \subseteq Obj
      /\ \A o \in DOMAIN obj : SoundObject(o, obj[o], memory, open)
      /\ DOMAIN written = {o \in DOMAIN obj : obj[o].start.to # Null}
  BY DEF MmapInv, Sound, SoundObjects, SoundBytes
<1>2. ASSUME NEW o \in DOMAIN obj
      PROVE  /\ M!IsInit(o) <=> obj[o].start.to # Null
             /\ M!IsInline(o) <=> obj[o].start.to \in Obj
  <2>1. SoundObject(o, obj[o], memory, open) /\ o \in Obj
    BY <1>1, <1>2
  <2>2. obj[o].start \in [to : Obj \cup Block \cup {Null}, off : Nat]
    BY <2>1 DEF SoundObject, Member
  <2>3. obj[o].start = M!NoPointer <=> obj[o].start.to = Null /\ obj[o].start.off = 0
    BY <2>2 DEF M!NoPointer, M!Pointer
  <2> QED BY <2>1, <2>3 DEF M!IsInit, M!IsInline, SoundObject
<1> QED BY <1>1, <1>2

(* Members change, but not what an object points to; or it gets to point   *)
(* to itself: the memory stays sound.                                      *)
LEMMA PutKeepsMemory ==
  ASSUME NEW x, NEW m, NEW d, SoundMemory(x, m, d), NEW o, NEW r,
         o \in DOMAIN x /\ x[o].start.to \in Block => r.start.to = x[o].start.to
  PROVE  SoundMemory(Put(x, o, r), m, d)
<1>1. \A b \in Block : m[b].what # M!Free => \E p \in DOMAIN Put(x, o, r) : Put(x, o, r)[p].start.to = b
  <2> SUFFICES ASSUME NEW b \in Block, m[b].what # M!Free
               PROVE  \E p \in DOMAIN Put(x, o, r) : Put(x, o, r)[p].start.to = b
    OBVIOUS
  <2>1. PICK p \in DOMAIN x : x[p].start.to = b
    BY DEF SoundMemory
  <2>2. p \in DOMAIN Put(x, o, r) /\ Put(x, o, r)[p] = (IF p = o THEN r ELSE x[p])
    BY DEF Put
  <2> QED BY <2>1, <2>2
<1> QED BY <1>1 DEF SoundMemory

LEMMA Constructs ==
  ASSUME MmapInv, NEW o \in Obj, M!Construct(o)
  PROVE  MmapInv'
<1>1. o \notin DOMAIN obj /\ obj' = Put(obj, o, M!New) /\ UNCHANGED <<memory, open, written>>
  BY DEF M!Construct, M!With, M!Exists, Put
<1>2. M!New.start.to = Null /\ SoundObject(o, M!New, memory, open)
  BY MmapAssumption DEF M!New, M!NoPointer, M!Pointer, SoundObject, Member
<1>3. \A q : Apart(q, M!New) /\ Apart(M!New, q)
  BY <1>2, MmapAssumption DEF Apart
<1>4. SoundObjects(obj', memory, open)
  <2>1. \A p \in DOMAIN obj : SoundObject(p, obj[p], memory, open)
    BY DEF MmapInv, Sound, SoundObjects
  <2> QED BY <1>1, <1>2, <1>3, <2>1, PutObject DEF MmapInv, Sound
<1>5. SoundMemory(obj', memory, open)
  BY <1>1, PutKeepsMemory DEF MmapInv, Sound
<1>6. SoundBytes(obj', memory, written)
  BY <1>1, <1>2 DEF MmapInv, Sound, SoundBytes, Put
<1> QED BY <1>1, <1>4, <1>5, <1>6 DEF MmapInv, Sound

(* Members of an object change that neither owns nor has bytes, or of one  *)
(* that is small.                                                          *)
LEMMA KeepsMembers ==
  ASSUME MmapInv, NEW o \in DOMAIN obj, obj[o].start.to \notin Block,
         NEW r, r.start.to \notin Block, SoundObject(o, r, memory, open),
         UNCHANGED <<memory, open>>, obj' = Put(obj, o, r),
         written' = IF r.start.to = Null THEN written ELSE Put(written, o, BytesOfObject(r, memory)),
         r.start.to = Null => obj[o].start.to = Null
  PROVE  MmapInv'
<1>1. \A q : Apart(q, r) /\ Apart(r, q)
  BY DEF Apart
<1>2. SoundObjects(obj', memory, open)
  <2>1. \A p \in DOMAIN obj : SoundObject(p, obj[p], memory, open)
    BY DEF MmapInv, Sound, SoundObjects
  <2>2. o \in Obj
    BY DEF MmapInv, Sound, SoundObjects
  <2> QED BY <1>1, <2>1, <2>2, PutObject DEF MmapInv, Sound
<1>3. SoundMemory(obj', memory, open)
  BY PutKeepsMemory DEF MmapInv, Sound
<1>4. SoundBytes(obj', memory, written')
  <2>1. DOMAIN obj' = DOMAIN obj /\ obj'[o] = r /\ \A p \in DOMAIN obj \ {o} : obj'[p] = obj[p]
    BY DEF Put
  <2>2. SoundBytes(obj, memory, written)
    BY DEF MmapInv, Sound
  <2>3. CASE r.start.to = Null
    BY <2>1, <2>2, <2>3 DEF SoundBytes
  <2>4. CASE r.start.to # Null
    <3>1. DOMAIN written' = DOMAIN written \cup {o} /\ written'[o] = BytesOfObject(r, memory)
          /\ \A p \in DOMAIN written \ {o} : written'[p] = written[p]
      BY <2>4 DEF Put
    <3> QED BY <2>1, <2>2, <2>4, <3>1 DEF SoundBytes
  <2> QED BY <2>3, <2>4
<1> QED BY <1>2, <1>3, <1>4 DEF MmapInv, Sound

LEMMA InitInline ==
  ASSUME MmapInv, NEW o \in Obj, NEW size \in MemSizes, M!InitMemory(o, size), size <= InlineSize
  PROVE  MmapInv'
<1> DEFINE r == [obj[o] EXCEPT !.start = M!Pointer(o, 0), !.size = size]
<1>1. /\ o \in DOMAIN obj /\ ~M!IsInit(o) /\ obj' = Put(obj, o, r)
      /\ written' = Put(written, o, <<obj[o].base, obj[o].fd>>)
      /\ UNCHANGED <<memory, open>>
  BY DEF M!InitMemory, M!Exists, M!With, M!WithWritten, Put
<1>2. obj[o] \in Member /\ obj[o].start.to = Null
  BY <1>1, Written DEF SoundObject
<1>3. r \in Member /\ r.start.to = o /\ r.base = obj[o].base /\ r.fd = obj[o].fd
  BY <1>2, MmapAssumption DEF Member, M!Pointer
<1> HIDE DEF r
<1>4. r.start.to \notin Block /\ r.start.to # Null /\ obj[o].start.to \notin Block
  BY <1>2, <1>3, MmapAssumption
<1>5. SoundObject(o, r, memory, open)
  BY <1>3, <1>4 DEF SoundObject
<1>6. BytesOfObject(r, memory) = <<obj[o].base, obj[o].fd>>
  BY <1>3 DEF BytesOfObject
<1> QED BY <1>1, <1>4, <1>5, <1>6, KeepsMembers

LEMMA InitFails ==
  ASSUME MmapInv, NEW o \in DOMAIN obj, ~M!IsInit(o),
         obj' = M!With(o, [obj[o] EXCEPT !.base = Failed]), UNCHANGED <<memory, open, written>>
  PROVE  MmapInv'
<1> DEFINE r == [obj[o] EXCEPT !.base = Failed]
<1>1. obj' = Put(obj, o, r)
  BY DEF M!Exists, M!With, Put
<1>2. obj[o] \in Member /\ obj[o].start.to = Null /\ obj[o].start.off = 0 /\ obj[o].fd = -1
  BY Written DEF SoundObject
<1>3. r \in Member /\ r.start = obj[o].start /\ r.fd = obj[o].fd
  BY <1>2, MmapAssumption DEF Member
<1> HIDE DEF r
<1>4. r.start.to = Null /\ r.start.to \notin Block /\ obj[o].start.to \notin Block
  BY <1>2, <1>3, MmapAssumption
<1>5. SoundObject(o, r, memory, open)
  BY <1>2, <1>3, <1>4, MmapAssumption DEF SoundObject
<1> QED BY <1>1, <1>2, <1>4, <1>5, KeepsMembers

LEMMA WriteInline ==
  ASSUME MmapInv, NEW o \in Obj, NEW v \in Values, M!Write(o, v), M!IsInline(o)
  PROVE  MmapInv'
<1> DEFINE r == [obj[o] EXCEPT !.base = v, !.fd = v]
<1>1. /\ o \in DOMAIN obj /\ obj' = Put(obj, o, r)
      /\ written' = Put(written, o, <<v, v>>)
      /\ UNCHANGED <<memory, open>>
  BY DEF M!Write, M!Exists, M!With, M!WithWritten, Put
<1>2. obj[o] \in Member /\ obj[o].start.to = o
  BY <1>1, Written DEF SoundObject
<1>3. r \in Member /\ r.start = obj[o].start /\ r.base = v /\ r.fd = v
  BY <1>2, MmapAssumption DEF Member
<1> HIDE DEF r
<1>4. r.start.to = o /\ r.start.to \notin Block /\ r.start.to # Null /\ obj[o].start.to \notin Block
  BY <1>2, <1>3, MmapAssumption
<1>5. SoundObject(o, r, memory, open)
  BY <1>3, <1>4 DEF SoundObject
<1>6. BytesOfObject(r, memory) = <<v, v>>
  BY <1>3, <1>4 DEF BytesOfObject
<1> QED BY <1>1, <1>4, <1>5, <1>6, KeepsMembers

(* An object without memory takes a block that is free, and perhaps a      *)
(* descriptor that is.                                                     *)
Takes(o, r, b, c) ==
  /\ ~M!IsInit(o) /\ memory[b].what = M!Free
  /\ c \in [what : Use, bytes : Int \X Int] /\ c.what # M!Free
  /\ memory' = [memory EXCEPT ![b] = c]
  /\ r.start.to = b /\ SoundObject(o, r, memory', open')
  /\ obj' = Put(obj, o, r) /\ written' = Put(written, o, c.bytes)
  /\ open' \subseteq Nat /\ IsFiniteSet(open') /\ open \subseteq open'
  /\ r.fd = -1 \/ r.fd \notin open
  /\ Cardinality(open') = Cardinality(open) + (IF c.what.use = "map" THEN 1 ELSE 0)

LEMMA TakesBlock ==
  ASSUME MmapInv, NEW o \in DOMAIN obj, NEW b \in Block, NEW c, NEW r, Takes(o, r, b, c)
  PROVE  MmapInv'
<1>a. /\ ~M!IsInit(o) /\ memory[b].what = M!Free
      /\ c \in [what : Use, bytes : Int \X Int] /\ c.what # M!Free
      /\ memory' = [memory EXCEPT ![b] = c]
  BY DEF Takes
<1>b. /\ r.start.to = b /\ SoundObject(o, r, memory', open')
      /\ obj' = Put(obj, o, r) /\ written' = Put(written, o, c.bytes)
  BY DEF Takes
<1>c. /\ open' \subseteq Nat /\ IsFiniteSet(open') /\ open \subseteq open'
      /\ r.fd = -1 \/ r.fd \notin open
      /\ Cardinality(open') = Cardinality(open) + (IF c.what.use = "map" THEN 1 ELSE 0)
  BY DEF Takes
<1>0. /\ memory \in [Block -> [what : Use, bytes : Int \X Int]]
      /\ memory'[b] = c /\ \A a \in Block \ {b} : memory'[a] = memory[a]
      /\ memory' \in [Block -> [what : Use, bytes : Int \X Int]]
      /\ obj[o].start.to = Null
  BY <1>a, Written DEF MmapInv, Sound, SoundMemory
<1>1. ASSUME NEW p \in DOMAIN obj
      PROVE  /\ obj[p] \in Member /\ obj[p].start.to # b
             /\ SoundObject(p, obj[p], memory', open')
             /\ Apart(obj[p], r) /\ Apart(r, obj[p])
  <2>1. SoundObject(p, obj[p], memory, open)
    BY <1>1 DEF MmapInv, Sound, SoundObjects
  <2>2. obj[p].start.to \in Block => obj[p].start.to # b /\ Owns(obj[p], memory', open')
    <3> SUFFICES ASSUME obj[p].start.to \in Block
                 PROVE  obj[p].start.to # b /\ Owns(obj[p], memory', open')
      OBVIOUS
    <3>1. Owns(obj[p], memory, open)
      BY <2>1 DEF SoundObject
    <3>2. obj[p].start.to # b
      BY <1>a, <3>1, Uses DEF Owns
    <3> QED BY <1>0, <1>c, <3>1, <3>2 DEF Owns
  <2>3. obj[p].start.to \in Block => obj[p].fd = -1 \/ obj[p].fd \in open
    BY <2>1 DEF SoundObject, Owns
  <2>4. obj[p].fd \in Int /\ r.fd \in Int
    BY <1>b, <2>1 DEF SoundObject, Member
  <2>5. obj[p].start.to \in Block /\ (r.fd >= 0 \/ obj[p].fd >= 0) => r.fd # obj[p].fd
    <3>1. -1 \notin open /\ ~(-1 >= 0)
      BY DEF MmapInv, Sound, SoundMemory
    <3> QED BY <1>c, <2>3, <2>4, <3>1
  <2>6. obj[p].start.to # b
    BY <2>2
  <2>7. SoundObject(p, obj[p], memory', open')
    BY <2>1, <2>2 DEF SoundObject
  <2>8. Apart(obj[p], r) /\ Apart(r, obj[p])
    BY <1>b, <2>5, <2>6 DEF Apart
  <2> QED BY <2>1, <2>6, <2>7, <2>8 DEF SoundObject
<1>2. SoundObjects(obj', memory', open')
  <2>1. o \in Obj
    BY DEF MmapInv, Sound, SoundObjects
  <2> QED BY <1>1, <1>b, <2>1, PutObject DEF MmapInv, Sound
<1>3. SoundMemory(obj', memory', open')
  <2>1. /\ IsFiniteSet(MappedIn(memory)) /\ Cardinality(open) = Cardinality(MappedIn(memory))
        /\ b \notin MappedIn(memory)
    <3>1. MappedIn(memory) \in SUBSET Block /\ b \notin MappedIn(memory)
      BY <1>a, Uses DEF MappedIn
    <3> QED BY <3>1, MmapAssumption, FS_Subset DEF MmapInv, Sound, SoundMemory
  <2>2. MappedIn(memory') = IF c.what.use = "map" THEN MappedIn(memory) \cup {b} ELSE MappedIn(memory)
    BY <1>0, <2>1 DEF MappedIn
  <2>3. Cardinality(open') = Cardinality(MappedIn(memory'))
    <3>1. CASE c.what.use = "map"
      <4>1. Cardinality(MappedIn(memory) \cup {b}) = Cardinality(MappedIn(memory)) + 1
        BY <2>1, FS_AddElement
      <4> QED BY <1>c, <2>1, <2>2, <3>1, <4>1
    <3>2. CASE c.what.use # "map"
      <4>1. Cardinality(open) \in Nat
        BY <2>1, FS_CardinalityType
      <4> QED BY <1>c, <2>1, <2>2, <3>2, <4>1
    <3> QED BY <3>1, <3>2
  <2>4. ASSUME NEW a \in Block, memory'[a].what # M!Free
        PROVE  \E p \in DOMAIN obj' : obj'[p].start.to = a
    <3>1. CASE a = b
      <4>1. o \in DOMAIN obj' /\ obj'[o] = r
        BY <1>b DEF Put
      <4> QED BY <1>b, <3>1, <4>1
    <3>2. CASE a # b
      <4>1. PICK p \in DOMAIN obj : obj[p].start.to = a
        BY <1>0, <2>4, <3>2 DEF MmapInv, Sound, SoundMemory
      <4>2. p # o
        BY <1>0, <4>1, MmapAssumption
      <4> QED BY <1>b, <4>1, <4>2 DEF Put
    <3> QED BY <3>1, <3>2
  <2> QED BY <1>0, <1>c, <2>3, <2>4 DEF SoundMemory
<1>4. SoundBytes(obj', memory', written')
  <2>1. /\ DOMAIN obj' = DOMAIN obj /\ obj'[o] = r /\ \A p \in DOMAIN obj \ {o} : obj'[p] = obj[p]
        /\ DOMAIN written' = DOMAIN written \cup {o} /\ written'[o] = c.bytes
        /\ \A p \in DOMAIN written \ {o} : written'[p] = written[p]
    BY <1>b DEF Put
  <2>2. SoundBytes(obj, memory, written)
    BY DEF MmapInv, Sound
  <2>3. b # Null /\ b \notin Obj
    BY MmapAssumption
  <2>4. DOMAIN written' = {p \in DOMAIN obj' : obj'[p].start.to # Null}
    BY <1>b, <2>1, <2>2, <2>3 DEF SoundBytes
  <2>5. BytesOfObject(r, memory') = c.bytes
    BY <1>0, <1>b, <2>3 DEF BytesOfObject
  <2>6. ASSUME NEW p \in DOMAIN written, p # o
        PROVE  written'[p] = BytesOfObject(obj'[p], memory')
    <3>1. p \in DOMAIN obj /\ written[p] = BytesOfObject(obj[p], memory) /\ obj[p].start.to # Null
      BY <2>2, <2>6 DEF SoundBytes
    <3>2. obj[p].start.to # b /\ obj[p].start.to \in Obj \cup Block
      BY <1>1, <3>1 DEF Member
    <3>3. BytesOfObject(obj[p], memory') = BytesOfObject(obj[p], memory)
      BY <1>0, <3>2 DEF BytesOfObject
    <3> QED BY <2>1, <2>6, <3>1, <3>3
  <2> QED BY <2>1, <2>4, <2>5, <2>6 DEF SoundBytes
<1> QED BY <1>2, <1>3, <1>4 DEF MmapInv, Sound

LEMMA InitHeap ==
  ASSUME MmapInv, NEW o \in Obj, NEW size \in MemSizes, M!InitMemory(o, size), ~(size <= InlineSize)
  PROVE  MmapInv'
<1>1. PICK b \in Block :
        /\ memory[b].what = M!Free /\ memory' = [memory EXCEPT ![b].what = M!Heap]
        /\ obj' = M!With(o, [obj[o] EXCEPT !.start = M!Pointer(b, 0), !.size = size])
        /\ written' = M!WithWritten(o, memory[b].bytes)
  BY DEF M!InitMemory
<1>2. o \in DOMAIN obj /\ ~M!IsInit(o) /\ open' = open
  BY DEF M!InitMemory, M!Exists
<1> DEFINE r == [obj[o] EXCEPT !.start = M!Pointer(b, 0), !.size = size]
           c == [memory[b] EXCEPT !.what = M!Heap]
<1>3. /\ obj' = Put(obj, o, r)
      /\ written' = Put(written, o, memory[b].bytes)
  BY <1>1 DEF M!Exists, M!With, M!WithWritten, Put
<1>4. obj[o] \in Member /\ obj[o].fd = -1
  BY <1>2, Written DEF SoundObject
<1>5. r \in Member /\ r.start.to = b /\ r.start.off = 0 /\ r.fd = -1
  BY <1>4, MmapAssumption DEF Member, M!Pointer
<1>6. /\ memory \in [Block -> [what : Use, bytes : Int \X Int]]
      /\ open \subseteq Nat /\ IsFiniteSet(open) /\ Cardinality(open) \in Nat
  BY FS_CardinalityType DEF MmapInv, Sound, SoundMemory
<1>7. /\ c \in [what : Use, bytes : Int \X Int] /\ c.what = M!Heap /\ c.bytes = memory[b].bytes
      /\ memory' = [memory EXCEPT ![b] = c] /\ memory'[b] = c
  BY <1>1, <1>6 DEF Use
<1> HIDE DEF r, c
<1>8. SoundObject(o, r, memory', open')
  BY <1>5, <1>7, MmapAssumption DEF SoundObject, Owns
<1>9. Cardinality(open') = Cardinality(open) + (IF c.what.use = "map" THEN 1 ELSE 0)
  BY <1>2, <1>6, <1>7, Uses
<1>a. c.what # M!Free
  BY <1>7, Uses
<1>b. Takes(o, r, b, c)
  BY <1>1, <1>2, <1>3, <1>5, <1>6, <1>7, <1>8, <1>9, <1>a DEF Takes
<1> QED BY <1>2, <1>b, TakesBlock

(* open finds a descriptor: not all of 0..Cardinality(open) can be open. *)
LEMMA LowestDescriptor ==
  ASSUME NEW d \in SUBSET Nat, IsFiniteSet(d)
  PROVE  \E f \in 0..Cardinality(d) : f \notin d /\ \A e \in 0..(f - 1) : e \in d
<1> DEFINE n == Cardinality(d)
           S == {f \in 0..n : f \notin d}
<1>1. n \in Nat
  BY FS_CardinalityType
<1>2. S # {}
  <2> SUFFICES ASSUME S = {} PROVE FALSE
    OBVIOUS
  <2>1. 0..n \in SUBSET d
    OBVIOUS
  <2>2. Cardinality(0..n) <= n
    BY <2>1, FS_Subset
  <2>3. Cardinality(0..n) = n + 1
    <3> HIDE DEF n
    <3>1. Cardinality(0..n) = n - 0 + 1
      BY <1>1, FS_Interval
    <3> QED BY <1>1, <3>1
  <2> HIDE DEF n
  <2> QED BY <1>1, <2>2, <2>3
<1>3. S \in SUBSET Nat
  BY <1>1
<1>4. Min(S) \in S /\ \A x \in S : Min(S) <= x
  <2> HIDE DEF S
  <2> QED BY <1>2, <1>3, Least
<1>5. PICK f \in 0..n : f \notin d /\ \A x \in 0..n : x \notin d => f <= x
  BY <1>4
<1>6. \A e \in 0..(f - 1) : e \in 0..n /\ ~(f <= e)
  <2> HIDE DEF n
  <2> QED BY <1>1, <1>5
<1> QED BY <1>5, <1>6

LEMMA InitMaps ==
  ASSUME MmapInv, NEW o \in Obj, NEW offset \in 0..FileSize, NEW length \in 0..FileSize,
         M!InitFile(o, offset, length)
  PROVE  MmapInv'
<1> DEFINE inPage == offset % PageSize
           n == IF length > FileSize - offset THEN FileSize - offset ELSE length
           fd == CHOOSE d \in 0..M!Cardinality(open) :
                   d \notin open /\ \A e \in 0..(d - 1) : e \in open
<1>1. o \in DOMAIN obj /\ ~M!IsInit(o) /\ offset < FileSize
  BY DEF M!InitFile, M!Exists
<1>2. CASE obj' = M!With(o, [obj[o] EXCEPT !.base = Failed]) /\ UNCHANGED <<memory, open, written>>
  BY <1>1, <1>2, InitFails
<1>3. ASSUME NEW b \in Block, memory[b].what = M!Free,
             memory' = [memory EXCEPT ![b].what = M!Mapped(n + inPage), ![b].bytes = <<0, 0>>],
             open' = open \cup {fd},
             obj' = M!With(o, [start |-> M!Pointer(b, inPage), base |-> b, fd |-> fd, size |-> n]),
             written' = M!WithWritten(o, <<0, 0>>)
      PROVE  MmapInv'
  <2> DEFINE r == [start |-> M!Pointer(b, inPage), base |-> b, fd |-> fd, size |-> n]
             c == [memory[b] EXCEPT !.what = M!Mapped(n + inPage), !.bytes = <<0, 0>>]
  <2>1. inPage \in Nat /\ n \in Nat
    BY <1>1, MmapAssumption
  <2>2. /\ memory \in [Block -> [what : Use, bytes : Int \X Int]]
        /\ open \subseteq Nat /\ IsFiniteSet(open) /\ Cardinality(open) \in Nat
    BY FS_CardinalityType DEF MmapInv, Sound, SoundMemory
  <2>3. fd \in 0..Cardinality(open) /\ fd \notin open
    <3>1. M!Cardinality(open) = Cardinality(open)
      BY DEF M!Cardinality, Cardinality
    <3>2. \E d \in 0..M!Cardinality(open) : d \notin open /\ \A e \in 0..(d - 1) : e \in open
      BY <2>2, <3>1, LowestDescriptor
    <3>3. fd \in 0..M!Cardinality(open) /\ fd \notin open
      BY <3>2
    <3> QED BY <3>1, <3>3
  <2> HIDE DEF fd, n, inPage
  <2>4. fd \in Nat
    BY <2>2, <2>3
  <2>5. n + inPage \in Nat
    BY <2>1
  <2>6. obj' = Put(obj, o, r) /\ written' = Put(written, o, <<0, 0>>)
    BY <1>3 DEF M!Exists, M!With, M!WithWritten, Put
  <2>7. /\ r \in Member /\ r.start.to = b /\ r.fd = fd /\ r.base = b
        /\ c \in [what : Use, bytes : Int \X Int] /\ c.what = M!Mapped(r.size + r.start.off)
    <3>1. r \in Member /\ r.start.to = b /\ r.fd = fd /\ r.base = b /\ r.size = n /\ r.start.off = inPage
      BY <2>1, <2>4 DEF Member, M!Pointer
    <3>2. c \in [what : Use, bytes : Int \X Int] /\ c.what = M!Mapped(n + inPage)
      <4>1. M!Mapped(n + inPage) \in Use
        BY <2>5 DEF Use
      <4> DEFINE u == M!Mapped(n + inPage)
                 k == memory[b]
      <4>2. k \in [what : Use, bytes : Int \X Int] /\ u \in Use /\ <<0, 0>> \in Int \X Int
        BY <2>2, <4>1
      <4>3. c = [k EXCEPT !.what = u, !.bytes = <<0, 0>>]
        OBVIOUS
      <4> HIDE DEF c, u, k
      <4>4. c \in [what : Use, bytes : Int \X Int]
        BY <4>2, <4>3
      <4>5. c.what = u
        BY <4>2, <4>3
      <4> QED BY <4>4, <4>5 DEF u
    <3> QED BY <3>1, <3>2
  <2>8. memory' = [memory EXCEPT ![b] = c] /\ memory'[b] = c /\ c.bytes = <<0, 0>>
    BY <1>3, <2>2
  <2> HIDE DEF r, c
  <2>9. SoundObject(o, r, memory', open')
    BY <1>3, <2>7, <2>8, MmapAssumption DEF SoundObject, Owns
  <2>a. /\ open' \subseteq Nat /\ IsFiniteSet(open') /\ open \subseteq open'
        /\ Cardinality(open') = Cardinality(open) + (IF c.what.use = "map" THEN 1 ELSE 0)
    <3>1. IsFiniteSet(open') /\ Cardinality(open') = Cardinality(open) + 1
      BY <1>3, <2>2, <2>3, FS_AddElement
    <3>2. c.what.use = "map"
      BY <2>7, Uses
    <3> QED BY <1>3, <2>2, <2>4, <3>1, <3>2
  <2>b. c.what # M!Free
    BY <2>7, Uses
  <2>c. Takes(o, r, b, c)
    BY <1>1, <1>3, <2>3, <2>6, <2>7, <2>8, <2>9, <2>a, <2>b DEF Takes
  <2> QED BY <1>1, <2>c, TakesBlock
<1>4. \/ obj' = M!With(o, [obj[o] EXCEPT !.base = Failed]) /\ UNCHANGED <<memory, open, written>>
      \/ \E b \in Block :
           /\ n + inPage > 0 /\ memory[b].what = M!Free
           /\ memory' = [memory EXCEPT ![b].what = M!Mapped(n + inPage), ![b].bytes = <<0, 0>>]
           /\ open' = open \cup {fd}
           /\ obj' = M!With(o, [start |-> M!Pointer(b, inPage), base |-> b, fd |-> fd, size |-> n])
           /\ written' = M!WithWritten(o, <<0, 0>>)
  BY Zenon DEF M!InitFile
<1> HIDE DEF inPage, n, fd
<1> QED BY <1>2, <1>3, <1>4

LEMMA WriteMemory ==
  ASSUME MmapInv, NEW o \in Obj, NEW v \in Values, M!Write(o, v), ~M!IsInline(o)
  PROVE  MmapInv'
<1> DEFINE b == obj[o].start.to
<1>1. /\ o \in DOMAIN obj /\ M!IsInit(o) /\ UNCHANGED <<obj, open>>
      /\ memory' = [memory EXCEPT ![b].bytes = <<v, v>>]
      /\ written' = Put(written, o, <<v, v>>)
  BY DEF M!Write, M!Exists, M!WithWritten, Put
<1>2. /\ b \in Block /\ o \in DOMAIN written
      /\ \A p \in DOMAIN obj : obj[p] \in Member
      /\ \A p \in DOMAIN obj \ {o} : obj[p].start.to # b
  <2>1. SoundObject(o, obj[o], memory, open) /\ b # Null /\ b \notin Obj /\ o \in DOMAIN written
    BY <1>1, Written
  <2>2. b \in Block
    BY <2>1 DEF SoundObject, Member
  <2>3. \A p \in DOMAIN obj \ {o} : Apart(obj[o], obj[p])
    BY <1>1 DEF MmapInv, Sound, SoundObjects
  <2> QED BY <2>1, <2>2, <2>3, Written DEF Apart, SoundObject
<1>3. memory \in [Block -> [what : Use, bytes : Int \X Int]]
  BY DEF MmapInv, Sound, SoundMemory
<1>4. /\ memory' \in [Block -> [what : Use, bytes : Int \X Int]]
      /\ memory'[b].bytes = <<v, v>> /\ memory'[b].what = memory[b].what
      /\ \A a \in Block \ {b} : memory'[a] = memory[a]
  <2> HIDE DEF b
  <2>1. v \in Int
    BY MmapAssumption
  <2> QED BY <1>1, <1>2, <1>3, <2>1
<1>5. \A a \in Block : memory'[a].what = memory[a].what
  BY <1>4
<1>6. SoundObjects(obj, memory', open)
  <2>1. \A p \in DOMAIN obj : SoundObject(p, obj[p], memory', open)
    BY <1>5, Written DEF SoundObject, Owns
  <2> QED BY <2>1 DEF MmapInv, Sound, SoundObjects
<1>7. SoundMemory(obj, memory', open)
  <2>1. MappedIn(memory') = MappedIn(memory)
    BY <1>5 DEF MappedIn
  <2> QED BY <1>4, <1>5, <2>1 DEF MmapInv, Sound, SoundMemory
<1>8. SoundBytes(obj, memory', written')
  <2>1. DOMAIN written' = DOMAIN written /\ written'[o] = <<v, v>>
        /\ \A p \in DOMAIN written \ {o} : written'[p] = written[p]
    BY <1>1, <1>2 DEF Put
  <2>2. SoundBytes(obj, memory, written)
    BY DEF MmapInv, Sound
  <2>3. BytesOfObject(obj[o], memory') = <<v, v>>
    BY <1>2, <1>4, MmapAssumption DEF BytesOfObject
  <2>4. ASSUME NEW p \in DOMAIN written, p # o PROVE written'[p] = BytesOfObject(obj[p], memory')
    <3>1. p \in DOMAIN obj /\ obj[p].start.to # Null /\ written[p] = BytesOfObject(obj[p], memory)
      BY <2>2, <2>4 DEF SoundBytes
    <3>2. obj[p].start.to \in (Block \ {b}) \cup Obj
      BY <1>2, <2>4, <3>1 DEF Member
    <3> QED BY <1>4, <2>1, <2>4, <3>1, <3>2 DEF BytesOfObject
  <2> QED BY <2>1, <2>2, <2>3, <2>4 DEF SoundBytes
<1> QED BY <1>1, <1>6, <1>7, <1>8 DEF MmapInv, Sound

(* What the destructor leaves, without the object *)
LEMMA ForgetsBytes ==
  ASSUME NEW x, NEW m, NEW w, SoundBytes(x, m, w), NEW o,
         \A p \in DOMAIN x : x[p] \in Member,
         NEW n, \A p \in DOMAIN x \ {o} : x[p].start.to \in Block => n[x[p].start.to] = m[x[p].start.to]
  PROVE  SoundBytes(Without(x, o), n, Without(w, o))
<1>1. /\ DOMAIN Without(x, o) = DOMAIN x \ {o} /\ \A p \in DOMAIN x \ {o} : Without(x, o)[p] = x[p]
      /\ DOMAIN Without(w, o) = DOMAIN w \ {o} /\ \A p \in DOMAIN w \ {o} : Without(w, o)[p] = w[p]
  BY DEF Without
<1>2. /\ DOMAIN w = {p \in DOMAIN x : x[p].start.to # Null}
      /\ \A p \in DOMAIN w : w[p] = BytesOfObject(x[p], m)
  BY DEF SoundBytes
<1>3. ASSUME NEW p \in DOMAIN w \ {o} PROVE w[p] = BytesOfObject(x[p], n)
  <2>1. x[p].start.to \in Block \cup Obj
    BY <1>2, <1>3 DEF Member
  <2> QED BY <1>2, <1>3, <2>1 DEF BytesOfObject
<1> QED BY <1>1, <1>2, <1>3 DEF SoundBytes

LEMMA ForgetsNoBlock ==
  ASSUME MmapInv, NEW o \in DOMAIN obj, obj[o].start.to \notin Block
  PROVE  Sound(Without(obj, o), memory, open, Without(written, o))
<1>1. DOMAIN Without(obj, o) = DOMAIN obj \ {o} /\ \A p \in DOMAIN obj \ {o} : Without(obj, o)[p] = obj[p]
  BY DEF Without
<1>2. SoundObjects(Without(obj, o), memory, open)
  BY <1>1 DEF MmapInv, Sound, SoundObjects
<1>3. SoundMemory(Without(obj, o), memory, open)
  <2>1. ASSUME NEW b \in Block, memory[b].what # M!Free
        PROVE  \E p \in DOMAIN Without(obj, o) : Without(obj, o)[p].start.to = b
    <3>1. PICK p \in DOMAIN obj : obj[p].start.to = b
      BY <2>1 DEF MmapInv, Sound, SoundMemory
    <3> QED BY <1>1, <3>1
  <2> QED BY <2>1 DEF MmapInv, Sound, SoundMemory
<1>4. SoundBytes(Without(obj, o), memory, Without(written, o))
  BY Written, ForgetsBytes DEF MmapInv, Sound, SoundObject
<1> QED BY <1>2, <1>3, <1>4 DEF Sound

LEMMA ForgetsBlock ==
  ASSUME MmapInv, NEW o \in DOMAIN obj, NEW b \in Block, obj[o].start.to = b,
         NEW n, n = [memory EXCEPT ![b].what = M!Free],
         NEW e, IF obj[o].fd >= 0 THEN e = open \ {obj[o].fd} ELSE e = open
  PROVE  Sound(Without(obj, o), n, e, Without(written, o))
<1>0. /\ memory \in [Block -> [what : Use, bytes : Int \X Int]]
      /\ open \subseteq Nat /\ IsFiniteSet(open) /\ Cardinality(open) \in Nat
      /\ Cardinality(open) = Cardinality(MappedIn(memory))
      /\ \A a \in Block : memory[a].what # M!Free => \E p \in DOMAIN obj : obj[p].start.to = a
  BY FS_CardinalityType DEF MmapInv, Sound, SoundMemory
<1>1. DOMAIN Without(obj, o) = DOMAIN obj \ {o} /\ \A p \in DOMAIN obj \ {o} : Without(obj, o)[p] = obj[p]
  BY DEF Without
<1>2. /\ n \in [Block -> [what : Use, bytes : Int \X Int]]
      /\ n[b].what = M!Free /\ \A a \in Block \ {b} : n[a] = memory[a]
  <2>1. M!Free \in Use
    BY DEF Use
  <2> QED BY <1>0, <2>1
<1>3. SoundObject(o, obj[o], memory, open) /\ Owns(obj[o], memory, open) /\ obj[o].fd \in Int
  BY Written DEF SoundObject, Member
<1>4. ASSUME NEW p \in DOMAIN obj \ {o} PROVE SoundObject(p, obj[p], n, e) /\ obj[p].start.to # b
  <2>1. SoundObject(p, obj[p], memory, open) /\ Apart(obj[o], obj[p])
    BY DEF MmapInv, Sound, SoundObjects
  <2>2. ASSUME obj[p].start.to \in Block PROVE Owns(obj[p], n, e)
    <3>1. obj[p].start.to # b /\ (obj[o].fd >= 0 => obj[o].fd # obj[p].fd)
      BY <2>1, <2>2 DEF Apart
    <3>2. Owns(obj[p], memory, open)
      BY <2>1, <2>2 DEF SoundObject
    <3>3. obj[p].fd \in open => obj[p].fd \in e
      BY <3>1
    <3> QED BY <1>2, <2>2, <3>1, <3>2, <3>3 DEF Owns
  <2>3. obj[p].start.to # b
    BY <2>1 DEF Apart
  <2> QED BY <2>1, <2>2, <2>3 DEF SoundObject
<1>5. SoundObjects(Without(obj, o), n, e)
  BY <1>1, <1>4 DEF MmapInv, Sound, SoundObjects
<1>6. IsFiniteSet(MappedIn(memory)) /\ MappedIn(n) = MappedIn(memory) \ {b}
  <2>1. MappedIn(memory) \in SUBSET Block
    BY DEF MappedIn
  <2>2. MappedIn(n) = MappedIn(memory) \ {b}
    BY <1>2, Uses DEF MappedIn
  <2> QED BY <2>1, <2>2, MmapAssumption, FS_Subset
<1>7. e \subseteq Nat /\ IsFiniteSet(e) /\ Cardinality(e) = Cardinality(MappedIn(n))
  <2>1. CASE obj[o].fd >= 0
    <3>1. obj[o].fd # -1
      BY <1>3, <2>1
    <3>2. obj[o].fd \in open /\ memory[b].what = M!Mapped(obj[o].size + obj[o].start.off)
      BY <1>3, <3>1 DEF Owns
    <3>3. b \in MappedIn(memory)
      BY <3>2, Uses DEF MappedIn
    <3>4. Cardinality(MappedIn(n)) = Cardinality(MappedIn(memory)) - 1
      <4>1. Cardinality(MappedIn(memory) \ {b}) = Cardinality(MappedIn(memory)) - 1
        <5>1. IsFiniteSet(MappedIn(memory))
          BY <1>6
        <5> QED BY <3>3, <5>1, FS_RemoveElement
      <4> QED BY <1>6, <4>1
    <3>5. IsFiniteSet(e) /\ Cardinality(e) = Cardinality(open) - 1
      BY <1>0, <2>1, <3>2, FS_RemoveElement
    <3> QED BY <1>0, <2>1, <3>4, <3>5
  <2>2. CASE ~(obj[o].fd >= 0)
    <3>1. obj[o].fd \notin open
      BY <1>0, <2>2
    <3>2. memory[b].what = M!Heap
      BY <1>3, <3>1 DEF Owns
    <3>3. b \notin MappedIn(memory)
      BY <3>2, Uses DEF MappedIn
    <3>4. MappedIn(n) = MappedIn(memory) /\ e = open
      BY <1>6, <2>2, <3>3
    <3> QED BY <1>0, <3>4
  <2> QED BY <2>1, <2>2
<1>8. SoundMemory(Without(obj, o), n, e)
  <2>1. ASSUME NEW a \in Block, n[a].what # M!Free
        PROVE  \E p \in DOMAIN Without(obj, o) : Without(obj, o)[p].start.to = a
    <3>1. a # b /\ memory[a].what # M!Free
      BY <1>2, <2>1
    <3>2. PICK p \in DOMAIN obj : obj[p].start.to = a
      BY <1>0, <3>1
    <3> QED BY <1>1, <3>1, <3>2
  <2> QED BY <1>2, <1>7, <2>1 DEF SoundMemory
<1>9. SoundBytes(Without(obj, o), n, Without(written, o))
  <2>1. \A p \in DOMAIN obj : obj[p] \in Member
    BY Written DEF SoundObject
  <2>2. \A p \in DOMAIN obj \ {o} : obj[p].start.to \in Block => n[obj[p].start.to] = memory[obj[p].start.to]
    BY <1>2, <1>4
  <2> QED BY <2>1, <2>2, ForgetsBytes DEF MmapInv, Sound
<1> QED BY <1>5, <1>8, <1>9 DEF Sound

LEMMA Destroys ==
  ASSUME MmapInv, NEW o \in DOMAIN obj, M!Destroy(o)
  PROVE  Sound(Without(obj, o), memory', open', Without(written, o))
<1>1. /\ SoundObject(o, obj[o], memory, open)
      /\ M!IsInit(o) <=> obj[o].start.to # Null
      /\ M!IsInline(o) <=> obj[o].start.to \in Obj
  BY Written
<1>2. obj[o].start.to \in Obj \cup Block \cup {Null} /\ obj[o].fd \in Int
  BY <1>1 DEF SoundObject, Member
<1>3. CASE obj[o].start.to \notin Block
  <2>1. UNCHANGED <<memory, open>>
    BY <1>1, <1>2, <1>3 DEF M!Destroy
  <2>2. Sound(Without(obj, o), memory, open, Without(written, o))
    BY <1>3, ForgetsNoBlock
  <2> QED BY <2>1, <2>2
<1>4. CASE obj[o].start.to \in Block
  <2> DEFINE b == obj[o].start.to
  <2>1. M!IsInit(o) /\ ~M!IsInline(o)
    BY <1>1, <1>4, MmapAssumption
  <2>2. Owns(obj[o], memory, open) /\ -1 \notin open /\ ~(-1 >= 0)
    BY <1>1, <1>4 DEF SoundObject, MmapInv, Sound, SoundMemory
  <2>3. CASE obj[o].fd >= 0
    <3>1. obj[o].fd # -1
      BY <2>2, <2>3
    <3>2. memory[b].what = M!Mapped(obj[o].size + obj[o].start.off) /\ obj[o].base = b
      BY <2>2, <3>1 DEF Owns
    <3>3. /\ memory' = IF memory[obj[o].base].what = M!Mapped(obj[o].size + obj[o].start.off)
                       THEN [memory EXCEPT ![obj[o].base].what = M!Free] ELSE memory
          /\ open' = open \ {obj[o].fd}
      BY <2>1, <2>3 DEF M!Destroy
    <3>4. memory' = [memory EXCEPT ![b].what = M!Free]
      BY <3>2, <3>3
    <3> HIDE DEF b
    <3> QED BY <1>4, <2>3, <3>3, <3>4, ForgetsBlock DEF b
  <2>4. CASE ~(obj[o].fd >= 0)
    <3>1. memory' = [memory EXCEPT ![b].what = M!Free] /\ open' = open
      BY <2>1, <2>4 DEF M!Destroy
    <3> QED BY <1>4, <2>4, <3>1, ForgetsBlock
  <2> QED BY <2>3, <2>4
<1> QED BY <1>3, <1>4

(* DoMove, to an object that does not exist or was destroyed *)
MovesTo(x, w, o, p, r, y, v) ==
  /\ o \in Obj /\ o \notin DOMAIN x /\ p \in DOMAIN x
  /\ r = [x[p] EXCEPT !.start = IF x[p].start.to = p THEN M!Pointer(o, 0) ELSE @]
  /\ y = Put(Put(x, p, M!New), o, r)
  /\ DOMAIN v = (DOMAIN w \ {p}) \cup (IF x[p].start.to # Null THEN {o} ELSE {})
  /\ \A q \in DOMAIN v : v[q] = (IF q = o THEN w[p] ELSE w[q])

LEMMA Moves ==
  ASSUME NEW x, NEW m, NEW d, NEW w, Sound(x, m, d, w),
         NEW o, NEW p, NEW r, NEW y, NEW v, MovesTo(x, w, o, p, r, y, v)
  PROVE  Sound(y, m, d, v)
<1>0. /\ o \in Obj /\ o \notin DOMAIN x /\ p \in DOMAIN x
      /\ r = [x[p] EXCEPT !.start = IF x[p].start.to = p THEN M!Pointer(o, 0) ELSE @]
      /\ y = Put(Put(x, p, M!New), o, r)
  BY DEF MovesTo
<1>v. /\ DOMAIN v = (DOMAIN w \ {p}) \cup (IF x[p].start.to # Null THEN {o} ELSE {})
      /\ \A q \in DOMAIN v : v[q] = (IF q = o THEN w[p] ELSE w[q])
  BY DEF MovesTo
<1>1. /\ SoundObject(p, x[p], m, d) /\ p \in Obj /\ o # p
      /\ \A q \in DOMAIN x : SoundObject(q, x[q], m, d)
      /\ \A q \in DOMAIN x \ {p} : Apart(x[p], x[q]) /\ Apart(x[q], x[p])
  BY <1>0 DEF Sound, SoundObjects
<1>2. x[p] \in Member /\ (x[p].start.to = p <=> x[p].start.to \in Obj)
  BY <1>1 DEF SoundObject
<1>3. /\ r \in Member /\ r.base = x[p].base /\ r.fd = x[p].fd /\ r.size = x[p].size
      /\ (x[p].start.to \in Obj => r.start.to = o)
      /\ (x[p].start.to \notin Obj => r.start = x[p].start)
  <2>1. CASE x[p].start.to = p
    <3>1. M!Pointer(o, 0) \in [to : Obj \cup Block \cup {Null}, off : Nat] /\ M!Pointer(o, 0).to = o
      BY <1>0 DEF M!Pointer
    <3>2. r = [x[p] EXCEPT !.start = M!Pointer(o, 0)]
      BY <1>0, <2>1
    <3> QED BY <1>1, <1>2, <2>1, <3>1, <3>2 DEF Member
  <2>2. CASE x[p].start.to # p
    <3>1. r = x[p]
      BY <1>0, <1>2, <2>2 DEF Member
    <3> QED BY <1>2, <2>2, <3>1
  <2> QED BY <2>1, <2>2
<1>4. SoundObject(o, r, m, d)
  <2>1. CASE x[p].start.to \in Obj
    BY <1>0, <1>3, <2>1, MmapAssumption DEF SoundObject
  <2>2. CASE x[p].start.to \notin Obj
    BY <1>1, <1>3, <2>2 DEF SoundObject, Owns
  <2> QED BY <2>1, <2>2
<1>5. M!New.start.to = Null /\ SoundObject(p, M!New, m, d)
  BY MmapAssumption DEF M!New, M!NoPointer, M!Pointer, SoundObject, Member
<1>6. \A q : Apart(q, M!New) /\ Apart(M!New, q)
  BY <1>5, MmapAssumption DEF Apart
<1> DEFINE z == Put(x, p, M!New)
<1>7. DOMAIN z = DOMAIN x /\ z[p] = M!New /\ \A q \in DOMAIN x \ {p} : z[q] = x[q]
  BY <1>0 DEF Put
<1>8. SoundObjects(z, m, d)
  BY <1>1, <1>5, <1>6, PutObject DEF Sound
<1>9. \A q \in DOMAIN x \ {p} : Apart(x[q], r) /\ Apart(r, x[q])
  BY <1>0, <1>1, <1>3, MmapAssumption DEF Apart
<1> HIDE DEF z
<1>a. /\ DOMAIN y = DOMAIN x \cup {o} /\ y[o] = r /\ y[p] = M!New
      /\ \A q \in DOMAIN x \ {p} : y[q] = x[q]
  <2>1. y = Put(z, o, r)
    BY <1>0 DEF z
  <2> QED BY <1>0, <1>1, <1>7, <2>1 DEF Put
<1>b. SoundObjects(y, m, d)
  <2>1. y = Put(z, o, r)
    BY <1>0 DEF z
  <2>2. \A q \in DOMAIN z \ {o} : SoundObject(q, z[q], m, d) /\ Apart(z[q], r) /\ Apart(r, z[q])
    BY <1>1, <1>5, <1>6, <1>7, <1>9
  <2> QED BY <1>0, <1>4, <1>8, <2>1, <2>2, PutObject
<1>c. SoundMemory(y, m, d)
  <2>1. ASSUME NEW b \in Block, m[b].what # M!Free PROVE \E q \in DOMAIN y : y[q].start.to = b
    <3>1. PICK q \in DOMAIN x : x[q].start.to = b
      BY <2>1 DEF Sound, SoundMemory
    <3>2. CASE q = p
      <4>1. x[p].start.to \notin Obj
        BY <3>1, <3>2, MmapAssumption
      <4>2. r.start.to = b
        BY <1>3, <3>1, <3>2, <4>1
      <4>3. o \in DOMAIN y /\ y[o].start.to = b
        BY <1>a, <4>2
      <4> QED BY <4>3
    <3>3. CASE q # p
      BY <1>a, <3>1, <3>3
    <3> QED BY <3>2, <3>3
  <2> QED BY <2>1 DEF Sound, SoundMemory
<1>d. SoundBytes(y, m, v)
  <2>1. /\ DOMAIN w = {q \in DOMAIN x : x[q].start.to # Null}
        /\ \A q \in DOMAIN w : w[q] = BytesOfObject(x[q], m)
    BY DEF Sound, SoundBytes
  <2>2. x[p].start.to # Null <=> r.start.to # Null
    BY <1>0, <1>3, MmapAssumption
  <2>3. DOMAIN v = {q \in DOMAIN y : y[q].start.to # Null}
    <3>1. DOMAIN v \subseteq DOMAIN x \cup {o} /\ DOMAIN y = DOMAIN x \cup {o}
      BY <1>0, <1>v, <1>a, <2>1
    <3>2. ASSUME NEW q \in DOMAIN x \cup {o} PROVE q \in DOMAIN v <=> y[q].start.to # Null
      <4>1. CASE q = o
        <5>1. q \notin DOMAIN w
          BY <1>0, <2>1, <4>1
        <5> QED BY <1>v, <1>a, <2>2, <4>1, <5>1
      <4>2. CASE q = p
        BY <1>v, <1>1, <1>5, <1>a, <4>2
      <4>3. CASE q # o /\ q # p
        BY <1>v, <1>a, <2>1, <3>2, <4>3
      <4> QED BY <4>1, <4>2, <4>3
    <3> QED BY <3>1, <3>2
  <2>4. x[p].start.to # Null => BytesOfObject(r, m) = BytesOfObject(x[p], m)
    BY <1>0, <1>3, MmapAssumption DEF BytesOfObject
  <2>5. ASSUME NEW q \in DOMAIN v PROVE v[q] = BytesOfObject(y[q], m)
    <3>1. CASE q = o
      <4>1. x[p].start.to # Null
        BY <1>0, <1>v, <2>1, <3>1
      <4> QED BY <1>0, <1>v, <1>a, <2>1, <2>4, <3>1, <4>1
    <3>2. CASE q # o
      <4>1. q \in DOMAIN w \ {p}
        BY <1>v, <3>2
      <4> QED BY <1>v, <1>a, <2>1, <3>2, <4>1
    <3> QED BY <3>1, <3>2
  <2> QED BY <2>3, <2>5 DEF SoundBytes
<1> QED BY <1>b, <1>c, <1>d DEF Sound

LEMMA MoveConstructs ==
  ASSUME MmapInv, NEW o \in Obj, NEW p \in Obj, M!MoveConstruct(o, p)
  PROVE  MmapInv'
<1>1. /\ o \notin DOMAIN obj /\ p \in DOMAIN obj /\ o # p
      /\ obj' = M!MovedTo(o, p) /\ written' = M!MovedWritten(o, p) /\ UNCHANGED <<memory, open>>
  BY DEF M!MoveConstruct, M!Exists
<1> DEFINE r == [obj[p] EXCEPT !.start = IF obj[p].start.to = p THEN M!Pointer(o, 0) ELSE @]
<1>2. obj' = Put(Put(obj, p, M!New), o, r)
  BY <1>1, Zenon DEF M!MovedTo, M!Moved, M!IsInline, M!Exists, Put
<1>3. /\ DOMAIN written' = (DOMAIN written \ {p}) \cup (IF obj[p].start.to # Null THEN {o} ELSE {})
      /\ \A q \in DOMAIN written' : written'[q] = (IF q = o THEN written[p] ELSE written[q])
  <2>1. o \notin DOMAIN written /\ (M!IsInit(p) <=> obj[p].start.to # Null)
    BY <1>1, Written
  <2> QED BY <1>1, <2>1 DEF M!MovedWritten
<1> HIDE DEF r
<1>4. r = [obj[p] EXCEPT !.start = IF obj[p].start.to = p THEN M!Pointer(o, 0) ELSE @]
  BY DEF r
<1>5. MovesTo(obj, written, o, p, r, obj', written')
  BY <1>1, <1>2, <1>3, <1>4 DEF MovesTo
<1> QED BY <1>1, <1>5, Moves DEF MmapInv

LEMMA MoveAssigns ==
  ASSUME MmapInv, NEW o \in Obj, NEW p \in Obj, M!MoveAssign(o, p)
  PROVE  MmapInv'
<1>1. /\ o \in DOMAIN obj /\ p \in DOMAIN obj /\ o # p /\ M!Destroy(o)
      /\ obj' = M!MovedTo(o, p) /\ written' = M!MovedWritten(o, p)
  BY DEF M!MoveAssign, M!Exists
<1> DEFINE r == [obj[p] EXCEPT !.start = IF obj[p].start.to = p THEN M!Pointer(o, 0) ELSE @]
           x == Without(obj, o)
           w == Without(written, o)
<1>2. Sound(x, memory', open', w)
  BY <1>1, Destroys
<1>3. /\ DOMAIN x = DOMAIN obj \ {o} /\ \A q \in DOMAIN obj \ {o} : x[q] = obj[q]
      /\ DOMAIN w = DOMAIN written \ {o} /\ \A q \in DOMAIN written \ {o} : w[q] = written[q]
  BY DEF Without
<1>4. x[p] = obj[p] /\ p \in DOMAIN x /\ o \notin DOMAIN x
  BY <1>1, <1>3
<1>5. obj' = Put(Put(x, p, M!New), o, r)
  <2>1. obj' = [q \in DOMAIN obj \cup {o} |-> CASE q = o -> r [] q = p -> M!New [] OTHER -> obj[q]]
    BY <1>1, Zenon DEF M!MovedTo, M!Moved, M!IsInline, M!Exists
  <2>2. DOMAIN obj \cup {o} = ((DOMAIN obj \ {o}) \cup {p}) \cup {o}
    BY <1>1
  <2> HIDE DEF r
  <2>3. Put(Put(x, p, M!New), o, r)
        = [q \in DOMAIN obj \cup {o} |->
             IF q = o THEN r ELSE IF q = p THEN M!New ELSE x[q]]
    BY <1>1, <1>3, <2>2 DEF Put
  <2>4. \A q \in DOMAIN obj \cup {o} :
           (IF q = o THEN r ELSE IF q = p THEN M!New ELSE x[q])
           = CASE q = o -> r [] q = p -> M!New [] OTHER -> obj[q]
    BY <1>1, <1>3
  <2> QED BY <2>1, <2>3, <2>4
<1>6. /\ DOMAIN written' = (DOMAIN w \ {p}) \cup (IF x[p].start.to # Null THEN {o} ELSE {})
      /\ \A q \in DOMAIN written' : written'[q] = (IF q = o THEN w[p] ELSE w[q])
  <2>1. /\ M!IsInit(p) <=> obj[p].start.to # Null
        /\ p \in DOMAIN written <=> M!IsInit(p)
    BY <1>1, Written
  <2>2. written' = [q \in (DOMAIN written \ {o, p}) \cup (IF M!IsInit(p) THEN {o} ELSE {}) |->
                      IF q = o THEN written[p] ELSE written[q]]
    BY <1>1 DEF M!MovedWritten
  <2> HIDE DEF w, x
  <2>3. DOMAIN written' = (DOMAIN w \ {p}) \cup (IF x[p].start.to # Null THEN {o} ELSE {})
    BY <1>3, <1>4, <2>1, <2>2
  <2>4. ASSUME NEW q \in DOMAIN written' PROVE written'[q] = (IF q = o THEN w[p] ELSE w[q])
    BY <1>1, <1>3, <2>1, <2>2
  <2> QED BY <2>3, <2>4
<1>7. r = [x[p] EXCEPT !.start = IF x[p].start.to = p THEN M!Pointer(o, 0) ELSE @]
  BY <1>4
<1> HIDE DEF r, x, w
<1>8. MovesTo(x, w, o, p, r, obj', written')
  BY <1>4, <1>5, <1>6, <1>7 DEF MovesTo
<1> QED BY <1>2, <1>8, Moves DEF MmapInv

LEMMA Destructs ==
  ASSUME MmapInv, NEW o \in Obj, M!Destruct(o)
  PROVE  MmapInv'
<1>1. /\ o \in DOMAIN obj /\ M!Destroy(o)
      /\ obj' = M!Restrict(obj, DOMAIN obj \ {o}) /\ written' = M!Restrict(written, DOMAIN written \ {o})
  BY DEF M!Destruct, M!Exists
<1>2. obj' = Without(obj, o) /\ written' = Without(written, o)
  BY <1>1 DEF M!Restrict, Without
<1> QED BY <1>1, <1>2, Destroys DEF MmapInv

LEMMA MmapNext == MmapInv /\ M!Next => MmapInv'
<1> SUFFICES ASSUME MmapInv, M!Next PROVE MmapInv'
  OBVIOUS
<1>1. PICK o \in Obj :
        \/ M!Construct(o) \/ M!Destruct(o)
        \/ \E size \in MemSizes : M!InitMemory(o, size)
        \/ \E offset, length \in 0..FileSize : M!InitFile(o, offset, length)
        \/ \E v \in Values : M!Write(o, v)
        \/ \E p \in Obj : M!MoveConstruct(o, p) \/ M!MoveAssign(o, p)
  BY DEF M!Next
<1>2. ASSUME NEW size \in MemSizes, M!InitMemory(o, size) PROVE MmapInv'
  BY <1>2, InitInline, InitHeap
<1>3. ASSUME NEW v \in Values, M!Write(o, v) PROVE MmapInv'
  BY <1>3, WriteInline, WriteMemory
<1> QED BY <1>1, <1>2, <1>3, Constructs, Destructs, InitMaps, MoveConstructs, MoveAssigns

LEMMA MmapStay == MmapInv /\ UNCHANGED mmapVars => MmapInv'
<1> SUFFICES ASSUME MmapInv, UNCHANGED mmapVars PROVE MmapInv'
  OBVIOUS
<1>1. UNCHANGED <<obj, memory, open, written>>
  BY DEF mmapVars
<1> QED BY <1>1 DEF MmapInv

LEMMA MmapSafe == MmapInv => M!TypeOK /\ M!MemoryKept
<1> SUFFICES ASSUME MmapInv PROVE M!TypeOK /\ M!MemoryKept
  OBVIOUS
<1>0. /\ SoundObjects(obj, memory, open) /\ SoundMemory(obj, memory, open)
      /\ SoundBytes(obj, memory, written)
  BY DEF MmapInv, Sound
<1>1. \A o \in DOMAIN obj :
        /\ o \in Obj /\ SoundObject(o, obj[o], memory, open) /\ obj[o] \in Member
        /\ M!IsInit(o) <=> obj[o].start.to # Null
        /\ M!IsInline(o) <=> obj[o].start.to \in Obj
  BY Written DEF SoundObject
<1>2. M!TypeOK
  <2>1. /\ DOMAIN obj \subseteq Obj /\ DOMAIN written = {o \in DOMAIN obj : M!IsInit(o)}
        /\ \A b \in Block : memory[b].what.use \in {"free", "heap", "map"}
        /\ open \subseteq Nat
    <3>1. \A u \in Use : u.use \in {"free", "heap", "map"}
      BY DEF Use, M!Free, M!Heap, M!Mapped
    <3> QED BY <1>0, <3>1, Written DEF SoundMemory
  <2>2. \A o \in DOMAIN obj :
          /\ obj[o].start.to \in Obj \cup Block \cup {Null} /\ obj[o].start.off \in Nat
          /\ obj[o].fd \in Int /\ obj[o].size \in Nat
    BY <1>1 DEF Member
  <2> QED BY <2>1, <2>2 DEF M!TypeOK, M!Exists
<1>3. ASSUME NEW o \in DOMAIN obj, M!IsInit(o), ~M!IsInline(o)
      PROVE  memory[obj[o].start.to].what # M!Free
  <2>1. obj[o].start.to \in Block /\ SoundObject(o, obj[o], memory, open)
    BY <1>1, <1>3 DEF Member
  <2>2. Owns(obj[o], memory, open)
    BY <2>1 DEF SoundObject
  <2> QED BY <2>2, Uses DEF Owns
<1>4. ASSUME NEW b \in Block, memory[b].what # M!Free
      PROVE  /\ M!Cardinality({o \in DOMAIN obj : obj[o].start.to = b}) = 1
             /\ \E o \in DOMAIN obj : IF memory[b].what = M!Heap THEN M!OwnsHeap(o, b) ELSE M!OwnsMap(o, b)
  <2>1. PICK o \in DOMAIN obj : obj[o].start.to = b
    BY <1>0, <1>4 DEF SoundMemory
  <2>2. \A p \in DOMAIN obj : p # o => obj[p].start.to # b
    BY <1>0, <2>1 DEF SoundObjects, Apart
  <2>3. {p \in DOMAIN obj : obj[p].start.to = b} = {o}
    BY <2>1, <2>2
  <2>4. M!Cardinality({p \in DOMAIN obj : obj[p].start.to = b}) = 1
    <3>1. M!Cardinality({o}) = Cardinality({o})
      BY DEF M!Cardinality, Cardinality
    <3>2. Cardinality({o}) = 1
      BY FS_Singleton
    <3> QED BY <2>3, <3>1, <3>2
  <2>5. Owns(obj[o], memory, open) /\ obj[o] \in Member /\ M!IsInit(o)
    BY <1>1, <2>1, MmapAssumption DEF SoundObject
  <2>6. CASE memory[b].what = M!Heap
    <3>1. obj[o].fd = -1 /\ obj[o].start.off = 0
      BY <2>1, <2>5, <2>6, Uses DEF Owns
    <3>2. obj[o].start = M!Pointer(b, 0)
      BY <2>1, <2>5, <3>1 DEF Member, M!Pointer
    <3> QED BY <2>4, <2>5, <2>6, <3>1, <3>2 DEF M!OwnsHeap
  <2>7. CASE memory[b].what # M!Heap
    BY <2>1, <2>4, <2>5, <2>7 DEF Owns, M!OwnsMap
  <2> QED BY <2>6, <2>7
<1>5. M!Cardinality(open) = M!Cardinality({b \in Block : memory[b].what.use = "map"})
  <2>1. \A S : M!Cardinality(S) = Cardinality(S)
    BY DEF M!Cardinality, Cardinality
  <2> QED BY <1>0, <2>1 DEF SoundMemory, MappedIn
<1>6. ASSUME NEW o \in DOMAIN obj, NEW p \in DOMAIN obj, o # p,
             ~M!IsInline(o), ~M!IsInline(p), obj[o].fd >= 0
      PROVE  obj[o].fd # obj[p].fd
  <2>0. ~(-1 >= 0)
    OBVIOUS
  <2>1. obj[o].start.to \in Block
    BY <1>1, <1>6, <2>0 DEF Member, SoundObject
  <2>2. CASE obj[p].start.to \in Block
    BY <1>0, <1>6, <2>1, <2>2 DEF SoundObjects, Apart
  <2>3. CASE obj[p].start.to \notin Block
    <3>1. obj[p].start.to = Null /\ obj[p].fd = -1
      BY <1>1, <1>6, <2>3 DEF Member, SoundObject
    <3> QED BY <1>6, <2>0, <3>1
  <2> QED BY <2>2, <2>3
<1>7. ASSUME NEW o \in DOMAIN written PROVE M!Bytes(o) = written[o]
  BY <1>0, <1>1, <1>7 DEF SoundBytes, BytesOfObject, M!Bytes
<1> QED BY <1>2, <1>3, <1>4, <1>5, <1>6, <1>7 DEF M!MemoryKept, M!Exists

-----------------------------------------------------------------------------
(* TensorShape: its fields, of n dimensions *)
Shape(a, format, d, p, q) ==
  [scalar |-> a, format |-> format, dims |-> d, padding0 |-> p, padding1 |-> q]

Fields(a, format, n, d, p, q) ==
  /\ a \in BOOLEAN /\ format \in Formats /\ n \in 0..MaxRank /\ (a => n = 0)
  /\ d \in [1..n -> Int] /\ p \in [1..n -> Int] /\ q \in [1..n -> Int]

(* Only channels are padded. *)
OnlyChannels(n, p, q) == \A i \in 1..n : p[i] = 0 /\ (i # 2 => q[i] = 0)

(* What CalcPadding() makes of the paddings *)
Calculated(format, n, d, q) ==
  /\ format = "NDARRAY" => \A i \in 1..n : q[i] = 0
  /\ format \in DOMAIN T!Alignment /\ n >= 2 => q[2] = T!PaddingOf(d[2], T!Alignment[format])

Is(s, isPlain, isCalculated, a, format, n, d, p, q) ==
  /\ s = Shape(a, format, d, p, q) /\ Fields(a, format, n, d, p, q)
  /\ isPlain \in BOOLEAN /\ isCalculated \in BOOLEAN
  /\ isPlain => OnlyChannels(n, p, q)
  /\ isPlain /\ isCalculated => Calculated(format, n, d, q)

ShapeInv == \E a, format, n, d, p, q : Is(shape, plain, calculated, a, format, n, d, p, q)

LEMMA ShapesInit == T!Init => ShapeInv
<1> SUFFICES ASSUME T!Init PROVE ShapeInv
  OBVIOUS
<1> DEFINE n == 0
           none == <<>>
           format == "UNKNOWN"
<1>1. n \in 0..MaxRank /\ 1..n = {} /\ format \in Formats /\ format # "NDARRAY" /\ ~(n >= 2)
  BY ShapeAssumption
<1>2. none \in [1..n -> Int]
  BY <1>1
<1>3. shape = Shape(FALSE, format, none, none, none) /\ plain = TRUE /\ calculated = TRUE
  BY DEF T!Init, T!Cleared, Shape
<1> HIDE DEF n, none, format
<1>4. Fields(FALSE, format, n, none, none, none)
  BY <1>1, <1>2 DEF Fields
<1>5. OnlyChannels(n, none, none) /\ Calculated(format, n, none, none)
  BY <1>1 DEF OnlyChannels, Calculated
<1>6. Is(shape, plain, calculated, FALSE, format, n, none, none, none)
  BY <1>3, <1>4, <1>5 DEF Is
<1> QED BY <1>6 DEF ShapeInv

(* One field at a time *)
LEMMA ChangeField ==
  ASSUME NEW a, NEW format, NEW d, NEW p, NEW q
  PROVE  /\ \A x : [Shape(a, format, d, p, q) EXCEPT !.scalar = x] = Shape(x, format, d, p, q)
         /\ \A x : [Shape(a, format, d, p, q) EXCEPT !.format = x] = Shape(a, x, d, p, q)
         /\ \A x : [Shape(a, format, d, p, q) EXCEPT !.dims = x] = Shape(a, format, x, p, q)
         /\ \A x : [Shape(a, format, d, p, q) EXCEPT !.padding0 = x] = Shape(a, format, d, x, q)
         /\ \A x : [Shape(a, format, d, p, q) EXCEPT !.padding1 = x] = Shape(a, format, d, p, x)
<1>1. ASSUME NEW x PROVE [Shape(a, format, d, p, q) EXCEPT !.scalar = x] = Shape(x, format, d, p, q)
  BY DEF Shape
<1>2. ASSUME NEW x PROVE [Shape(a, format, d, p, q) EXCEPT !.format = x] = Shape(a, x, d, p, q)
  BY DEF Shape
<1>3. ASSUME NEW x PROVE [Shape(a, format, d, p, q) EXCEPT !.dims = x] = Shape(a, format, x, p, q)
  BY DEF Shape
<1>4. ASSUME NEW x PROVE [Shape(a, format, d, p, q) EXCEPT !.padding0 = x] = Shape(a, format, d, x, q)
  BY DEF Shape
<1>5. ASSUME NEW x PROVE [Shape(a, format, d, p, q) EXCEPT !.padding1 = x] = Shape(a, format, d, p, x)
  BY DEF Shape
<1> QED BY <1>1, <1>2, <1>3, <1>4, <1>5

LEMMA ChangeFields ==
  ASSUME NEW s, NEW x, NEW y, NEW z
  PROVE  /\ [s EXCEPT !.padding0 = x, !.padding1 = y]
            = [[s EXCEPT !.padding0 = x] EXCEPT !.padding1 = y]
         /\ [s EXCEPT !.scalar = x, !.dims = y] = [[s EXCEPT !.scalar = x] EXCEPT !.dims = y]
         /\ [s EXCEPT !.dims = z, !.padding0 = x, !.padding1 = y]
            = [[[s EXCEPT !.dims = z] EXCEPT !.padding0 = x] EXCEPT !.padding1 = y]
OBVIOUS

LEMMA ZerosAre ==
  ASSUME NEW n \in Nat
  PROVE  T!Zeros(n) \in [1..n -> Int] /\ \A i \in 1..n : T!Zeros(n)[i] = 0
BY DEF T!Zeros

LEMMA LengthIs ==
  ASSUME NEW n \in Nat, NEW v \in [1..n -> Int]
  PROVE  Len(v) = n /\ DOMAIN v = 1..n
OBVIOUS

LEMMA Alignments ==
  \A format \in DOMAIN T!Alignment :
    /\ T!Alignment[format] \in {2, 4, 8, 16, 32} /\ format # "NDARRAY"
BY DEF T!Alignment

LEMMA Padded ==
  ASSUME NEW dim \in Int, NEW alignment \in {2, 4, 8, 16, 32}
  PROVE  /\ T!PaddingOf(dim, alignment) \in 0..(alignment - 1)
         /\ (dim + T!PaddingOf(dim, alignment)) % alignment = 0
<1>1. CASE alignment = 2
  BY <1>1 DEF T!PaddingOf
<1>2. CASE alignment = 4
  BY <1>2 DEF T!PaddingOf
<1>3. CASE alignment = 8
  BY <1>3 DEF T!PaddingOf
<1>4. CASE alignment = 16
  BY <1>4 DEF T!PaddingOf
<1>5. CASE alignment = 32
  BY <1>5 DEF T!PaddingOf
<1> QED BY <1>1, <1>2, <1>3, <1>4, <1>5

LEMMA WithPaddingIs ==
  ASSUME NEW a, NEW format, NEW n, NEW d, NEW p, NEW q, Fields(a, format, n, d, p, q)
  PROVE  \E p2, q2 :
           /\ T!WithPadding(Shape(a, format, d, p, q)) = Shape(a, format, d, p2, q2)
           /\ Fields(a, format, n, d, p2, q2)
           /\ Calculated(format, n, d, q2)
           /\ (OnlyChannels(n, p, q) \/ format = "NDARRAY" \/ n = 0) => OnlyChannels(n, p2, q2)
<1> DEFINE s == Shape(a, format, d, p, q)
<1>0. /\ a \in BOOLEAN /\ format \in Formats /\ n \in 0..MaxRank /\ (a => n = 0)
      /\ d \in [1..n -> Int] /\ p \in [1..n -> Int] /\ q \in [1..n -> Int] /\ n \in Nat
  BY ShapeAssumption DEF Fields
<1>1. /\ s.format = format /\ s.dims = d /\ s.padding0 = p /\ s.padding1 = q
      /\ s = [scalar |-> a, format |-> format, dims |-> d, padding0 |-> p, padding1 |-> q]
  BY DEF Shape
<1>2. Len(p) = n /\ Len(q) = n /\ Len(d) = n
  BY <1>0, LengthIs
<1> HIDE DEF s
<1>3. CASE format = "NDARRAY"
  <2> DEFINE z == T!Zeros(n)
  <2>1. z \in [1..n -> Int] /\ \A i \in 1..n : z[i] = 0
    BY <1>0, ZerosAre
  <2>2. T!WithPadding(s) = [s EXCEPT !.padding0 = T!Zeros(Len(@)), !.padding1 = T!Zeros(Len(@))]
    BY <1>1, <1>3 DEF T!WithPadding
  <2>3. T!WithPadding(s) = [s EXCEPT !.padding0 = z, !.padding1 = z]
    BY <1>1, <1>2, <2>2
  <2> HIDE DEF z
  <2>4. T!WithPadding(s) = Shape(a, format, d, z, z)
    <3>1. T!WithPadding(s) = [[s EXCEPT !.padding0 = z] EXCEPT !.padding1 = z]
      BY <2>3, ChangeFields
    <3>2. [s EXCEPT !.padding0 = z] = Shape(a, format, d, z, q)
      BY ChangeField DEF s
    <3>3. [Shape(a, format, d, z, q) EXCEPT !.padding1 = z] = Shape(a, format, d, z, z)
      BY ChangeField
    <3> QED BY <3>1, <3>2, <3>3
  <2>5. Fields(a, format, n, d, z, z)
    BY <1>0, <2>1 DEF Fields
  <2>6. Calculated(format, n, d, z) /\ OnlyChannels(n, z, z)
    BY <1>3, <2>1, Alignments DEF Calculated, OnlyChannels
  <2> QED BY <2>4, <2>5, <2>6 DEF s
<1>4. CASE format # "NDARRAY" /\ n >= 2 /\ format \in DOMAIN T!Alignment
  <2> DEFINE x == T!PaddingOf(d[2], T!Alignment[format])
             r == [q EXCEPT ![2] = x]
  <2>1. x \in Int
    <3>1. d[2] \in Int
      BY <1>0, <1>4
    <3>2. T!Alignment[format] \in {2, 4, 8, 16, 32}
      BY <1>4, Alignments
    <3>3. x \in 0..(T!Alignment[format] - 1)
      BY <3>1, <3>2, Padded
    <3> HIDE DEF x
    <3> QED BY <3>2, <3>3
  <2>2. T!WithPadding(s) = [s EXCEPT !.padding1[T!kAxisC]
                              = T!PaddingOf(s.dims[T!kAxisC], T!Alignment[s.format])]
    BY <1>1, <1>2, <1>4 DEF T!WithPadding, T!kAxisC
  <2>3. T!WithPadding(s) = [s EXCEPT !.padding1 = r]
    <3>1. T!WithPadding(s) = [s EXCEPT !.padding1[2] = x]
      BY <1>1, <2>2 DEF T!kAxisC
    <3> HIDE DEF x
    <3> QED BY <1>1, <3>1
  <2> HIDE DEF x
  <2>4. r \in [1..n -> Int] /\ r[2] = x /\ \A i \in 1..n : i # 2 => r[i] = q[i]
    BY <1>0, <1>4, <2>1
  <2> HIDE DEF r
  <2>5. T!WithPadding(s) = Shape(a, format, d, p, r)
    BY <1>1, <2>3 DEF Shape
  <2>6. Fields(a, format, n, d, p, r)
    BY <1>0, <2>4 DEF Fields
  <2>7. Calculated(format, n, d, r)
    BY <1>4, <2>4 DEF Calculated, x
  <2>8. (OnlyChannels(n, p, q) \/ format = "NDARRAY" \/ n = 0) => OnlyChannels(n, p, r)
    BY <1>0, <1>4, <2>4 DEF OnlyChannels
  <2> QED BY <2>5, <2>6, <2>7, <2>8 DEF s
<1>5. CASE format # "NDARRAY" /\ ~(n >= 2 /\ format \in DOMAIN T!Alignment)
  <2>1. T!WithPadding(s) = s
    BY <1>1, <1>2, <1>5 DEF T!WithPadding, T!kAxisC
  <2>2. Calculated(format, n, d, q)
    BY <1>5 DEF Calculated
  <2>3. (OnlyChannels(n, p, q) \/ format = "NDARRAY" \/ n = 0) => OnlyChannels(n, p, q)
    <3>1. n = 0 => 1..n = {}
      OBVIOUS
    <3> QED BY <1>5, <3>1 DEF OnlyChannels
  <2> QED BY <2>1, <2>2, <2>3 DEF s
<1> QED BY <1>3, <1>4, <1>5

LEMMA ResizedVector ==
  ASSUME NEW n \in Nat, NEW m \in Nat, NEW v \in [1..n -> Int]
  PROVE  /\ T!ResizeVector(v, m) \in [1..m -> Int]
         /\ \A i \in 1..m : T!ResizeVector(v, m)[i] = IF i \in 1..n THEN v[i] ELSE 0
BY DEF T!ResizeVector

LEMMA ResizedIs ==
  ASSUME NEW a, NEW format, NEW n, NEW d, NEW p, NEW q, Fields(a, format, n, d, p, q),
         NEW m \in 0..MaxRank
  PROVE  \E d2, p2, q2 :
           /\ T!Resized(Shape(a, format, d, p, q), m) = Shape(a, format, d2, p2, q2)
           /\ d2 \in [1..m -> Int] /\ p2 \in [1..m -> Int] /\ q2 \in [1..m -> Int]
           /\ OnlyChannels(n, p, q) => OnlyChannels(m, p2, q2)
<1> DEFINE s == Shape(a, format, d, p, q)
           d2 == T!ResizeVector(d, m)
           p2 == T!ResizeVector(p, m)
           q2 == T!ResizeVector(q, m)
<1>0. /\ d \in [1..n -> Int] /\ p \in [1..n -> Int] /\ q \in [1..n -> Int]
      /\ n \in Nat /\ m \in Nat
  BY ShapeAssumption DEF Fields
<1>1. /\ s.dims = d /\ s.padding0 = p /\ s.padding1 = q
      /\ s = [scalar |-> a, format |-> format, dims |-> d, padding0 |-> p, padding1 |-> q]
  BY DEF Shape
<1> HIDE DEF s
<1>2. T!Resized(s, m) = [s EXCEPT !.dims = d2, !.padding0 = p2, !.padding1 = q2]
  BY <1>1 DEF T!Resized
<1>3. /\ d2 \in [1..m -> Int] /\ p2 \in [1..m -> Int] /\ q2 \in [1..m -> Int]
      /\ \A i \in 1..m : /\ p2[i] = IF i \in 1..n THEN p[i] ELSE 0
                         /\ q2[i] = IF i \in 1..n THEN q[i] ELSE 0
  <2>1. d2 \in [1..m -> Int]
    BY <1>0, ResizedVector
  <2>2. p2 \in [1..m -> Int] /\ \A i \in 1..m : p2[i] = IF i \in 1..n THEN p[i] ELSE 0
    BY <1>0, ResizedVector
  <2>3. q2 \in [1..m -> Int] /\ \A i \in 1..m : q2[i] = IF i \in 1..n THEN q[i] ELSE 0
    BY <1>0, ResizedVector
  <2> HIDE DEF d2, p2, q2
  <2> QED BY <2>1, <2>2, <2>3
<1> HIDE DEF d2, p2, q2
<1>4. T!Resized(s, m) = Shape(a, format, d2, p2, q2)
  <2>1. T!Resized(s, m) = [[[s EXCEPT !.dims = d2] EXCEPT !.padding0 = p2] EXCEPT !.padding1 = q2]
    BY <1>2, ChangeFields
  <2>2. [s EXCEPT !.dims = d2] = Shape(a, format, d2, p, q)
    BY ChangeField DEF s
  <2>3. [Shape(a, format, d2, p, q) EXCEPT !.padding0 = p2] = Shape(a, format, d2, p2, q)
    BY ChangeField
  <2>4. [Shape(a, format, d2, p2, q) EXCEPT !.padding1 = q2] = Shape(a, format, d2, p2, q2)
    BY ChangeField
  <2> QED BY <2>1, <2>2, <2>3, <2>4
<1>5. OnlyChannels(n, p, q) => OnlyChannels(m, p2, q2)
  BY <1>3 DEF OnlyChannels
<1> QED BY <1>3, <1>4, <1>5 DEF s

-----------------------------------------------------------------------------
(* What the actions leave *)
LEMMA Becomes ==
  ASSUME NEW a, NEW format, NEW n, NEW d, NEW p, NEW q, Fields(a, format, n, d, p, q),
         shape' = Shape(a, format, d, p, q),
         plain' \in BOOLEAN, calculated' \in BOOLEAN,
         plain' => OnlyChannels(n, p, q),
         plain' /\ calculated' => Calculated(format, n, d, q)
  PROVE  ShapeInv'
<1>1. Is(shape', plain', calculated', a, format, n, d, p, q)
  BY DEF Is
<1> QED BY <1>1 DEF ShapeInv

(* The paddings are calculated for dimensions d2 in a format. *)
LEMMA BecomesPadded ==
  ASSUME NEW a, NEW format, NEW n, NEW d, NEW p, NEW q, Fields(a, format, n, d, p, q),
         plain \in BOOLEAN, plain => OnlyChannels(n, p, q),
         shape' = T!WithPadding(Shape(a, format, d, p, q)),
         plain' = T!PlainAfter(shape'), calculated' \in BOOLEAN
  PROVE  ShapeInv'
<1>1. PICK p2, q2 :
        /\ T!WithPadding(Shape(a, format, d, p, q)) = Shape(a, format, d, p2, q2)
        /\ Fields(a, format, n, d, p2, q2)
        /\ Calculated(format, n, d, q2)
        /\ (OnlyChannels(n, p, q) \/ format = "NDARRAY" \/ n = 0) => OnlyChannels(n, p2, q2)
  BY WithPaddingIs
<1>2. shape' = Shape(a, format, d, p2, q2)
  BY <1>1
<1>3. shape'.dims = d /\ shape'.format = format
  BY <1>2 DEF Shape
<1>4. d = <<>> => n = 0
  <2>1. n \in Nat /\ d \in [1..n -> Int]
    BY ShapeAssumption DEF Fields
  <2>2. Len(d) = n
    BY <2>1, LengthIs
  <2> QED BY <2>2
<1>5. plain' \in BOOLEAN /\ (plain' => plain \/ n = 0 \/ format = "NDARRAY")
  BY <1>3, <1>4 DEF T!PlainAfter
<1>6. plain' => OnlyChannels(n, p2, q2)
  BY <1>1, <1>5
<1> QED BY <1>1, <1>2, <1>5, <1>6, Becomes

LEMMA NoDimensions ==
  ASSUME NEW a, NEW format, NEW n, NEW d, NEW p, NEW q, Fields(a, format, n, d, p, q),
         shape' = [T!Resized(Shape(a, format, d, p, q), 0) EXCEPT !.scalar = TRUE],
         plain' \in BOOLEAN, calculated' \in BOOLEAN
  PROVE  ShapeInv'
<1> DEFINE m == 0
<1>1. m \in 0..MaxRank /\ 1..m = {} /\ ~(m >= 2) /\ m = 0
  BY ShapeAssumption
<1>2. shape' = [T!Resized(Shape(a, format, d, p, q), m) EXCEPT !.scalar = TRUE]
  OBVIOUS
<1> HIDE DEF m
<1>3. PICK d2, p2, q2 :
        /\ T!Resized(Shape(a, format, d, p, q), m) = Shape(a, format, d2, p2, q2)
        /\ d2 \in [1..m -> Int] /\ p2 \in [1..m -> Int] /\ q2 \in [1..m -> Int]
        /\ OnlyChannels(n, p, q) => OnlyChannels(m, p2, q2)
  BY <1>1, ResizedIs
<1> PICK yes : yes = TRUE
  OBVIOUS
<1>4. shape' = Shape(yes, format, d2, p2, q2)
  <2>1. shape' = [T!Resized(Shape(a, format, d, p, q), m) EXCEPT !.scalar = yes]
    BY <1>2
  <2>2. [Shape(a, format, d2, p2, q2) EXCEPT !.scalar = yes] = Shape(yes, format, d2, p2, q2)
    BY ONLY ChangeField
  <2> QED BY <1>3, <2>1, <2>2
<1>5. Fields(yes, format, m, d2, p2, q2)
  BY <1>1, <1>3 DEF Fields
<1>6. OnlyChannels(m, p2, q2) /\ Calculated(format, m, d2, q2)
  BY <1>1 DEF OnlyChannels, Calculated
<1> QED BY <1>4, <1>5, <1>6, Becomes

LEMMA ShapesNext == ASSUME ShapeInv, T!Next PROVE ShapeInv'
<1>1. PICK a, format, n, d, p, q : Is(shape, plain, calculated, a, format, n, d, p, q)
  BY DEF ShapeInv
<1>2. /\ shape = Shape(a, format, d, p, q) /\ Fields(a, format, n, d, p, q)
      /\ plain \in BOOLEAN /\ calculated \in BOOLEAN
      /\ plain => OnlyChannels(n, p, q)
      /\ plain /\ calculated => Calculated(format, n, d, q)
  BY <1>1 DEF Is
<1>3. /\ a \in BOOLEAN /\ format \in Formats /\ n \in 0..MaxRank /\ (a => n = 0) /\ n \in Nat
      /\ d \in [1..n -> Int] /\ p \in [1..n -> Int] /\ q \in [1..n -> Int]
  BY <1>2, ShapeAssumption DEF Fields
<1>4. T!Rank = n
  <2>1. shape.dims = d
    BY <1>2 DEF Shape
  <2> QED BY <1>3, <2>1, LengthIs DEF T!Rank
<1>5. ASSUME NEW f \in Formats, T!SetDataFormat(f) PROVE ShapeInv'
  <2>1. /\ shape' = T!WithPadding([shape EXCEPT !.format = f])
        /\ plain' = T!PlainAfter(shape') /\ calculated' = T!Calculates(shape')
    BY <1>5 DEF T!SetDataFormat
  <2>2. [shape EXCEPT !.format = f] = Shape(a, f, d, p, q)
    BY <1>2, ChangeField
  <2>3. Fields(a, f, n, d, p, q)
    BY <1>3 DEF Fields
  <2>4. calculated' \in BOOLEAN
    BY <2>1 DEF T!Calculates
  <2>5. shape' = T!WithPadding(Shape(a, f, d, p, q))
    BY <2>1, <2>2
  <2> QED BY <1>2, <2>1, <2>3, <2>4, <2>5, BecomesPadded
<1>6. CASE T!ReshapeAsScalar
  <2>1. /\ shape' = [T!Resized(Shape(a, format, d, p, q), 0) EXCEPT !.scalar = TRUE]
        /\ plain' \in BOOLEAN /\ calculated' \in BOOLEAN
    BY <1>2, <1>6 DEF T!ReshapeAsScalar
  <2> QED BY <1>2, <2>1, NoDimensions
<1>7. ASSUME NEW m \in 0..MaxRank, NEW dims \in [1..m -> Dims], T!Reshape(dims)
      PROVE  ShapeInv'
  <2>1. CASE dims = <<>>
    <3>1. T!ReshapeAsScalar
      BY <1>7, <2>1 DEF T!Reshape
    <3> QED BY <1>6, <3>1
  <2>2. CASE dims # <<>>
    <3>2. m \in Nat /\ dims \in [1..m -> Int]
      <4>1. Dims \subseteq Int /\ m \in Nat
        BY ShapeAssumption
      <4> QED BY <4>1
    <3>3. Len(dims) = m
      BY <3>2, LengthIs
    <3>4. /\ shape' = T!WithPadding([T!Resized(shape, Len(dims)) EXCEPT !.scalar = FALSE, !.dims = dims])
          /\ plain' = T!PlainAfter(shape') /\ calculated' = T!Calculates(shape')
      BY <1>7, <2>2 DEF T!Reshape
    <3>5. PICK d2, p2, q2 :
            /\ T!Resized(Shape(a, format, d, p, q), m) = Shape(a, format, d2, p2, q2)
            /\ d2 \in [1..m -> Int] /\ p2 \in [1..m -> Int] /\ q2 \in [1..m -> Int]
            /\ OnlyChannels(n, p, q) => OnlyChannels(m, p2, q2)
      BY <1>2, ResizedIs
    <3> PICK no : no = FALSE
      OBVIOUS
    <3>6. [T!Resized(shape, Len(dims)) EXCEPT !.scalar = no, !.dims = dims]
          = Shape(no, format, dims, p2, q2)
      <4> DEFINE s == Shape(a, format, d2, p2, q2)
      <4>1. T!Resized(shape, Len(dims)) = s
        BY <1>2, <3>3, <3>5
      <4>2. [s EXCEPT !.scalar = no] = Shape(no, format, d2, p2, q2)
        BY ChangeField
      <4> HIDE DEF s
      <4>3. [s EXCEPT !.scalar = no, !.dims = dims] = [[s EXCEPT !.scalar = no] EXCEPT !.dims = dims]
        BY ChangeFields
      <4>4. [Shape(no, format, d2, p2, q2) EXCEPT !.dims = dims] = Shape(no, format, dims, p2, q2)
        BY ChangeField
      <4> QED BY <4>1, <4>2, <4>3, <4>4
    <3>7. Fields(no, format, m, dims, p2, q2)
      BY <1>3, <3>2, <3>5 DEF Fields
    <3>8. calculated' \in BOOLEAN
      BY <3>4 DEF T!Calculates
    <3>9. shape' = T!WithPadding(Shape(no, format, dims, p2, q2))
      BY <3>4, <3>6
    <3>10. plain => OnlyChannels(m, p2, q2)
      BY <1>2, <3>5
    <3> QED BY <1>2, <3>4, <3>7, <3>8, <3>9, <3>10, BecomesPadded
  <2> QED BY <2>1, <2>2
<1>8. ASSUME NEW i \in 1..T!Rank, NEW x \in Paddings, T!SetPadding(i, x) PROVE ShapeInv'
  <2>1. x \in Int /\ plain' = FALSE /\ calculated' = calculated
    BY <1>8, ShapeAssumption DEF T!SetPadding
  <2>2. shape.padding0 = p /\ shape.padding1 = q
    BY <1>2 DEF Shape
  <2>3. CASE shape' = [shape EXCEPT !.padding0[i] = x]
    <3> DEFINE p2 == [p EXCEPT ![i] = x]
    <3>1. p2 \in [1..n -> Int]
      BY <1>3, <2>1
    <3>2. shape' = [shape EXCEPT !.padding0 = p2]
      BY <2>2, <2>3
    <3> HIDE DEF p2
    <3>3. shape' = Shape(a, format, d, p2, q)
      BY <1>2, <3>2, ChangeField
    <3>4. Fields(a, format, n, d, p2, q)
      BY <1>3, <3>1 DEF Fields
    <3> QED BY <1>2, <2>1, <3>3, <3>4, Becomes
  <2>4. CASE shape' = [shape EXCEPT !.padding1[i] = x]
    <3> DEFINE q2 == [q EXCEPT ![i] = x]
    <3>1. q2 \in [1..n -> Int]
      BY <1>3, <2>1
    <3>2. shape' = [shape EXCEPT !.padding1 = q2]
      BY <2>2, <2>4
    <3> HIDE DEF q2
    <3>3. shape' = Shape(a, format, d, p, q2)
      BY <1>2, <3>2, ChangeField
    <3>4. Fields(a, format, n, d, p, q2)
      BY <1>3, <3>1 DEF Fields
    <3> QED BY <1>2, <2>1, <3>3, <3>4, Becomes
  <2> QED BY <1>8, <2>3, <2>4 DEF T!SetPadding
<1>9. ASSUME NEW i \in 1..T!Rank, NEW x \in Dims, T!SetDim(i, x) PROVE ShapeInv'
  <2>1. x \in Int /\ plain' = plain /\ calculated' = FALSE
    BY <1>9, ShapeAssumption DEF T!SetDim
  <2> DEFINE d2 == [d EXCEPT ![i] = x]
  <2>2. d2 \in [1..n -> Int]
    BY <1>3, <2>1
  <2>3. shape' = [shape EXCEPT !.dims = d2]
    <3>1. shape.dims = d
      BY <1>2 DEF Shape
    <3> QED BY <1>9, <3>1 DEF T!SetDim
  <2> HIDE DEF d2
  <2>4. shape' = Shape(a, format, d2, p, q)
    BY <1>2, <2>3, ChangeField
  <2>5. Fields(a, format, n, d2, p, q)
    BY <1>3, <2>2 DEF Fields
  <2> QED BY <1>2, <2>1, <2>4, <2>5, Becomes
<1>10. ASSUME NEW m \in 0..MaxRank, T!SetDimCount(m) PROVE ShapeInv'
  <2>1. /\ shape' = [T!Resized(Shape(a, format, d, p, q), m) EXCEPT !.scalar = (m = 0)]
        /\ plain' = (plain \/ m = 0) /\ calculated' = (m = 0)
    BY <1>2, <1>10 DEF T!SetDimCount
  <2>2. PICK d2, p2, q2 :
          /\ T!Resized(Shape(a, format, d, p, q), m) = Shape(a, format, d2, p2, q2)
          /\ d2 \in [1..m -> Int] /\ p2 \in [1..m -> Int] /\ q2 \in [1..m -> Int]
          /\ OnlyChannels(n, p, q) => OnlyChannels(m, p2, q2)
    BY <1>2, ResizedIs
  <2> DEFINE e == (m = 0)
  <2>3. shape' = Shape(e, format, d2, p2, q2) /\ e \in BOOLEAN /\ (e => m = 0)
    <3>1. [Shape(a, format, d2, p2, q2) EXCEPT !.scalar = e] = Shape(e, format, d2, p2, q2)
      BY ChangeField
    <3> QED BY <2>1, <2>2, <3>1
  <2>4. plain' \in BOOLEAN /\ calculated' \in BOOLEAN /\ (calculated' => m = 0)
    BY <2>1
  <2>5. m = 0 => OnlyChannels(m, p2, q2) /\ Calculated(format, m, d2, q2)
    <3> SUFFICES ASSUME m = 0 PROVE OnlyChannels(m, p2, q2) /\ Calculated(format, m, d2, q2)
      OBVIOUS
    <3>1. 1..m = {} /\ ~(m >= 2)
      OBVIOUS
    <3> QED BY <3>1 DEF OnlyChannels, Calculated
  <2> HIDE DEF e
  <2>6. Fields(e, format, m, d2, p2, q2)
    BY <1>3, <2>2, <2>3 DEF Fields
  <2>7. plain' => OnlyChannels(m, p2, q2)
    BY <1>2, <2>1, <2>2, <2>5
  <2>8. plain' /\ calculated' => Calculated(format, m, d2, q2)
    BY <2>4, <2>5
  <2> QED BY <2>3, <2>4, <2>6, <2>7, <2>8, Becomes
<1>11. CASE T!Clear
  <2> DEFINE k == 0
             none == <<>>
             unknown == "UNKNOWN"
  <2>2. k \in 0..MaxRank /\ 1..k = {} /\ unknown \in Formats /\ ~(k >= 2)
    BY ShapeAssumption
  <2>3. none \in [1..k -> Int]
    BY <2>2
  <2>4. shape' = Shape(FALSE, unknown, none, none, none) /\ plain' = TRUE /\ calculated' = TRUE
    BY <1>11 DEF T!Clear, T!Cleared, Shape
  <2> HIDE DEF k, none, unknown
  <2>5. Fields(FALSE, unknown, k, none, none, none)
    BY <2>2, <2>3 DEF Fields
  <2>6. OnlyChannels(k, none, none) /\ Calculated(unknown, k, none, none)
    BY <2>2 DEF OnlyChannels, Calculated
  <2> QED BY <2>4, <2>5, <2>6, Becomes
<1> QED BY <1>5, <1>6, <1>7, <1>8, <1>9, <1>10, <1>11 DEF T!Next

LEMMA ShapesStay == ASSUME ShapeInv, UNCHANGED shapeVars PROVE ShapeInv'
BY DEF ShapeInv, shapeVars

-----------------------------------------------------------------------------
(* Products: the loop that multiplies v[from], ..., v[to] *)
Multiplying(f, v, from, to) ==
  /\ f = [i \in (from - 1)..to |-> f[i]]
  /\ f[from - 1] = 1
  /\ \A i \in from..to : f[i] = (f[i - 1] * v[i]) % Wrap

Factors(from, to) == from \in Nat \ {0} /\ to \in Nat /\ from - 1 <= to

LEMMA MultiplyingExists ==
  ASSUME NEW v, NEW from, NEW to, Factors(from, to)
  PROVE  \E f : Multiplying(f, v, from, to)
<1> DEFINE Q == {k \in Nat : \E f : Multiplying(f, v, from, (from - 1) + k)}
<1>0. from \in Nat /\ from - 1 \in Nat /\ to \in Nat /\ from - 1 <= to
  BY DEF Factors
<1>1. 0 \in Q
  <2> DEFINE b == from - 1
             f == [i \in b..b |-> 1]
  <2>1. f = [i \in b..b |-> f[i]] /\ f[b] = 1 /\ b + 0 = b /\ from..b = {}
    BY <1>0
  <2> HIDE DEF f
  <2>2. Multiplying(f, v, from, b)
    BY <2>1 DEF Multiplying
  <2> QED BY <2>1, <2>2
<1>2. ASSUME NEW k \in Q PROVE k + 1 \in Q
  <2>0. k \in Nat /\ \E f : Multiplying(f, v, from, (from - 1) + k)
    OBVIOUS
  <2> DEFINE b == from - 1
             m == b + k
  <2>1. PICK f : Multiplying(f, v, from, m)
    BY <2>0
  <2>2. m \in Nat /\ b \in Nat /\ b <= m /\ b + (k + 1) = m + 1 /\ from = b + 1
    BY <1>0, <2>0
  <2> HIDE DEF m, Q
  <2> DEFINE g == [i \in b..(m + 1) |-> IF i = m + 1 THEN (f[m] * v[m + 1]) % Wrap ELSE f[i]]
  <2>3. /\ g = [i \in b..(m + 1) |-> g[i]]
        /\ g[m + 1] = (f[m] * v[m + 1]) % Wrap /\ \A i \in b..m : g[i] = f[i]
    BY <2>2
  <2> HIDE DEF g
  <2>4. g[b] = 1
    <3>1. b \in b..m /\ f[b] = 1
      BY <2>1, <2>2 DEF Multiplying
    <3> QED BY <2>3, <3>1
  <2>5. ASSUME NEW i \in from..(m + 1) PROVE g[i] = (g[i - 1] * v[i]) % Wrap
    <3>1. CASE i = m + 1
      <4>1. i - 1 = m /\ m \in b..m
        BY <2>2, <3>1
      <4>2. g[i - 1] = f[m]
        BY <2>3, <4>1
      <4> QED BY <2>3, <3>1, <4>2
    <3>2. CASE i # m + 1
      <4>1. i \in from..m /\ i \in b..m /\ i - 1 \in b..m
        BY <2>2, <3>2
      <4>2. f[i] = (f[i - 1] * v[i]) % Wrap
        BY <2>1, <4>1 DEF Multiplying
      <4> QED BY <2>3, <4>1, <4>2
    <3> QED BY <3>1, <3>2
  <2>6. Multiplying(g, v, from, m + 1)
    BY <2>3, <2>4, <2>5 DEF Multiplying
  <2>7. Multiplying(g, v, from, (from - 1) + (k + 1))
    BY <2>2, <2>6
  <2> QED BY <2>0, <2>7 DEF Q
<1>3. to - (from - 1) \in Q
  <2> HIDE DEF Q
  <2>1. Q \in SUBSET Nat
    BY DEF Q
  <2>2. Q = Nat
    BY <1>1, <1>2, <2>1, Induction
  <2> QED BY <1>0, <2>2
<1>4. (from - 1) + (to - (from - 1)) = to
  BY <1>0
<1> QED BY <1>3, <1>4

LEMMA ProductMultiplies ==
  ASSUME NEW v, NEW from, NEW to, Factors(from, to)
  PROVE  \E f : Multiplying(f, v, from, to) /\ T!Product(v, from, to) = f[to]
<1> DEFINE accu == CHOOSE f : f = [i \in (from - 1)..to |->
                      IF i = from - 1 THEN 1 ELSE (f[i - 1] * v[i]) % Wrap]
<1>0. from \in Nat /\ from - 1 \in Nat /\ to \in Nat /\ from - 1 <= to
  BY DEF Factors
<1>1. PICK f : Multiplying(f, v, from, to)
  BY MultiplyingExists
<1>2. f = [i \in (from - 1)..to |-> IF i = from - 1 THEN 1 ELSE (f[i - 1] * v[i]) % Wrap]
  <2>1. ASSUME NEW i \in (from - 1)..to
        PROVE  f[i] = IF i = from - 1 THEN 1 ELSE (f[i - 1] * v[i]) % Wrap
    <3>1. i = from - 1 \/ i \in from..to
      BY <1>0
    <3>2. i \in from..to => i # from - 1
      BY <1>0
    <3> QED BY <1>1, <3>1, <3>2 DEF Multiplying
  <2>2. f = [i \in (from - 1)..to |-> f[i]]
    BY <1>1 DEF Multiplying
  <2> QED BY <2>1, <2>2
<1>3. accu = [i \in (from - 1)..to |->
                IF i = from - 1 THEN 1 ELSE (accu[i - 1] * v[i]) % Wrap]
  BY <1>2, Zenon
<1>4. T!Product(v, from, to) = accu[to]
  BY Zenon DEF T!Product
<1> HIDE DEF accu
<1>5. Multiplying(accu, v, from, to)
  <2>1. accu = [i \in (from - 1)..to |-> accu[i]]
    BY <1>3
  <2>2. \A i \in (from - 1)..to :
          accu[i] = IF i = from - 1 THEN 1 ELSE (accu[i - 1] * v[i]) % Wrap
    BY <1>3
  <2>3. from - 1 \in (from - 1)..to
    BY <1>0
  <2>4. accu[from - 1] = 1
    BY <2>2, <2>3
  <2>5. \A i \in from..to : i \in (from - 1)..to /\ i # from - 1
    BY <1>0
  <2>6. \A i \in from..to : accu[i] = (accu[i - 1] * v[i]) % Wrap
    BY <2>2, <2>5
  <2> QED BY <2>1, <2>4, <2>6 DEF Multiplying
<1> QED BY <1>4, <1>5

(* There is but one such product. *)
LEMMA OneProduct ==
  ASSUME NEW v, NEW from, NEW m, NEW n, Factors(from, m), Factors(from, n), m <= n,
         NEW f, Multiplying(f, v, from, m), NEW g, Multiplying(g, v, from, n)
  PROVE  f[m] = g[m]
<1> DEFINE b == from - 1
           Q == {k \in Nat : b + k <= m => f[b + k] = g[b + k]}
<1>0. b \in Nat /\ m \in Nat /\ n \in Nat /\ b <= m /\ m <= n /\ from = b + 1
  BY DEF Factors
<1>1. /\ f[b] = 1 /\ \A i \in from..m : f[i] = (f[i - 1] * v[i]) % Wrap
      /\ g[b] = 1 /\ \A i \in from..n : g[i] = (g[i - 1] * v[i]) % Wrap
  BY DEF Multiplying
<1> HIDE DEF b
<1>2. 0 \in Q
  <2>1. b + 0 = b
    BY <1>0
  <2> QED BY <1>1, <2>1
<1>3. ASSUME NEW k \in Q PROVE k + 1 \in Q
  <2>0. k \in Nat /\ (b + k <= m => f[b + k] = g[b + k])
    OBVIOUS
  <2> SUFFICES ASSUME b + (k + 1) <= m PROVE f[b + (k + 1)] = g[b + (k + 1)]
    BY <2>0
  <2> DEFINE i == b + (k + 1)
  <2>1. i \in from..m /\ i \in from..n /\ i - 1 = b + k /\ b + k <= m
    BY <1>0, <2>0
  <2> HIDE DEF i, Q
  <2>2. f[i - 1] = g[i - 1]
    BY <2>0, <2>1
  <2>3. f[i] = (f[i - 1] * v[i]) % Wrap /\ g[i] = (g[i - 1] * v[i]) % Wrap
    BY <1>1, <2>1
  <2>4. f[i] = g[i]
    BY <2>2, <2>3
  <2> QED BY <2>4 DEF i
<1>4. Q = Nat
  <2>1. Q \in SUBSET Nat
    OBVIOUS
  <2> HIDE DEF Q
  <2> QED BY <1>2, <1>3, <2>1, Induction
<1>5. m - b \in Q /\ b + (m - b) = m
  <2> HIDE DEF Q
  <2> QED BY <1>0, <1>4
<1>6. b + (m - b) <= m => f[b + (m - b)] = g[b + (m - b)]
  BY <1>5
<1> QED BY <1>0, <1>5, <1>6

LEMMA Products ==
  ASSUME NEW v, NEW from, NEW to, Factors(from, to)
  PROVE  /\ T!Product(v, from, from - 1) = 1
         /\ T!Product(v, from, to + 1) = (T!Product(v, from, to) * v[to + 1]) % Wrap
<1>0. from \in Nat /\ from - 1 \in Nat /\ to \in Nat /\ from - 1 <= to
  BY DEF Factors
<1>1. T!Product(v, from, from - 1) = 1
  <2> DEFINE b == from - 1
  <2>1. Factors(from, b)
    BY <1>0 DEF Factors
  <2>2. PICK f : Multiplying(f, v, from, b) /\ T!Product(v, from, b) = f[b]
    <3> HIDE DEF b
    <3> QED BY <2>1, ProductMultiplies
  <2> QED BY <2>2 DEF Multiplying
<1>2. T!Product(v, from, to + 1) = (T!Product(v, from, to) * v[to + 1]) % Wrap
  <2> DEFINE n == to + 1
  <2>1. Factors(from, n) /\ to <= n /\ n \in from..n /\ n - 1 = to
    BY <1>0 DEF Factors
  <2> HIDE DEF n
  <2>2. PICK f : Multiplying(f, v, from, to) /\ T!Product(v, from, to) = f[to]
    BY ProductMultiplies
  <2>3. PICK g : Multiplying(g, v, from, n) /\ T!Product(v, from, n) = g[n]
    BY <2>1, ProductMultiplies
  <2>4. f[to] = g[to]
    BY <2>1, <2>2, <2>3, OneProduct
  <2>5. g[n] = (g[n - 1] * v[n]) % Wrap
    BY <2>1, <2>3 DEF Multiplying
  <2>6. T!Product(v, from, n) = (T!Product(v, from, to) * v[n]) % Wrap
    BY <2>1, <2>2, <2>3, <2>4, <2>5
  <2> QED BY <2>6 DEF n
<1> QED BY <1>1, <1>2

LEMMA ProductIsInt ==
  ASSUME NEW n \in Nat, NEW v, \A i \in 1..n : v[i] \in Int,
         NEW from, NEW to, Factors(from, to), to <= n
  PROVE  /\ T!Product(v, from, to) \in Int
         /\ from <= to => T!Product(v, from, to) % Wrap = T!Product(v, from, to)
<1> DEFINE b == from - 1
           At(k) == /\ T!Product(v, from, b + k) \in Int
                    /\ k > 0 => T!Product(v, from, b + k) % Wrap = T!Product(v, from, b + k)
           Q == {k \in Nat : b + k <= n => At(k)}
<1>0. /\ from \in Nat /\ from > 0 /\ b \in Nat /\ to \in Nat /\ b <= to /\ from = b + 1
      /\ Wrap \in Nat \ {0}
  BY ShapeAssumption DEF Factors
<1>1. T!Product(v, from, b) = 1
  BY Products
<1> HIDE DEF b
<1>2. 0 \in Q
  <2>1. b + 0 = b /\ ~(0 > 0) /\ 1 \in Int
    BY <1>0
  <2> QED BY <1>1, <2>1
<1>3. ASSUME NEW k \in Q PROVE k + 1 \in Q
  <2>0. k \in Nat /\ (b + k <= n => At(k))
    OBVIOUS
  <2> SUFFICES ASSUME b + (k + 1) <= n PROVE At(k + 1)
    BY <2>0
  <2> DEFINE m == b + k
             x == T!Product(v, from, m)
             y == v[m + 1]
  <2>1. m \in Nat /\ m + 1 = b + (k + 1) /\ m + 1 \in 1..n /\ b + k <= n /\ Factors(from, m)
    BY <1>0, <2>0 DEF Factors
  <2>2. x \in Int /\ y \in Int
    BY <2>0, <2>1
  <2>3. T!Product(v, from, m + 1) = (x * y) % Wrap
    <3> HIDE DEF m
    <3> QED BY <2>1, Products
  <2> HIDE DEF m, x, y, Q
  <2> DEFINE z == x * y
             r == z % Wrap
  <2>4. z \in Int
    BY <2>2
  <2> HIDE DEF z
  <2>5. r \in Int /\ r \in 0..(Wrap - 1)
    BY <1>0, <2>4, Division
  <2> HIDE DEF r
  <2>6. r % Wrap = r
    BY <1>0, <2>5
  <2>7. T!Product(v, from, b + (k + 1)) = r
    BY <2>1, <2>3 DEF r, z
  <2> QED BY <2>5, <2>6, <2>7
<1>4. Q = Nat
  <2> HIDE DEF At
  <2>1. Q \in SUBSET Nat
    OBVIOUS
  <2> HIDE DEF Q
  <2> QED BY <1>2, <1>3, <2>1, Induction
<1> HIDE DEF At
<1>5. to - b \in Q /\ b + (to - b) = to /\ (from <= to => to - b > 0)
  <2> HIDE DEF Q
  <2> QED BY <1>0, <1>4
<1>6. At(to - b)
  BY <1>5
<1> QED BY <1>5, <1>6 DEF At

(* A product is that of two parts, of which either may be empty. *)
LEMMA ProductOfParts ==
  ASSUME NEW n \in Nat, n > 0, NEW v, \A j \in 1..n : v[j] \in Int, NEW i \in 0..n
  PROVE  T!Product(v, 1, n) = (T!Product(v, 1, i) * T!Product(v, i + 1, n)) % Wrap
<1> DEFINE one == 1
           front == T!Product(v, one, i)
           back(k) == T!Product(v, i + 1, i + k)
           whole(k) == T!Product(v, one, i + k)
           At(k) == whole(k) % Wrap = (front * back(k)) % Wrap
           Q == {k \in Nat : i + k <= n => At(k)}
<1>0. i \in Nat /\ i <= n /\ Wrap \in Nat \ {0} /\ Factors(one, i) /\ one = 1
  BY ShapeAssumption DEF Factors
<1> HIDE DEF one
<1>1. front \in Int
  BY <1>0, ProductIsInt
<1>2. ASSUME NEW k \in Nat, i + k <= n
      PROVE  back(k) \in Int /\ whole(k) \in Int /\ Factors(i + 1, i + k) /\ Factors(one, i + k)
  <2>1. Factors(i + 1, i + k) /\ Factors(one, i + k)
    BY <1>0 DEF Factors
  <2>2. back(k) \in Int
    BY <1>2, <2>1, ProductIsInt
  <2>3. whole(k) \in Int
    BY <1>2, <2>1, ProductIsInt
  <2> QED BY <2>1, <2>2, <2>3
<1> HIDE DEF front
<1>3. 0 \in Q
  <2> DEFINE none == 0
  <2>1. i + none = i /\ (i + 1) - 1 = i
    BY <1>0
  <2>2. whole(none) = front
    BY <2>1 DEF front
  <2>3. T!Product(v, i + 1, (i + 1) - 1) = 1
    <3>1. Factors(i + 1, i)
      BY <1>0 DEF Factors
    <3> QED BY <3>1, Products
  <2>4. back(none) = 1
    BY <2>1, <2>3
  <2> HIDE DEF back, whole
  <2>5. front * back(none) = front
    BY <1>1, <2>4
  <2>6. At(none)
    BY <2>2, <2>5
  <2> HIDE DEF At
  <2> QED BY <2>6
<1>4. ASSUME NEW k \in Q PROVE k + 1 \in Q
  <2>0. k \in Nat /\ (i + k <= n => At(k))
    <3> HIDE DEF At
    <3> QED OBVIOUS
  <2> SUFFICES ASSUME i + (k + 1) <= n PROVE At(k + 1)
    <3> HIDE DEF At
    <3> QED BY <2>0
  <2> DEFINE m == i + k
             y == v[m + 1]
             b == back(k)
             c == whole(k)
  <2>1. m \in Nat /\ m + 1 = i + (k + 1) /\ m + 1 \in 1..n /\ i + k <= n
    BY <1>0, <2>0
  <2>2. /\ b \in Int /\ c \in Int /\ Factors(i + 1, m) /\ Factors(one, m)
        /\ b = T!Product(v, i + 1, m) /\ c = T!Product(v, one, m)
    BY <1>2, <2>0, <2>1
  <2>3. c % Wrap = (front * b) % Wrap
    BY <2>0, <2>1
  <2> HIDE DEF m, b, c
  <2>4. /\ T!Product(v, i + 1, m + 1) = (b * y) % Wrap
        /\ T!Product(v, one, m + 1) = (c * y) % Wrap
    <3>1. T!Product(v, i + 1, m + 1) = (T!Product(v, i + 1, m) * v[m + 1]) % Wrap
      BY <2>2, Products
    <3>2. T!Product(v, one, m + 1) = (T!Product(v, one, m) * v[m + 1]) % Wrap
      BY <2>2, Products
    <3> QED BY <2>2, <3>1, <3>2
  <2>5. y \in Int
    BY <2>1
  <2>6. back(k + 1) = (b * y) % Wrap /\ whole(k + 1) = (c * y) % Wrap
    BY <2>1, <2>4
  <2> HIDE DEF back, whole, Q, y
  <2>7. ((c * y) % Wrap) % Wrap = (front * ((b * y) % Wrap)) % Wrap
    BY <1>0, <1>1, <2>2, <2>3, <2>5, TimesBoth
  <2> QED BY <2>6, <2>7
<1>5. Q = Nat
  <2> HIDE DEF At
  <2>1. Q \in SUBSET Nat
    OBVIOUS
  <2> HIDE DEF Q
  <2> QED BY <1>3, <1>4, <2>1, Induction
<1>6. n - i \in Q /\ i + (n - i) = n
  <2> HIDE DEF Q
  <2> QED BY <1>0, <1>5
<1>7. At(n - i)
  <2> HIDE DEF At
  <2> QED BY <1>6
<1>8. whole(n - i) = T!Product(v, one, n) /\ back(n - i) = T!Product(v, i + 1, n)
  BY <1>6
<1>9. T!Product(v, one, n) % Wrap = T!Product(v, one, n)
  <2>1. Factors(one, n) /\ one <= n /\ n <= n
    BY <1>0 DEF Factors
  <2> QED BY <2>1, ProductIsInt
<1>10. T!Product(v, one, n) = (front * T!Product(v, i + 1, n)) % Wrap
  <2> HIDE DEF back, whole
  <2> QED BY <1>7, <1>8, <1>9
<1> QED BY <1>10 DEF front, one

LEMMA ShapesSafe == ASSUME ShapeInv PROVE T!TypeOK /\ T!PaddingFits
<1>1. PICK a, format, n, d, p, q : Is(shape, plain, calculated, a, format, n, d, p, q)
  BY DEF ShapeInv
<1>2. /\ shape = Shape(a, format, d, p, q) /\ Fields(a, format, n, d, p, q)
      /\ plain \in BOOLEAN /\ calculated \in BOOLEAN
      /\ plain => OnlyChannels(n, p, q)
      /\ plain /\ calculated => Calculated(format, n, d, q)
  BY <1>1 DEF Is
<1>3. /\ a \in BOOLEAN /\ format \in Formats /\ n \in 0..MaxRank /\ (a => n = 0) /\ n \in Nat
      /\ d \in [1..n -> Int] /\ p \in [1..n -> Int] /\ q \in [1..n -> Int]
  BY <1>2, ShapeAssumption DEF Fields
<1>4. /\ shape.scalar = a /\ shape.format = format /\ shape.dims = d
      /\ shape.padding0 = p /\ shape.padding1 = q
  BY <1>2 DEF Shape
<1>5. T!Rank = n /\ Len(d) = n /\ Len(p) = n /\ Len(q) = n
  BY <1>3, <1>4, LengthIs DEF T!Rank
<1>6. T!TypeOK
  BY <1>2, <1>3, <1>4, <1>5 DEF T!TypeOK
<1> DEFINE v == T!PaddedDims
<1>7. \A i \in 1..n : v[i] = d[i] + p[i] + q[i] /\ v[i] \in Int
  BY <1>3, <1>4, <1>5 DEF T!PaddedDims
<1> HIDE DEF v
<1>8. ASSUME plain, calculated, T!Calculates(shape), NEW i \in 1..n
      PROVE  IF i = T!kAxisC /\ shape.format # "NDARRAY"
               THEN LET b == T!Alignment[shape.format] IN
                    /\ v[i] % b = 0
                    /\ v[i] - shape.dims[i] \in 0..(b - 1)
               ELSE v[i] = shape.dims[i]
  <2>1. p[i] = 0 /\ (i # 2 => q[i] = 0) /\ d[i] \in Int /\ q[i] \in Int
    BY <1>2, <1>3, <1>8 DEF OnlyChannels
  <2>2. v[i] = d[i] + q[i]
    BY <1>7, <2>1
  <2>3. CASE i = 2 /\ format # "NDARRAY"
    <3>1. format \in DOMAIN T!Alignment /\ n >= 2
      BY <1>3, <1>4, <1>8, <2>3 DEF T!Calculates
    <3>2. q[2] = T!PaddingOf(d[2], T!Alignment[format])
      BY <1>2, <1>8, <3>1 DEF Calculated
    <3> DEFINE b == T!Alignment[format]
               dim == d[2]
               x == T!PaddingOf(dim, b)
    <3>3. b \in {2, 4, 8, 16, 32} /\ dim \in Int
      BY <2>1, <2>3, <3>1, Alignments
    <3> HIDE DEF b, dim
    <3>4. x \in 0..(b - 1) /\ (dim + x) % b = 0
      BY <3>3, Padded
    <3> HIDE DEF x
    <3>5. v[i] = dim + x /\ shape.dims[i] = dim
      BY <1>4, <2>2, <2>3, <3>2 DEF b, dim, x
    <3>6. x \in Int /\ (dim + x) - dim = x
      BY <3>3, <3>4
    <3>7. v[i] % b = 0 /\ v[i] - shape.dims[i] \in 0..(b - 1)
      BY <3>4, <3>5, <3>6
    <3> QED BY <1>4, <2>3, <3>7 DEF b, T!kAxisC
  <2>4. CASE ~(i = 2 /\ format # "NDARRAY")
    <3>1. q[i] = 0
      BY <1>2, <1>8, <2>1, <2>4 DEF Calculated
    <3>2. v[i] = shape.dims[i]
      BY <1>4, <2>1, <2>2, <3>1
    <3> QED BY <1>4, <2>4, <3>2 DEF T!kAxisC
  <2> QED BY <2>3, <2>4
<1>9. T!IsEmpty <=> T!ExcludingPadding = 0
  BY <1>3, <1>4, <1>5 DEF T!IsEmpty, T!ExcludingPadding, T!Elements
<1>10. ASSUME n # 0, NEW i \in 0..n
       PROVE  T!IncludingPadding = (T!Elements(v, 1, i) * T!Elements(v, i + 1, n)) % Wrap
  <2>1. \A w, from, to : T!Elements(w, from, to) = T!Product(w, from, to)
    BY <1>5, <1>10 DEF T!Elements
  <2>2. T!Product(v, 1, n) = (T!Product(v, 1, i) * T!Product(v, i + 1, n)) % Wrap
    <3>1. n > 0
      BY <1>3, <1>10
    <3> QED BY <1>3, <1>7, <3>1, ProductOfParts
  <2>3. T!IncludingPadding = T!Product(v, 1, n)
    BY <1>5, <2>1 DEF T!IncludingPadding, v
  <2> QED BY <2>1, <2>2, <2>3
<1>11. T!PaddingFits
  BY <1>5, <1>8, <1>9, <1>10 DEF T!PaddingFits, v
<1> QED BY <1>6, <1>11

-----------------------------------------------------------------------------
(* pthread_once: until a caller has incremented once_ctrl from 0 nobody    *)
(* has returned; that caller, and no other, runs the function, and its     *)
(* increment stays while the others take theirs back.                      *)
Decrementing == {t \in W!Caller : pc[t] = "decrement"}

NobodyYet ==
  /\ once_ctrl = 0 /\ begun = 0 /\ ended = FALSE
  /\ \A t \in W!Caller : pc[t] \in {"before", "increment"}

Runner(r) ==
  /\ once_ctrl = 1 + Cardinality(Decrementing)
  /\ \A t \in W!Caller : pc[t] \in {"call", "within"} => t = r
  /\ pc[r] \in {"call", "within", "after"}
  /\ pc[r] = "call" => begun = 0
  /\ pc[r] # "call" => begun = 1
  /\ ended = TRUE <=> pc[r] = "after"

ThreadInv ==
  /\ params \subseteq Worker /\ handles \subseteq Worker
  /\ life \in [Worker -> {"none", "created", "running", "ended"}]
  /\ pc \in [W!Caller -> {"before", "increment", "call", "within", "decrement", "after"}]
  /\ ended \in BOOLEAN
  /\ params = {t \in Worker : life[t] = "created"}
  /\ NobodyYet \/ \E r \in W!Caller : Runner(r)

LEMMA CallersFinite ==
  /\ IsFiniteSet(W!Caller)
  /\ \A S \in SUBSET W!Caller : IsFiniteSet(S) /\ Cardinality(S) \in Nat
<1>1. IsFiniteSet(W!Caller)
  BY WorkerAssumption, FS_AddElement, FS_Singleton, FS_Union DEF W!Caller
<1> QED BY <1>1, FS_Subset, FS_CardinalityType

LEMMA SameSize == \A S : W!Cardinality(S) = Cardinality(S)
BY DEF W!Cardinality, Cardinality

LEMMA ThreadsInit == W!Init => ThreadInv
BY DEF W!Init, ThreadInv, NobodyYet

LEMMA ThreadsStay == ThreadInv /\ UNCHANGED threadVars => ThreadInv'
<1>1. NobodyYet /\ UNCHANGED threadVars => NobodyYet'
  BY DEF threadVars, NobodyYet
<1>2. ASSUME NEW r, Runner(r), UNCHANGED threadVars PROVE Runner(r)'
  BY <1>2 DEF threadVars, Runner, Decrementing
<1> QED BY <1>1, <1>2 DEF threadVars, ThreadInv

LEMMA ThreadsNext == ThreadInv /\ W!Next => ThreadInv'
<1> SUFFICES ASSUME ThreadInv, W!Next PROVE ThreadInv'
  OBVIOUS
<1>0. /\ params \subseteq Worker /\ handles \subseteq Worker
      /\ life \in [Worker -> {"none", "created", "running", "ended"}]
      /\ pc \in [W!Caller -> {"before", "increment", "call", "within", "decrement", "after"}]
      /\ ended \in BOOLEAN
      /\ params = {t \in Worker : life[t] = "created"}
      /\ NobodyYet \/ \E r \in W!Caller : Runner(r)
  BY DEF ThreadInv
<1>1. CASE UNCHANGED <<once_ctrl, pc, begun, ended>>
  <2>1. PICK t \in Worker : W!Create(t) \/ W!Begin(t) \/ W!End(t) \/ W!Join(t) \/ W!Detach(t)
    <3>1. \A t \in W!Caller : ~(W!Read(t) \/ W!Increment(t) \/ W!Call(t) \/ W!Decrement(t))
      BY <1>0, <1>1 DEF W!Read, W!Increment, W!Call, W!Decrement, W!Goes
    <3> QED BY <3>1 DEF W!Next
  <2>2. /\ params' \subseteq Worker /\ handles' \subseteq Worker
        /\ life' \in [Worker -> {"none", "created", "running", "ended"}]
        /\ params' = {u \in Worker : life'[u] = "created"}
    BY <1>0, <2>1 DEF W!Create, W!Begin, W!End, W!Join, W!Detach, W!CloseHandle
  <2>3. NobodyYet => NobodyYet'
    BY <1>1 DEF NobodyYet
  <2>4. ASSUME NEW r \in W!Caller, Runner(r) PROVE Runner(r)'
    BY <1>1, <2>4 DEF Runner, Decrementing
  <2> QED BY <1>0, <1>1, <2>2, <2>3, <2>4 DEF ThreadInv
<1>2. ASSUME NEW t \in W!Caller,
             W!Read(t) \/ W!Increment(t) \/ W!Call(t) \/ W!Decrement(t)
      PROVE  ThreadInv'
  <2>0. UNCHANGED <<params, life, handles>>
    BY <1>2 DEF W!Read, W!Increment, W!Call, W!Decrement, W!Goes, W!threadVars
  <2>1. ASSUME pc' \in [W!Caller -> {"before", "increment", "call", "within", "decrement", "after"}],
               ended' \in BOOLEAN,
               NobodyYet' \/ \E r \in W!Caller : Runner(r)'
        PROVE  ThreadInv'
    BY <1>0, <2>0, <2>1 DEF ThreadInv
  <2>2. CASE W!Read(t)
    <3>1. /\ pc[t] = "before" /\ UNCHANGED <<once_ctrl, begun, ended>>
          /\ pc' = [pc EXCEPT ![t] = IF once_ctrl = 0 THEN "increment" ELSE "after"]
      BY <2>2 DEF W!Read, W!Goes
    <3>2. pc' \in [W!Caller -> {"before", "increment", "call", "within", "decrement", "after"}]
      BY <1>0, <3>1
    <3>3. NobodyYet => NobodyYet'
      BY <1>0, <3>1 DEF NobodyYet
    <3>4. ASSUME NEW r \in W!Caller, Runner(r) PROVE Runner(r)'
      <4>1. Decrementing' = Decrementing
        BY <1>0, <3>1 DEF Decrementing
      <4>2. r # t /\ pc'[r] = pc[r]
        BY <1>0, <3>1, <3>4 DEF Runner
      <4> QED BY <1>0, <3>1, <3>4, <4>1, <4>2 DEF Runner
    <3> QED BY <1>0, <2>1, <3>1, <3>2, <3>3, <3>4
  <2>3. CASE W!Increment(t)
    <3>1. /\ pc[t] = "increment" /\ UNCHANGED <<begun, ended>> /\ once_ctrl' = once_ctrl + 1
          /\ pc' = [pc EXCEPT ![t] = IF once_ctrl' = 1 THEN "call" ELSE "decrement"]
      BY <2>3 DEF W!Increment, W!Incremented, W!Goes
    <3>2. pc' \in [W!Caller -> {"before", "increment", "call", "within", "decrement", "after"}]
      BY <1>0, <3>1
    <3>3. CASE NobodyYet
      <4>1. once_ctrl' = 1 /\ pc'[t] = "call" /\ \A u \in W!Caller : u # t => pc'[u] = pc[u]
        BY <1>0, <3>1, <3>3 DEF NobodyYet
      <4>2. Decrementing' = {}
        BY <1>0, <3>3, <4>1 DEF NobodyYet, Decrementing
      <4>3. Runner(t)'
        BY <1>0, <3>1, <3>3, <4>1, <4>2, FS_EmptySet DEF NobodyYet, Runner
      <4> QED BY <1>0, <2>1, <3>1, <3>2, <4>3
    <3>4. ASSUME NEW r \in W!Caller, Runner(r) PROVE Runner(r)'
      <4>1. Decrementing \in SUBSET W!Caller /\ t \notin Decrementing
        BY <3>1 DEF Decrementing
      <4>2. IsFiniteSet(Decrementing) /\ Cardinality(Decrementing) \in Nat
        BY <4>1, CallersFinite
      <4>3. once_ctrl' # 1
        BY <3>1, <3>4, <4>2 DEF Runner
      <4>4. pc'[t] = "decrement" /\ \A u \in W!Caller : u # t => pc'[u] = pc[u]
        BY <1>0, <3>1, <4>3
      <4>5. Decrementing' = Decrementing \cup {t}
        BY <4>4 DEF Decrementing
      <4>6. Cardinality(Decrementing') = Cardinality(Decrementing) + 1
        BY <4>1, <4>2, <4>5, FS_AddElement
      <4>7. r # t
        BY <3>1, <3>4 DEF Runner
      <4> QED BY <3>1, <3>4, <4>2, <4>4, <4>6, <4>7 DEF Runner
    <3> QED BY <1>0, <2>1, <3>1, <3>2, <3>3, <3>4
  <2>4. CASE W!Call(t)
    <3>1. ~NobodyYet
      BY <2>4 DEF W!Call, NobodyYet
    <3>2. PICK r \in W!Caller : Runner(r)
      BY <1>0, <3>1
    <3>3. t = r /\ once_ctrl' = once_ctrl
      BY <2>4, <3>2 DEF W!Call, Runner
    <3>4. CASE pc[t] = "call"
      <4>1. /\ pc' = [pc EXCEPT ![t] = "within"] /\ begun' = begun + 1 /\ ended' = ended
        BY <2>4, <3>4 DEF W!Call, W!Goes
      <4>2. Decrementing' = Decrementing
        BY <1>0, <3>4, <4>1 DEF Decrementing
      <4>3. pc'[t] = "within" /\ \A u \in W!Caller : u # t => pc'[u] = pc[u]
        BY <1>0, <4>1
      <4>4. Runner(r)'
        BY <3>2, <3>3, <3>4, <4>1, <4>2, <4>3 DEF Runner
      <4> QED BY <1>0, <2>1, <4>1, <4>4
    <3>5. CASE pc[t] # "call"
      <4>1. pc[t] = "within" /\ pc' = [pc EXCEPT ![t] = "after"] /\ begun' = begun /\ ended' = TRUE
        BY <2>4, <3>5 DEF W!Call, W!Goes
      <4>2. Decrementing' = Decrementing
        BY <1>0, <4>1 DEF Decrementing
      <4>3. pc'[t] = "after" /\ \A u \in W!Caller : u # t => pc'[u] = pc[u]
        BY <1>0, <4>1
      <4>4. Runner(r)'
        BY <3>2, <3>3, <4>1, <4>2, <4>3 DEF Runner
      <4> QED BY <1>0, <2>1, <4>1, <4>4
    <3> QED BY <3>4, <3>5
  <2>5. CASE W!Decrement(t)
    <3>1. /\ pc[t] = "decrement" /\ UNCHANGED <<begun, ended>> /\ once_ctrl' = once_ctrl - 1
          /\ pc' = [pc EXCEPT ![t] = "after"]
      BY <2>5 DEF W!Decrement, W!Goes
    <3>2. PICK r \in W!Caller : Runner(r)
      BY <1>0, <3>1 DEF NobodyYet
    <3>3. /\ Decrementing \in SUBSET W!Caller /\ t \in Decrementing
          /\ IsFiniteSet(Decrementing) /\ Cardinality(Decrementing) \in Nat
      BY <3>1, CallersFinite DEF Decrementing
    <3>4. pc'[t] = "after" /\ \A u \in W!Caller : u # t => pc'[u] = pc[u]
      BY <1>0, <3>1
    <3>5. Decrementing' = Decrementing \ {t}
      BY <3>4 DEF Decrementing
    <3>6. Cardinality(Decrementing') = Cardinality(Decrementing) - 1
      BY <3>3, <3>5, FS_RemoveElement
    <3>7. r # t
      BY <3>1, <3>2 DEF Runner
    <3>8. Runner(r)'
      BY <3>1, <3>2, <3>3, <3>4, <3>6, <3>7 DEF Runner
    <3> QED BY <1>0, <2>1, <3>1, <3>8
  <2> QED BY <1>2, <2>2, <2>3, <2>4, <2>5
<1>3. CASE \E t \in Worker : W!Create(t) \/ W!Begin(t) \/ W!End(t) \/ W!Join(t) \/ W!Detach(t)
  BY <1>1, <1>3 DEF W!Create, W!Begin, W!End, W!Join, W!Detach, W!CloseHandle, W!onceVars
<1> QED BY <1>2, <1>3 DEF W!Next

LEMMA ThreadsSafe == ThreadInv => W!TypeOK /\ W!OnceRun
<1> SUFFICES ASSUME ThreadInv PROVE W!TypeOK /\ W!OnceRun
  OBVIOUS
<1>0. IsFiniteSet(W!Caller) /\ Cardinality(W!Caller) \in Nat
  BY CallersFinite
<1>1. CASE NobodyYet
  <2>1. once_ctrl \in 0..Cardinality(W!Caller) /\ begun \in Nat
    BY <1>0, <1>1 DEF NobodyYet
  <2>2. W!TypeOK
    BY <2>1, SameSize DEF ThreadInv, W!TypeOK
  <2> QED BY <1>1, <2>2 DEF ThreadInv, NobodyYet, W!OnceRun
<1>2. ASSUME NEW r \in W!Caller, Runner(r) PROVE W!TypeOK /\ W!OnceRun
  <2>1. /\ Decrementing \in SUBSET (W!Caller \ {r})
        /\ IsFiniteSet(Decrementing) /\ Cardinality(Decrementing) \in Nat
    BY <1>2, CallersFinite DEF Decrementing, Runner
  <2>2. IsFiniteSet(W!Caller \ {r}) /\ Cardinality(W!Caller \ {r}) = Cardinality(W!Caller) - 1
    BY <1>0, FS_RemoveElement
  <2>3. Cardinality(Decrementing) <= Cardinality(W!Caller) - 1
    BY <2>1, <2>2, FS_Subset
  <2>a. once_ctrl = 1 + Cardinality(Decrementing) /\ begun \in Nat
    BY <1>2 DEF Runner
  <2>b. once_ctrl \in 0..Cardinality(W!Caller)
    BY <1>0, <2>1, <2>3, <2>a
  <2>4. W!TypeOK
    BY <2>a, <2>b, SameSize DEF ThreadInv, W!TypeOK
  <2>5. (\A t \in W!Caller : pc[t] \in {"before", "after"}) => ended /\ once_ctrl = 1
    <3> SUFFICES ASSUME \A t \in W!Caller : pc[t] \in {"before", "after"}
                 PROVE  ended /\ once_ctrl = 1
      OBVIOUS
    <3>1. Decrementing = {}
      BY DEF Decrementing
    <3>2. Cardinality(Decrementing) = 0
      BY <3>1, FS_EmptySet
    <3> QED BY <1>2, <3>2 DEF Runner
  <2>6. begun <= 1
    BY <1>2 DEF Runner
  <2> QED BY <2>4, <2>5, <2>6 DEF ThreadInv, W!OnceRun
<1> QED BY <1>1, <1>2 DEF ThreadInv

-----------------------------------------------------------------------------
(* The logger.  As long as clients take care, a message under way was let  *)
(* pass by the current logger, which exists, and goes to it.               *)
Constructed == "g_logger" \in Elements(statics)

Carried(m) ==
  /\ Constructed
  /\ m.accepted = g_logger /\ m.level \in L!Levels /\ level_[g_logger] <= m.level
  /\ m.step = "write" => m.logger_ = g_logger

(* How far the static objects are, in each stage of the program *)
StaticsInv ==
  /\ stage \in {"start", "main", "exit"}
  /\ statics \in Seq(L!Static) /\ Distinct(statics)
  /\ stage = "start" => Len(statics) <= 1
  /\ stage = "main" => Constructed

CurrentInv ==
  /\ g_logger \in Custom \cup {L!Default, L!NoLogger}
  /\ alive \subseteq Custom \cup {L!Default}
  /\ Constructed => g_logger # L!NoLogger
  /\ stage = "start" /\ ~Constructed => g_logger = L!NoLogger
  /\ L!Default \in alive <=> Constructed /\ g_logger = L!Default

LoggerInv ==
  /\ StaticsInv /\ CurrentInv
  /\ level_ \in [Custom \cup {L!Default} -> L!Levels]
  /\ careless \in BOOLEAN /\ wrong \in BOOLEAN
  /\ DOMAIN msg = Worker
  /\ careless = FALSE =>
       /\ wrong = FALSE
       /\ Constructed => g_logger \in alive
       /\ \A t \in Worker : msg[t] # L!NoMessage => Carried(msg[t])

LEMMA LoggerInit == L!Init => LoggerInv
<1> SUFFICES ASSUME L!Init PROVE LoggerInv
  OBVIOUS
<1>1. Elements(<<>>) = {} /\ Distinct(<<>>) /\ <<>> \in Seq(L!Static) /\ Len(<<>>) = 0
  BY EmptySeq DEF Elements, Distinct
<1>2. StaticsInv /\ ~Constructed
  BY <1>1 DEF L!Init, StaticsInv, Constructed
<1>3. CurrentInv
  BY <1>2, CustomAssumption DEF L!Init, CurrentInv
<1> QED BY <1>2, <1>3 DEF L!Init, LoggerInv, L!Levels

LEMMA LoggerStay == LoggerInv /\ UNCHANGED loggerVars => LoggerInv'
<1> SUFFICES ASSUME LoggerInv, UNCHANGED loggerVars PROVE LoggerInv'
  OBVIOUS
<1>1. StaticsInv' /\ CurrentInv' /\ Constructed' = Constructed
  BY DEF loggerVars, LoggerInv, StaticsInv, CurrentInv, Constructed
<1> QED BY <1>1 DEF loggerVars, LoggerInv, Carried

LEMMA Different ==
  /\ \A l \in Custom : l # L!Default /\ l # L!NoLogger
  /\ L!Default # L!NoLogger
BY CustomAssumption DEF L!Default, L!NoLogger

LEMMA LoggerNext == LoggerInv /\ L!Next => LoggerInv'
<1> SUFFICES ASSUME LoggerInv, L!Next PROVE LoggerInv'
  OBVIOUS
<1>0. /\ StaticsInv /\ CurrentInv
      /\ level_ \in [Custom \cup {L!Default} -> L!Levels]
      /\ careless \in BOOLEAN /\ wrong \in BOOLEAN
      /\ DOMAIN msg = Worker
  BY DEF LoggerInv
<1>c. careless = FALSE =>
       /\ wrong = FALSE
       /\ Constructed => g_logger \in alive
       /\ \A t \in Worker : msg[t] # L!NoMessage => Carried(msg[t])
  BY DEF LoggerInv
<1>e. Constructed <=> "g_logger" \in L!Range(statics)
  BY DEF Constructed, Elements, L!Range
<1>1. ASSUME NEW s \in L!Static, L!Construct(s) PROVE LoggerInv'
  <2>1. /\ stage = "start" /\ s \notin Elements(statics) /\ statics' = Append(statics, s)
        /\ stage' = (IF Len(statics) = 1 THEN "main" ELSE "start")
        /\ UNCHANGED <<level_, msg, careless, wrong>>
    BY <1>1 DEF L!Construct, L!Range, Elements
  <2>2. IF s = "g_logger" THEN g_logger' = L!Default /\ alive' = alive \cup {L!Default}
        ELSE UNCHANGED <<g_logger, alive>>
    BY <1>1 DEF L!Construct
  <2>3. /\ statics \in Seq(L!Static) /\ Distinct(statics) /\ Len(statics) <= 1
        /\ Len(statics) \in Nat /\ Elements(statics) \subseteq L!Static
    <3>1. statics \in Seq(L!Static) /\ Distinct(statics) /\ Len(statics) <= 1
      BY <1>0, <2>1 DEF StaticsInv
    <3>2. Len(statics) \in Nat /\ DOMAIN statics = 1..Len(statics)
      BY <3>1, LenProperties
    <3> QED BY <3>1, <3>2, ElementOfSeq DEF Elements
  <2>4. /\ statics' \in Seq(L!Static) /\ Distinct(statics') /\ Len(statics') = Len(statics) + 1
        /\ Elements(statics') = Elements(statics) \cup {s}
    BY <2>1, <2>3, Pushed, AppendProperties
  <2>5. Len(statics) = 1 => Constructed'
    <3> SUFFICES ASSUME Len(statics) = 1 PROVE Constructed'
      OBVIOUS
    <3>1. DOMAIN statics = 1..1
      BY <2>3, LenProperties
    <3>2. statics[1] \in Elements(statics) /\ statics[1] # s /\ statics[1] \in L!Static
      BY <2>1, <2>3, <3>1 DEF Elements
    <3> QED BY <2>4, <3>2 DEF Constructed, L!Static
  <2>a. stage' = "start" => Len(statics') <= 1
    <3> SUFFICES ASSUME stage' = "start" PROVE Len(statics') <= 1
      OBVIOUS
    <3>1. Len(statics) # 1
      BY <2>1
    <3> DEFINE n == Len(statics)
    <3>2. n \in Nat /\ n <= 1 /\ n # 1 /\ Len(statics') = n + 1
      BY <2>3, <2>4, <3>1
    <3> HIDE DEF n
    <3>3. n = 0
      BY <3>2
    <3> QED BY <3>2, <3>3
  <2>6. StaticsInv'
    BY <2>1, <2>4, <2>5, <2>a DEF StaticsInv
  <2>7. CASE s = "g_logger"
    <3>1. ~Constructed /\ Constructed'
      BY <2>1, <2>4, <2>7 DEF Constructed
    <3>2. CurrentInv'
      BY <1>0, <2>2, <2>7, <3>1, Different DEF CurrentInv
    <3>3. g_logger' \in alive'
      BY <2>2, <2>7
    <3>4. careless = FALSE => wrong = FALSE /\ \A t \in Worker : msg[t] = L!NoMessage
      BY <1>c, <3>1 DEF Carried
    <3> QED BY <1>0, <2>1, <2>6, <3>2, <3>3, <3>4 DEF LoggerInv
  <2>8. CASE s # "g_logger"
    <3>1. Constructed' <=> Constructed
      BY <2>4, <2>8 DEF Constructed
    <3>2. CurrentInv'
      BY <1>0, <2>1, <2>2, <2>8, <3>1 DEF CurrentInv
    <3>3. careless = FALSE => /\ wrong = FALSE
                              /\ Constructed' => g_logger' \in alive'
                              /\ \A t \in Worker : msg[t] # L!NoMessage => Carried(msg[t])'
      BY <1>c, <2>1, <2>2, <2>8, <3>1 DEF Carried
    <3> QED BY <1>0, <2>1, <2>6, <3>2, <3>3 DEF LoggerInv
  <2> QED BY <2>7, <2>8
\* The steps of LOG leave all but the message and the history alone.
<1>2. ASSUME UNCHANGED <<stage, statics, g_logger, alive, level_>>,
             wrong' \in BOOLEAN, careless' \in BOOLEAN, DOMAIN msg' = Worker,
             careless' = FALSE =>
               /\ careless = FALSE /\ wrong' = FALSE
               /\ \A u \in Worker : msg'[u] # L!NoMessage => Carried(msg'[u])
      PROVE  LoggerInv'
  <2>1. StaticsInv' /\ CurrentInv' /\ (Constructed' <=> Constructed)
    BY <1>0, <1>2 DEF StaticsInv, CurrentInv, Constructed
  <2>2. careless' = FALSE => /\ wrong' = FALSE
                             /\ Constructed' => g_logger' \in alive'
    BY <1>c, <1>2, <2>1
  <2>3. careless' = FALSE => (\A t \in Worker : msg[t] # L!NoMessage => Carried(msg[t]))'
    BY <1>2, <2>1 DEF Carried
  <2> QED BY <1>0, <1>2, <2>1, <2>2, <2>3 DEF LoggerInv
<1>3. ASSUME NEW t \in Worker, NEW level \in L!Levels, L!Log(t, level) PROVE LoggerInv'
  <2>1. /\ msg[t] = L!NoMessage
        /\ UNCHANGED <<stage, statics, g_logger, alive, level_>>
        /\ wrong' = (wrong \/ g_logger \notin alive)
        /\ careless' = (careless \/ "g_logger" \notin L!Range(statics))
    BY <1>3 DEF L!Log
  <2> DEFINE m == [step |-> "take", level |-> level, accepted |-> g_logger]
  <2>2. \/ msg' = msg
        \/ level_[g_logger] <= level /\ msg' = [msg EXCEPT ![t] = m]
    BY <1>3 DEF L!Log
  <2>3. wrong' \in BOOLEAN /\ careless' \in BOOLEAN
    BY <2>1, Zenon
  <2>4. ASSUME careless' = FALSE
        PROVE  careless = FALSE /\ Constructed /\ g_logger \in alive /\ wrong' = FALSE
    <3>1. careless = FALSE /\ Constructed
      BY <1>0, <1>e, <2>1, <2>4
    <3>2. wrong = FALSE /\ g_logger \in alive
      BY <1>c, <3>1
    <3> QED BY <2>1, <3>1, <3>2
  <2>5. DOMAIN msg' = Worker
    BY <1>0, <2>2
  <2>6. ASSUME careless' = FALSE, NEW u \in Worker, msg'[u] # L!NoMessage PROVE Carried(msg'[u])
    <3>1. CASE msg'[u] = msg[u]
      BY <1>c, <2>4, <2>6, <3>1
    <3>2. CASE msg'[u] # msg[u]
      <4>1. msg'[u] = m /\ level_[g_logger] <= level
        BY <1>0, <2>2, <3>2
      <4>2. /\ m.accepted = g_logger /\ m.level = level
            /\ m.step = "take" /\ "take" # "write"
        OBVIOUS
      <4> HIDE DEF m
      <4> QED BY <2>4, <2>6, <4>1, <4>2 DEF Carried
    <3> QED BY <3>1, <3>2
  <2> HIDE DEF m
  <2> QED BY <1>2, <2>1, <2>3, <2>4, <2>5, <2>6
<1>4. ASSUME NEW t \in Worker, L!Take(t) PROVE LoggerInv'
  <2>1. /\ msg[t] # L!NoMessage /\ UNCHANGED <<careless, wrong>>
        /\ UNCHANGED <<stage, statics, g_logger, alive, level_>>
        /\ msg' = [msg EXCEPT ![t] = [step |-> "write", level |-> msg[t].level,
                                      accepted |-> msg[t].accepted, logger_ |-> g_logger]]
    BY <1>4 DEF L!Take
  <2>2. DOMAIN msg' = Worker
    BY <1>0, <2>1
  <2>3. ASSUME careless = FALSE, NEW u \in Worker, msg'[u] # L!NoMessage PROVE Carried(msg'[u])
    <3>1. CASE u # t
      BY <1>0, <1>c, <2>1, <2>3, <3>1
    <3>2. CASE u = t
      BY <1>0, <1>c, <2>1, <2>3, <3>2 DEF Carried
    <3> QED BY <3>1, <3>2
  <2> QED BY <1>0, <1>2, <1>c, <2>1, <2>2, <2>3
<1>5. ASSUME NEW t \in Worker, L!Write(t) PROVE LoggerInv'
  <2>1. /\ msg[t] # L!NoMessage /\ msg[t].step = "write" /\ careless' = careless
        /\ UNCHANGED <<stage, statics, g_logger, alive, level_>>
        /\ wrong' = (\/ wrong \/ msg[t].logger_ \notin alive
                     \/ msg[t].logger_ # msg[t].accepted
                     \/ level_[msg[t].logger_] > msg[t].level)
        /\ msg' = [msg EXCEPT ![t] = L!NoMessage]
    BY <1>5 DEF L!Write
  <2>2. wrong' \in BOOLEAN /\ DOMAIN msg' = Worker
    BY <1>0, <2>1
  <2>3. ASSUME careless = FALSE PROVE wrong' = FALSE
    <3>1. /\ wrong = FALSE /\ Constructed /\ g_logger \in alive
          /\ msg[t].logger_ = g_logger /\ msg[t].accepted = g_logger
          /\ msg[t].level \in L!Levels /\ level_[g_logger] <= msg[t].level
      BY <1>c, <2>1, <2>3 DEF Carried
    <3>2. level_[g_logger] \in L!Levels
      BY <1>0, <3>1 DEF CurrentInv
    <3>3. ~(level_[g_logger] > msg[t].level)
      BY <3>1, <3>2 DEF L!Levels
    <3> QED BY <2>1, <3>1, <3>3
  <2>4. ASSUME careless = FALSE, NEW u \in Worker, msg'[u] # L!NoMessage PROVE Carried(msg'[u])
    <3>1. msg'[u] = msg[u]
      BY <1>0, <2>1, <2>4
    <3> QED BY <1>c, <2>4, <3>1
  <2> QED BY <1>0, <1>2, <2>1, <2>2, <2>3, <2>4
\* The other actions are careless while a message is under way.
<1>6. ASSUME UNCHANGED <<msg, wrong>>, careless' = (careless \/ L!Logging),
             StaticsInv', CurrentInv', level_' \in [Custom \cup {L!Default} -> L!Levels],
             careless = FALSE => (Constructed' => g_logger' \in alive')
      PROVE  LoggerInv'
  <2>1. careless' \in BOOLEAN
    BY <1>6, Zenon
  <2>2. ASSUME careless' = FALSE
        PROVE  careless = FALSE /\ \A t \in Worker : msg[t] = L!NoMessage
    BY <1>0, <1>6, <2>2 DEF L!Logging
  <2>3. careless' = FALSE => /\ wrong' = FALSE
                             /\ Constructed' => g_logger' \in alive'
                             /\ \A u \in Worker : msg'[u] = L!NoMessage
    BY <1>c, <1>6, <2>2
  <2> QED BY <1>0, <1>6, <2>1, <2>3 DEF LoggerInv
<1>7. ASSUME NEW l \in Custom, L!SetCurrentLogger(l) PROVE LoggerInv'
  <2>1. /\ stage = "main" /\ l \in alive /\ g_logger' = l
        /\ alive' = alive \ ({g_logger} \cap {L!Default})
        /\ careless' = (careless \/ L!Logging)
        /\ UNCHANGED <<stage, statics, level_, msg, wrong>>
    BY <1>7 DEF L!SetCurrentLogger, L!Dropped
  <2>2. StaticsInv' /\ Constructed /\ Constructed'
    BY <1>0, <2>1 DEF StaticsInv, Constructed
  <2>3. l \in alive'
    BY <2>1, Different
  <2>4. CurrentInv'
    BY <1>0, <2>1, <2>2, <2>3, Different DEF CurrentInv
  <2> QED BY <1>0, <1>6, <2>1, <2>2, <2>3, <2>4
<1>8. ASSUME NEW l \in Custom, L!Delete(l) PROVE LoggerInv'
  <2>1. /\ l \in alive /\ alive' = alive \ {l}
        /\ careless' = (careless \/ g_logger = l)
        /\ UNCHANGED <<stage, statics, g_logger, level_, msg, wrong>>
    BY <1>8 DEF L!Delete
  <2>2. StaticsInv' /\ (Constructed' <=> Constructed) /\ \A m : Carried(m)' <=> Carried(m)
    BY <1>0, <2>1 DEF StaticsInv, Constructed, Carried
  <2>3. CurrentInv'
    BY <1>0, <2>1, <2>2, Different DEF CurrentInv
  <2>4. careless' \in BOOLEAN
    BY <2>1, Zenon
  <2>5. ASSUME careless' = FALSE PROVE careless = FALSE /\ g_logger # l
    BY <1>0, <2>1, <2>5
  <2>6. careless' = FALSE => /\ wrong = FALSE
                             /\ Constructed' => g_logger' \in alive'
                             /\ \A t \in Worker : msg[t] # L!NoMessage => Carried(msg[t])'
    BY <1>c, <2>1, <2>2, <2>5
  <2> QED BY <1>0, <2>1, <2>2, <2>3, <2>4, <2>6 DEF LoggerInv, Carried
<1>9. ASSUME NEW l \in Custom \cup {L!Default}, NEW level \in L!Levels, L!SetLogLevel(l, level)
      PROVE  LoggerInv'
  <2>1. /\ level_' = [level_ EXCEPT ![l] = level]
        /\ careless' = (careless \/ L!Logging)
        /\ UNCHANGED <<stage, statics, g_logger, alive, msg, wrong>>
    BY <1>9 DEF L!SetLogLevel
  <2>2. StaticsInv' /\ CurrentInv' /\ (Constructed' <=> Constructed)
    BY <1>0, <2>1 DEF StaticsInv, CurrentInv, Constructed
  <2>3. level_' \in [Custom \cup {L!Default} -> L!Levels]
    BY <1>0, <2>1
  <2>4. careless = FALSE => (Constructed' => g_logger' \in alive')
    BY <1>c, <2>1, <2>2
  <2> QED BY <1>6, <2>1, <2>2, <2>3, <2>4
<1>10. CASE L!Exit
  <2>1. /\ stage = "main" /\ stage' = "exit"
        /\ careless' = (careless \/ L!Logging)
        /\ UNCHANGED <<statics, g_logger, alive, level_, msg, wrong>>
    BY <1>10 DEF L!Exit
  <2>2. StaticsInv' /\ CurrentInv' /\ (Constructed' <=> Constructed)
    BY <1>0, <2>1 DEF StaticsInv, CurrentInv, Constructed
  <2>4. careless = FALSE => (Constructed' => g_logger' \in alive')
    BY <1>c, <2>1, <2>2
  <2> QED BY <1>0, <1>6, <2>1, <2>2, <2>4
<1>11. CASE L!Destroy
  <2>1. /\ stage = "exit" /\ stage' = stage /\ statics # <<>>
        /\ statics' = SubSeq(statics, 1, Len(statics) - 1)
        /\ alive' = IF statics[Len(statics)] = "g_logger"
                    THEN alive \ ({g_logger} \cap {L!Default}) ELSE alive
        /\ careless' = (careless \/ L!Logging)
        /\ UNCHANGED <<g_logger, level_, msg, wrong>>
    BY <1>11 DEF L!Destroy, L!Dropped
  <2>2. /\ statics' \in Seq(L!Static) /\ Distinct(statics')
        /\ Elements(statics') = Elements(statics) \ {statics[Len(statics)]}
        /\ statics[Len(statics)] \in Elements(statics)
    BY <1>0, <2>1, Popped DEF StaticsInv
  <2>3. StaticsInv'
    BY <2>1, <2>2 DEF StaticsInv
  <2>4. CASE statics[Len(statics)] = "g_logger"
    <3>1. Constructed /\ ~Constructed'
      BY <2>2, <2>4 DEF Constructed
    <3>2. CurrentInv'
      BY <1>0, <2>1, <2>4, <3>1, Different DEF CurrentInv
    <3> QED BY <1>0, <1>6, <2>1, <2>3, <3>1, <3>2
  <2>5. CASE statics[Len(statics)] # "g_logger"
    <3>1. Constructed' <=> Constructed
      BY <2>2, <2>5 DEF Constructed
    <3>2. CurrentInv'
      BY <1>0, <2>1, <2>5, <3>1 DEF CurrentInv
    <3>3. careless = FALSE => (Constructed' => g_logger' \in alive')
      BY <1>c, <2>1, <2>5, <3>1
    <3> QED BY <1>0, <1>6, <2>1, <2>3, <3>2, <3>3
  <2> QED BY <2>4, <2>5
<1> QED BY <1>1, <1>3, <1>4, <1>5, <1>7, <1>8, <1>9, <1>10, <1>11 DEF L!Next

LEMMA LoggerSafe == LoggerInv => L!TypeOK /\ L!MessagesKept
<1> SUFFICES ASSUME LoggerInv PROVE L!TypeOK /\ L!MessagesKept
  OBVIOUS
<1>1. L!Range(statics) = Elements(statics) /\ (L!IsInjective(statics) <=> Distinct(statics))
  BY DEF L!Range, Elements, L!IsInjective, Distinct
<1>2. Elements(statics) \subseteq L!Static
  <2>1. statics \in Seq(L!Static)
    BY DEF LoggerInv, StaticsInv
  <2> QED BY <2>1, ElementOfSeq, LenProperties DEF Elements
<1>3. L!TypeOK
  BY <1>1, <1>2 DEF LoggerInv, StaticsInv, CurrentInv, L!TypeOK
<1>4. wrong => careless
  BY DEF LoggerInv
<1>5. L!MessagesKept
  BY <1>1, <1>4 DEF LoggerInv, CurrentInv, Constructed, L!MessagesKept
<1> QED BY <1>3, <1>5

-----------------------------------------------------------------------------
(* CpuInfo *)
Steps == {"idle", "done", "install", "setjmp", "func", "restore", "restoreIll"}
Instructions == C!AllX86 \cup {"ARMV8_2", "BF16", "I8MM"}
Working(t) == step[t] \in {"install", "setjmp", "func", "restore", "restoreIll"}
Trying(t) == step[t] \in {"setjmp", "func", "restore", "restoreIll"}

(* The functions from number k on are left; those before told their flags. *)
Found(k) == {C!Tests[n] : n \in {m \in 1..k : C!Tests[m] \in cpu.usable}}
Left(s, k) ==
  /\ s \in Seq(Instructions) /\ Len(s) = Len(C!Tests) + 1 - k
  /\ \A i \in 1..Len(s) : s[i] = C!Tests[i + k - 1]
Probing(t) ==
  \E k \in 1..Len(C!Tests) : Left(todo[t], k) /\ isa[t] = given[t] \cup Found(k - 1)

Typing ==
  /\ cpu \in C!Machines /\ once \in {"new", "running", "done"}
  /\ step \in [Worker -> Steps] /\ todo = [t \in Worker |-> todo[t]]
  /\ isa = [t \in Worker |-> isa[t]] /\ given = [t \in Worker |-> given[t]]
  /\ action \in {"app", "exceptHandler"} /\ exceptOldAct \in {C!None, "app", "exceptHandler"}
  /\ exceptJmpBuf \in Worker \cup {C!None} /\ blocked \subseteq Worker
  /\ dead \in BOOLEAN /\ overlapped \in BOOLEAN

Probes ==
  /\ \A t \in Worker : Working(t) => Probing(t)
  /\ \A t \in Worker : step[t] = "done" => isa[t] = given[t] \cup Found(Len(C!Tests))
  /\ \A t \in Worker : step[t] = "restore" => Head(todo[t]) \in cpu.usable
  /\ \A t \in Worker : step[t] = "restoreIll" => Head(todo[t]) \notin cpu.usable
  /\ \A t \in Worker : Trying(t) => exceptOldAct # C!None

Handler ==
  ~overlapped =>
    /\ ~dead /\ blocked = {}
    /\ \A t, u \in Worker : Trying(t) /\ Trying(u) => t = u
    /\ (\A t \in Worker : ~Trying(t)) => action = "app"
    /\ \A t \in Worker : Trying(t) => action = "exceptHandler" /\ exceptOldAct = "app"
    /\ \A t \in Worker : step[t] = "func" => exceptJmpBuf = t

OnArm ==
  cpu.arch = "arm" =>
    /\ ~overlapped
    /\ \A t \in Worker : Working(t) => once = "running" /\ given[t] = {"ARMV8"}
    /\ \A t, u \in Worker : Working(t) /\ Working(u) => t = u

Told ==
  /\ cpu.arch = "x86" => once # "running"
  /\ once = "new" => info = C!NoInfo
  /\ once = "done" =>
       /\ info.isa = IF cpu.arch = "x86" THEN cpu.claims ELSE cpu.usable
       /\ \A level \in 1..3 :
            \/ info.cache[level] = C!Size(cpu.caches[level])
            \/ info.cache[level] = 0 /\ cpu.arch = "arm" /\ cpu.files <= level

ProcessorInv == Typing /\ Probes /\ Handler /\ OnArm /\ Told

-----------------------------------------------------------------------------
(* What the machines answer *)
LEMMA SizeOfL1 == C!Size(C!L1) = 32768 /\ C!L1 # C!Absent
BY DEF C!Size, C!L1, C!Absent

LEMMA SizeOfL2 == C!Size(C!L2) = 524288 /\ C!L2 # C!Absent
BY DEF C!Size, C!L2, C!Absent

LEMMA SizeOfL3 == C!Size(C!L3) = 33554432 /\ C!L3 # C!Absent
BY DEF C!Size, C!L3, C!Absent

LEMMA SizeOfAbsent == C!Size(C!Absent) = 0
BY DEF C!Size, C!Absent

(* The machines, without what their programs cannot tell apart *)
Full == <<C!L1, C!L2, C!L3>>
Small == <<C!L1, C!L2, C!Absent>>
IsX86(vendor, extended, caches) ==
  cpu.arch = "x86" /\ cpu.vendor = vendor /\ cpu.extended = extended /\ cpu.caches = caches
IsArm(caches, usable, files) ==
  cpu.arch = "arm" /\ cpu.caches = caches /\ cpu.usable = usable /\ cpu.files = files

LEMMA OfMachines ==
  ASSUME cpu \in C!Machines
  PROVE  \/ IsX86("intel", TRUE, Full)
         \/ IsX86("intel", FALSE, Small)
         \/ IsX86("amd", TRUE, Full)
         \/ IsArm(Full, {"ARMV8", "ARMV8_2", "BF16", "I8MM"}, 4)
         \/ IsArm(Small, {"ARMV8"}, 3)
         \/ IsArm(Full, {"ARMV8", "I8MM"}, 2)
<1>1. ASSUME NEW vendor, NEW extended, NEW caches, NEW claims, NEW usable,
             cpu = C!X86(vendor, extended, caches, claims, usable)
      PROVE  IsX86(vendor, extended, caches)
  BY <1>1 DEF C!X86, IsX86
<1>2. ASSUME NEW caches, NEW usable, NEW files, cpu = C!Arm(caches, usable, files)
      PROVE  IsArm(caches, usable, files)
  BY <1>2 DEF C!Arm, IsArm
<1> QED BY <1>1, <1>2 DEF C!Machines, Full, Small


LEMMA TestsOf ==
  /\ C!TestsX86 \in Seq(Instructions) /\ Len(C!TestsX86) = 4
  /\ C!TestsArm \in Seq(Instructions) /\ Len(C!TestsArm) = 3
  /\ C!TestsArm[1] = "ARMV8_2" /\ C!TestsArm[2] = "BF16" /\ C!TestsArm[3] = "I8MM"
<1>1. C!TestsX86 \in Seq(Instructions) /\ Len(C!TestsX86) = 4
  <2>1. C!TestsX86 \in [1..4 -> Instructions]
    BY DEF C!TestsX86, Instructions, C!AllX86
  <2> QED BY <2>1, IsSequence
<1>2. C!TestsArm \in Seq(Instructions) /\ Len(C!TestsArm) = 3
  <2>1. C!TestsArm \in [1..3 -> Instructions]
    BY DEF C!TestsArm, Instructions
  <2> QED BY <2>1, IsSequence
<1>3. C!TestsArm[1] = "ARMV8_2" /\ C!TestsArm[2] = "BF16" /\ C!TestsArm[3] = "I8MM"
  BY DEF C!TestsArm
<1> QED BY <1>1, <1>2, <1>3

LEMMA TestsAre ==
  ASSUME cpu \in C!Machines
  PROVE  /\ cpu.arch \in {"x86", "arm"}
         /\ C!Tests \in Seq(Instructions) /\ Len(C!Tests) \in {3, 4}
         /\ cpu.arch = "arm" => Len(C!Tests) = 3
         /\ cpu.arch = "arm" => cpu.usable = {"ARMV8"} \cup Found(3)
<1>1. cpu.arch \in {"x86", "arm"}
  BY OfMachines DEF IsX86, IsArm
<1>2. CASE cpu.arch = "x86"
  <2>1. C!Tests = C!TestsX86
    BY <1>2 DEF C!Tests
  <2> QED BY <1>1, <1>2, <2>1, TestsOf
<1>3. CASE cpu.arch = "arm"
  <2>1. C!Tests = C!TestsArm
    BY <1>3 DEF C!Tests
  <2>2. /\ C!Tests[1] = "ARMV8_2" /\ C!Tests[2] = "BF16" /\ C!Tests[3] = "I8MM"
        /\ C!Tests \in Seq(Instructions) /\ Len(C!Tests) = 3
    BY <2>1, TestsOf
  <2>3. cpu.usable \in {{"ARMV8", "ARMV8_2", "BF16", "I8MM"}, {"ARMV8"}, {"ARMV8", "I8MM"}}
    BY <1>3, OfMachines DEF IsX86, IsArm
  <2>4. Found(3) = {C!Tests[1], C!Tests[2], C!Tests[3]} \cap cpu.usable
    <3>1. 1..3 = {1, 2, 3}
      OBVIOUS
    <3> QED BY <3>1 DEF Found
  <2>5. cpu.usable = {"ARMV8"} \cup Found(3)
    BY <2>2, <2>3, <2>4
  <2> QED BY <1>1, <2>2, <2>5
<1> QED BY <1>1, <1>2, <1>3

-----------------------------------------------------------------------------
(* The caches of x86 *)
LEMMA ByCPUIDRight ==
  ASSUME cpu \in C!Machines, cpu.arch = "x86", info = C!NoInfo
  PROVE  /\ C!ByCPUID.isa = cpu.claims
         /\ \A level \in 1..3 : C!ByCPUID.cache[level] = C!Size(cpu.caches[level])
<1> DEFINE got == C!GetCacheInfo(info.cache)
<1>1. C!ByCPUID.isa = cpu.claims /\ C!ByCPUID.cache = got
  BY DEF C!ByCPUID
<1>2. info.cache[1] = 0 /\ info.cache[2] = 0 /\ info.cache[3] = 0
  BY DEF C!NoInfo
<1> DEFINE base == IF cpu.extended
                     THEN << ((C!Leaf80000005Ecx \div 2 ^ 24) % 2 ^ 8) * 2 ^ 10,
                             ((C!Leaf80000006.ecx \div 2 ^ 16) % 2 ^ 16) * 2 ^ 10,
                             ((C!Leaf80000006.edx \div 2 ^ 18) % 2 ^ 14) * 2 ^ 19 >>
                     ELSE info.cache
<1>3. \A level \in 1..3 : got[level] = C!GetCacheInfoIntel(C!Leaf4(level), base[level])
  BY DEF C!GetCacheInfo
<1>4. \/ IsX86("intel", TRUE, Full) \/ IsX86("intel", FALSE, Small) \/ IsX86("amd", TRUE, Full)
  BY OfMachines DEF IsArm
<1>5. /\ Full[1] = C!L1 /\ Full[2] = C!L2 /\ Full[3] = C!L3
      /\ Small[1] = C!L1 /\ Small[2] = C!L2 /\ Small[3] = C!Absent
  BY DEF Full, Small
<1> HIDE DEF base, got
<1>6. ASSUME cpu.vendor = "intel", cpu.caches[1] = C!L1
      PROVE  \A size : C!GetCacheInfoIntel(C!Leaf4(1), size) = 32768
  <2>1. C!Leaf4(1).eax % 32 = 1 /\ C!Leaf4(1).ebx = 7 * 2 ^ 22 + 63 /\ C!Leaf4(1).ecx = 63
    BY <1>6, SizeOfL1 DEF C!Leaf4, C!L1
  <2> QED BY <2>1 DEF C!GetCacheInfoIntel
<1>7. ASSUME cpu.vendor = "intel", cpu.caches[2] = C!L2
      PROVE  \A size : C!GetCacheInfoIntel(C!Leaf4(2), size) = 524288
  <2>1. C!Leaf4(2).eax % 32 = 3 /\ C!Leaf4(2).ebx = 7 * 2 ^ 22 + 63 /\ C!Leaf4(2).ecx = 1023
    BY <1>7, SizeOfL2 DEF C!Leaf4, C!L2
  <2> QED BY <2>1 DEF C!GetCacheInfoIntel
<1>8. ASSUME cpu.vendor = "intel", cpu.caches[3] = C!L3
      PROVE  \A size : C!GetCacheInfoIntel(C!Leaf4(3), size) = 33554432
  <2>1. /\ C!Leaf4(3).eax % 32 = 3 /\ C!Leaf4(3).ebx = 15 * 2 ^ 22 + 2 ^ 12 + 63
        /\ C!Leaf4(3).ecx = 16383
    BY <1>8, SizeOfL3 DEF C!Leaf4, C!L3
  <2> QED BY <2>1 DEF C!GetCacheInfoIntel
<1>9. ASSUME NEW level \in 1..3, cpu.vendor # "intel" \/ cpu.caches[level] = C!Absent
      PROVE  \A size : C!GetCacheInfoIntel(C!Leaf4(level), size) = size
  <2>1. C!Leaf4(level).eax = 0
    BY <1>9 DEF C!Leaf4
  <2> QED BY <2>1 DEF C!GetCacheInfoIntel
<1>10. CASE IsX86("intel", TRUE, Full)
  <2>1. got[1] = 32768 /\ got[2] = 524288 /\ got[3] = 33554432
    BY <1>3, <1>5, <1>6, <1>7, <1>8, <1>10 DEF IsX86
  <2> QED BY <1>1, <1>5, <1>10, <2>1, SizeOfL1, SizeOfL2, SizeOfL3 DEF IsX86
<1>11. CASE IsX86("intel", FALSE, Small)
  <2>1. base[3] = 0
    BY <1>2, <1>11 DEF base, IsX86
  <2>2. got[1] = 32768 /\ got[2] = 524288 /\ got[3] = 0
    BY <1>3, <1>5, <1>6, <1>7, <1>9, <1>11, <2>1 DEF IsX86
  <2> QED BY <1>1, <1>5, <1>11, <2>2, SizeOfL1, SizeOfL2, SizeOfAbsent DEF IsX86
<1>12. CASE IsX86("amd", TRUE, Full)
  <2>1. cpu.vendor = "amd" /\ cpu.extended = TRUE
    BY <1>12 DEF IsX86
  <2>2. base[1] = 32768
    <3>1. C!Leaf80000005Ecx = 32 * 2 ^ 24 + 2 ^ 17 + 64
      BY <2>1, SizeOfL1 DEF C!Leaf80000005Ecx
    <3> QED BY <2>1, <3>1 DEF base
  <2>3. base[2] = 524288
    <3>1. C!Leaf80000006.ecx = 512 * 2 ^ 16 + 6 * 2 ^ 12 + 64
      BY SizeOfL2 DEF C!Leaf80000006
    <3> QED BY <2>1, <3>1 DEF base
  <2>4. base[3] = 33554432
    <3>1. C!Leaf80000006.edx = 64 * 2 ^ 18 + 2 ^ 15 + 64
      BY <2>1, SizeOfL3 DEF C!Leaf80000006
    <3> QED BY <2>1, <3>1 DEF base
  <2>5. \A level \in 1..3 : got[level] = base[level]
    BY <1>3, <1>9, <2>1
  <2> QED BY <1>1, <1>5, <1>12, <2>2, <2>3, <2>4, <2>5, SizeOfL1, SizeOfL2, SizeOfL3 DEF IsX86
<1> QED BY <1>4, <1>10, <1>11, <1>12

(* The caches of ARM: after each file *)
Cache0 == <<0, 0, 0>>
After(cache, n) ==
  IF C!IsCounted(C!File(n))
    THEN [cache EXCEPT ![C!File(n).level] = C!SizeStrToBytes(C!File(n).size)]
    ELSE cache
Cache1 == After(Cache0, 1)
Cache2 == After(Cache1, 2)
Cache3 == After(Cache2, 3)
Cache4 == After(Cache3, 4)

LEMMA KVFSIs ==
  ASSUME cpu.files \in {2, 3, 4}
  PROVE  C!GetCacheSizesFromKVFS
         = IF cpu.files = 2 THEN Cache2 ELSE IF cpu.files = 3 THEN Cache3 ELSE Cache4
<1> DEFINE f == [n \in 0..cpu.files |->
                   IF n = 0 THEN Cache0 ELSE IF n = 1 THEN Cache1
                   ELSE IF n = 2 THEN Cache2 ELSE IF n = 3 THEN Cache3 ELSE Cache4]
           cache == CHOOSE g : g = [n \in 0..cpu.files |->
                      IF n = 0 THEN Cache0 ELSE After(g[n - 1], n)]
<1>1. f = [n \in 0..cpu.files |-> IF n = 0 THEN Cache0 ELSE After(f[n - 1], n)]
  <2>1. ASSUME NEW n \in 0..cpu.files PROVE f[n] = IF n = 0 THEN Cache0 ELSE After(f[n - 1], n)
    <3>1. n \in {0, 1, 2, 3, 4}
      OBVIOUS
    <3>2. CASE n = 0
      BY <3>2
    <3>3. CASE n = 1
      BY <3>3 DEF Cache1
    <3>4. CASE n = 2
      BY <3>4 DEF Cache2
    <3>5. CASE n = 3
      BY <3>5 DEF Cache3
    <3>6. CASE n = 4
      BY <3>6 DEF Cache4
    <3> QED BY <3>1, <3>2, <3>3, <3>4, <3>5, <3>6
  <2>2. f = [n \in 0..cpu.files |-> f[n]]
    OBVIOUS
  <2> HIDE DEF f
  <2> QED BY <2>1, <2>2
<1> HIDE DEF f
<1>2. cache = [n \in 0..cpu.files |-> IF n = 0 THEN Cache0 ELSE After(cache[n - 1], n)]
  BY <1>1, Zenon
<1>3. C!GetCacheSizesFromKVFS = cache[cpu.files]
  BY Zenon DEF C!GetCacheSizesFromKVFS, After, Cache0
<1> HIDE DEF cache
<1>4. \A n \in 0..cpu.files : cache[n] = IF n = 0 THEN Cache0 ELSE After(cache[n - 1], n)
  BY <1>2
<1>5. cache[0] = Cache0 /\ cache[1] = Cache1 /\ cache[2] = Cache2
  <2>1. cache[0] = Cache0
    BY <1>4
  <2>2. cache[1] = After(cache[0], 1)
    BY <1>4
  <2>3. cache[2] = After(cache[1], 2)
    BY <1>4
  <2> QED BY <2>1, <2>2, <2>3 DEF Cache1, Cache2
<1>6. cpu.files # 2 => cache[3] = Cache3
  BY <1>4, <1>5 DEF Cache3
<1>7. cpu.files = 4 => cache[4] = Cache4
  BY <1>4, <1>6 DEF Cache4
<1> QED BY <1>3, <1>5, <1>6, <1>7

LEMMA FilesAre ==
  ASSUME cpu \in C!Machines, cpu.arch = "arm"
  PROVE  /\ C!IsCounted(C!File(1)) /\ C!File(1).level = 1 /\ ~C!IsCounted(C!File(2))
         /\ C!SizeStrToBytes(C!File(1).size) = C!Size(cpu.caches[1])
         /\ C!IsCounted(C!File(3)) /\ C!File(3).level = 2
         /\ C!SizeStrToBytes(C!File(3).size) = C!Size(cpu.caches[2])
         /\ C!IsCounted(C!File(4)) /\ C!File(4).level = 3
         /\ C!SizeStrToBytes(C!File(4).size) = C!Size(cpu.caches[3])
<1>1. /\ cpu.caches[1] = C!L1 /\ cpu.caches[2] = C!L2
      /\ cpu.caches[3] = C!L3 \/ cpu.caches[3] = C!Absent
  BY OfMachines DEF IsX86, IsArm, Full, Small
<1> DEFINE size(level) == << C!Size(cpu.caches[level]) \div 1024, "K" >>
<1>2. ASSUME NEW n \in 1..4
      PROVE  LET level == <<1, 1, 2, 3>>[n] IN
             /\ C!File(n).type = <<"Data", "Instruction", "Unified", "Unified">>[n]
             /\ C!File(n).level = level
             /\ n # 2 => C!File(n).size = size(level)
  BY DEF C!File
<1> HIDE DEF size
<1>3. /\ C!File(1).type = "Data" /\ C!File(1).level = 1 /\ C!File(1).size = size(1)
      /\ C!File(2).type = "Instruction"
      /\ C!File(3).type = "Unified" /\ C!File(3).level = 2 /\ C!File(3).size = size(2)
      /\ C!File(4).type = "Unified" /\ C!File(4).level = 3 /\ C!File(4).size = size(3)
  <2>1. C!File(1).type = "Data" /\ C!File(1).level = 1 /\ C!File(1).size = size(1)
    BY <1>2
  <2>2. C!File(2).type = "Instruction"
    BY <1>2
  <2>3. C!File(3).type = "Unified" /\ C!File(3).level = 2 /\ C!File(3).size = size(2)
    BY <1>2
  <2>4. C!File(4).type = "Unified" /\ C!File(4).level = 3 /\ C!File(4).size = size(3)
    BY <1>2
  <2> QED BY <2>1, <2>2, <2>3, <2>4
<1>4. ASSUME NEW level \in 1..3 PROVE C!SizeStrToBytes(size(level)) = C!Size(cpu.caches[level])
  <2>1. size(level)[1] = C!Size(cpu.caches[level]) \div 1024 /\ size(level)[2] = "K"
    BY DEF size
  <2>2. C!SizeStrToBytes(size(level)) = (C!Size(cpu.caches[level]) \div 1024) * 1024
    BY <2>1 DEF C!SizeStrToBytes
  <2> QED BY <1>1, <2>2, SizeOfL1, SizeOfL2, SizeOfL3, SizeOfAbsent
<1> QED BY <1>3, <1>4 DEF C!IsCounted

LEMMA KVFSRight ==
  ASSUME cpu \in C!Machines, cpu.arch = "arm"
  PROVE  \A level \in 1..3 :
           \/ C!GetCacheSizesFromKVFS[level] = C!Size(cpu.caches[level])
           \/ C!GetCacheSizesFromKVFS[level] = 0 /\ cpu.files <= level
<1> DEFINE s(level) == C!Size(cpu.caches[level])
<1>1. cpu.files \in {2, 3, 4}
  BY OfMachines DEF IsX86, IsArm
<1>2. Cache1 = [Cache0 EXCEPT ![1] = s(1)] /\ Cache2 = Cache1
  BY FilesAre DEF Cache1, Cache2, After
<1>3. Cache3 = [Cache2 EXCEPT ![2] = s(2)] /\ Cache4 = [Cache3 EXCEPT ![3] = s(3)]
  BY FilesAre DEF Cache3, Cache4, After
<1> HIDE DEF s
<1>4. Cache2[1] = s(1) /\ Cache2[2] = 0 /\ Cache2[3] = 0 /\ DOMAIN Cache2 = 1..3
  BY <1>2 DEF Cache0
<1>5. Cache3[1] = s(1) /\ Cache3[2] = s(2) /\ Cache3[3] = 0 /\ DOMAIN Cache3 = 1..3
  BY <1>3, <1>4
<1>6. Cache4[1] = s(1) /\ Cache4[2] = s(2) /\ Cache4[3] = s(3)
  BY <1>3, <1>5
<1>7. /\ cpu.files = 2 => C!GetCacheSizesFromKVFS = Cache2
      /\ cpu.files = 3 => C!GetCacheSizesFromKVFS = Cache3
      /\ cpu.files = 4 => C!GetCacheSizesFromKVFS = Cache4
  BY <1>1, KVFSIs
<1> QED BY <1>1, <1>4, <1>5, <1>6, <1>7 DEF s

-----------------------------------------------------------------------------
(* The threads *)
Acts(t) ==
  \/ C!GetCpuInfo(t) \/ C!GetCPUInfoByRun(t)
  \/ C!Install(t) \/ C!SetJmp(t) \/ C!Run(t) \/ C!Illegal(t) \/ C!Restore(t)

LEMMA TypingKept == ASSUME ProcessorInv, NEW t \in Worker, Acts(t) PROVE Typing'
<1>1. Typing /\ (Trying(t) => exceptOldAct # C!None)
  BY DEF ProcessorInv, Probes
<1>2. ASSUME NEW flags, C!StartProbes(t, flags)
      PROVE  /\ step' \in [Worker -> Steps] /\ todo' = [u \in Worker |-> todo'[u]]
             /\ isa' = [u \in Worker |-> isa'[u]] /\ given' = [u \in Worker |-> given'[u]]
  BY <1>1, <1>2 DEF C!StartProbes, Typing, Steps
<1>3. CASE C!GetCpuInfo(t)
  <2>1. CASE UNCHANGED <<step, todo, isa, given>>
    BY <1>1, <1>3, <2>1 DEF C!GetCpuInfo, C!signalVars, Typing
  <2>2. CASE C!StartProbes(t, {"ARMV8"})
    BY <1>1, <1>2, <1>3, <2>2 DEF C!GetCpuInfo, C!signalVars, Typing
  <2> QED BY <1>3, <2>1, <2>2 DEF C!GetCpuInfo
<1>4. CASE C!GetCPUInfoByRun(t)
  BY <1>1, <1>2, <1>4 DEF C!GetCPUInfoByRun, C!signalVars, Typing
<1>5. CASE C!Install(t)
  BY <1>1, <1>5 DEF C!Install, Typing, Steps
<1>6. CASE C!SetJmp(t)
  BY <1>1, <1>6 DEF C!SetJmp, Typing, Steps
<1>7. CASE C!Run(t)
  BY <1>1, <1>7 DEF C!Run, C!signalVars, Typing, Steps
<1>8. CASE C!Illegal(t)
  BY <1>1, <1>8 DEF C!Illegal, C!MaskAfterJump, Typing, Steps
<1>9. CASE C!Restore(t)
  <2>1. exceptOldAct \in {"app", "exceptHandler"}
    BY <1>1, <1>9 DEF C!Restore, Trying, Typing
  <2>2. /\ step' = [step EXCEPT ![t] = step'[t]] /\ step'[t] \in {"done", "install"}
        /\ isa' = [isa EXCEPT ![t] = isa'[t]] /\ todo' = [todo EXCEPT ![t] = Tail(@)]
        /\ action' = exceptOldAct /\ once' \in {once, "done"}
        /\ UNCHANGED <<cpu, given, exceptOldAct, exceptJmpBuf, blocked, dead, overlapped>>
    BY <1>1, <1>9 DEF C!Restore, C!Restored, Typing
  <2> QED BY <1>1, <2>1, <2>2 DEF Typing, Steps
<1> QED BY <1>3, <1>4, <1>5, <1>6, <1>7, <1>8, <1>9 DEF Acts

LEMMA SameCpu ==
  ASSUME cpu' = cpu
  PROVE  C!Tests' = C!Tests /\ \A k : Found(k)' = Found(k)
<1>1. C!Tests' = C!Tests
  BY DEF C!Tests
<1> QED BY <1>1 DEF Found

LEMMA StillProbing ==
  ASSUME cpu' = cpu, NEW u, todo'[u] = todo[u], isa'[u] = isa[u], given'[u] = given[u]
  PROVE  /\ Probing(u) => Probing(u)'
         /\ (Head(todo[u]) \in cpu.usable)' <=> Head(todo[u]) \in cpu.usable
         /\ (isa[u] = given[u] \cup Found(Len(C!Tests)))'
            <=> isa[u] = given[u] \cup Found(Len(C!Tests))
BY SameCpu DEF Probing, Left

(* Everything about a thread is left alone, but for the step it is at. *)
Same(u) ==
  todo'[u] = todo[u] /\ isa'[u] = isa[u] /\ given'[u] = given[u]

LEMMA FoundMore ==
  ASSUME NEW k \in 1..Len(C!Tests)
  PROVE  Found(k) = Found(k - 1) \cup ({C!Tests[k]} \cap cpu.usable)
<1>1. 1..k = (1..(k - 1)) \cup {k}
  OBVIOUS
<1> QED BY <1>1 DEF Found

LEMMA FoundNone == Found(0) = {}
<1>1. 1..0 = {}
  OBVIOUS
<1> QED BY <1>1 DEF Found

LEMMA StartsProbing ==
  ASSUME ProcessorInv, NEW t \in Worker, NEW flags, C!StartProbes(t, flags), cpu' = cpu
  PROVE  /\ step'[t] = "install" /\ Probing(t)' /\ given'[t] = flags
         /\ \A u \in Worker \ {t} : step'[u] = step[u] /\ Same(u)
<1>1. /\ step'[t] = "install" /\ todo'[t] = C!Tests /\ isa'[t] = flags /\ given'[t] = flags
      /\ \A u \in Worker \ {t} : step'[u] = step[u] /\ Same(u)
  BY DEF C!StartProbes, ProcessorInv, Typing, Same
<1>2. C!Tests \in Seq(Instructions) /\ Len(C!Tests) \in {3, 4}
  BY TestsAre DEF ProcessorInv, Typing
<1>3. Left(C!Tests, 1)
  BY <1>2 DEF Left
<1>4. Left(todo[t], 1)' /\ 1 \in 1..Len(C!Tests)'
  BY <1>1, <1>2, <1>3, SameCpu DEF Left
<1>5. isa'[t] = given'[t] \cup Found(1 - 1)'
  BY <1>1, FoundNone, SameCpu
<1> QED BY <1>1, <1>4, <1>5 DEF Probing

(* A step of try_run, but its last: nothing is found out. *)
Within(t) ==
  /\ cpu' = cpu /\ todo' = todo /\ isa' = isa /\ given' = given
  /\ step' = [step EXCEPT ![t] = step'[t]] /\ Working(t) /\ Working(t)'

LEMMA WithinKeeps ==
  ASSUME ProcessorInv, NEW t \in Worker, Within(t),
         step'[t] = "restore" => Head(todo[t]) \in cpu.usable,
         step'[t] = "restoreIll" => Head(todo[t]) \notin cpu.usable,
         exceptOldAct' # C!None \/ (Trying(t) /\ exceptOldAct' = exceptOldAct)
  PROVE  Probes'
<1>1. Typing /\ Probes /\ cpu' = cpu
  BY DEF ProcessorInv, Within
<1>2. ASSUME NEW u \in Worker PROVE Same(u)
  BY DEF Within, Same
<1>3. ASSUME NEW u \in Worker, u # t PROVE step'[u] = step[u]
  BY <1>1, <1>3 DEF Within, Typing
<1>4. ASSUME NEW u \in Worker, Working(u)' PROVE Probing(u)'
  <2>1. Working(u)
    BY <1>3, <1>4 DEF Within, Working
  <2> QED BY <1>1, <1>2, <2>1, StillProbing DEF Probes, Same
<1>5. ASSUME NEW u \in Worker, step'[u] = "done"
      PROVE  (isa[u] = given[u] \cup Found(Len(C!Tests)))'
  <2>1. u # t
    BY <1>5 DEF Within, Working
  <2> QED BY <1>1, <1>2, <1>3, <1>5, <2>1, StillProbing DEF Probes, Same
<1>6. ASSUME NEW u \in Worker
      PROVE  /\ step'[u] = "restore" => Head(todo'[u]) \in cpu'.usable
             /\ step'[u] = "restoreIll" => Head(todo'[u]) \notin cpu'.usable
  BY <1>1, <1>2, <1>3 DEF Probes, Same
<1>7. ASSUME NEW u \in Worker, Trying(u)' PROVE exceptOldAct' # C!None
  <2>1. u # t => Trying(u)
    BY <1>3, <1>7 DEF Trying
  <2> QED BY <1>1, <2>1 DEF Probes
<1> QED BY <1>4, <1>5, <1>6, <1>7 DEF Probes

LEMMA InstallWithin ==
  ASSUME ProcessorInv, NEW t \in Worker, C!Install(t)
  PROVE  Within(t) /\ step[t] = "install" /\ step'[t] = "setjmp" /\ exceptOldAct' # C!None
<1>1. Typing
  BY DEF ProcessorInv
<1>2. exceptOldAct' \in {"app", "exceptHandler"}
  BY <1>1 DEF C!Install, Typing
<1>3. exceptOldAct' # C!None
  BY <1>2 DEF C!None
<1> QED BY <1>1, <1>3 DEF C!Install, Typing, Within, Working

LEMMA SetJmpWithin ==
  ASSUME ProcessorInv, NEW t \in Worker, C!SetJmp(t)
  PROVE  Within(t) /\ step[t] = "setjmp" /\ step'[t] = "func" /\ exceptOldAct' = exceptOldAct
BY DEF C!SetJmp, ProcessorInv, Typing, Within, Working

LEMMA RunWithin ==
  ASSUME ProcessorInv, NEW t \in Worker, C!Run(t)
  PROVE  /\ Within(t) /\ step[t] = "func" /\ step'[t] = "restore"
         /\ exceptOldAct' = exceptOldAct /\ Head(todo[t]) \in cpu.usable
BY DEF C!Run, C!signalVars, ProcessorInv, Typing, Within, Working

LEMMA IllegalWithin ==
  ASSUME ProcessorInv, NEW t \in Worker, C!Illegal(t)
  PROVE  /\ Within(t) /\ step[t] = "func" /\ step'[t] \in {"func", "restoreIll"}
         /\ exceptOldAct' = exceptOldAct /\ Head(todo[t]) \notin cpu.usable
BY DEF C!Illegal, ProcessorInv, Typing, Within, Working


(* The last step of try_run: after the last function the thread is done. *)
Finds(t) ==
  /\ Len(todo[t]) = 1 =>
       step'[t] = "done" /\ isa'[t] = given[t] \cup Found(Len(C!Tests))
  /\ Len(todo[t]) # 1 => step'[t] = "install" /\ Probing(t)'
  /\ cpu' = cpu /\ given' = given /\ exceptOldAct' = exceptOldAct
  /\ \A u \in Worker \ {t} : step'[u] = step[u] /\ Same(u)

LEMMA RestoreFinds ==
  ASSUME ProcessorInv, NEW t \in Worker, C!Restore(t)
  PROVE  Finds(t)
<1>1. Typing /\ Probes /\ step[t] \in {"restore", "restoreIll"}
  BY DEF ProcessorInv, C!Restore
<1> DEFINE flags == IF step[t] = "restore" THEN isa[t] \cup {Head(todo[t])} ELSE isa[t]
<1>2. /\ isa' = [isa EXCEPT ![t] = flags] /\ todo' = [todo EXCEPT ![t] = Tail(@)]
      /\ step' = [step EXCEPT ![t] = IF Len(todo[t]) = 1 THEN "done" ELSE "install"]
      /\ cpu' = cpu /\ given' = given /\ exceptOldAct' = exceptOldAct
  BY DEF C!Restore
<1>3. flags = isa[t] \cup ({Head(todo[t])} \cap cpu.usable)
  BY <1>1 DEF Probes
<1> HIDE DEF flags
<1>4. /\ isa'[t] = flags /\ todo'[t] = Tail(todo[t])
      /\ step'[t] = IF Len(todo[t]) = 1 THEN "done" ELSE "install"
      /\ \A u \in Worker \ {t} : step'[u] = step[u] /\ Same(u)
  BY <1>1, <1>2 DEF Typing, Same
<1>5. PICK k \in 1..Len(C!Tests) : Left(todo[t], k) /\ isa[t] = given[t] \cup Found(k - 1)
  BY <1>1 DEF Probes, Probing, Working
<1> DEFINE n == Len(C!Tests)
<1>6. C!Tests \in Seq(Instructions) /\ n \in Nat /\ k \in 1..n
  BY <1>1, TestsAre DEF Typing
<1>7. /\ todo[t] \in Seq(Instructions) /\ Len(todo[t]) = n + 1 - k
      /\ \A i \in 1..Len(todo[t]) : todo[t][i] = C!Tests[i + k - 1]
  BY <1>5 DEF Left
<1>8. Head(todo[t]) = C!Tests[k]
  <2>1. Head(todo[t]) = todo[t][1] /\ 1 \in 1..Len(todo[t]) /\ 1 + k - 1 = k
    BY <1>6, <1>7
  <2> QED BY <1>7, <2>1
<1>9. flags = given[t] \cup Found(k)
  BY <1>3, <1>5, <1>8, FoundMore
<1>10. CASE Len(todo[t]) = 1
  <2>1. k = n
    <3>1. n + 1 - k = 1
      BY <1>7, <1>10
    <3> HIDE DEF n
    <3> QED BY <1>6, <3>1
  <2> QED BY <1>2, <1>4, <1>9, <1>10, <2>1 DEF Finds
<1>11. CASE Len(todo[t]) # 1
  <2>1. k + 1 \in 1..n
    BY <1>6, <1>7, <1>11
  <2>2. Left(Tail(todo[t]), k + 1)
    <3>1. /\ Tail(todo[t]) \in Seq(Instructions) /\ Len(Tail(todo[t])) = n + 1 - (k + 1)
          /\ \A i \in 1..Len(Tail(todo[t])) : Tail(todo[t])[i] = todo[t][i + 1]
      <4>1. Len(todo[t]) >= 1 /\ Len(todo[t]) - 1 = n + 1 - (k + 1)
        <5> HIDE DEF n
        <5> QED BY <1>6, <1>7
      <4> QED BY <1>7, <4>1, OfTail
    <3>2. ASSUME NEW i \in 1..Len(Tail(todo[t]))
          PROVE  Tail(todo[t])[i] = C!Tests[i + (k + 1) - 1]
      <4>1. i \in 1..(n + 1 - (k + 1)) /\ Len(todo[t]) = n + 1 - k
        BY <1>7, <3>1
      <4>2. i + 1 \in 1..Len(todo[t]) /\ (i + 1) + k - 1 = i + (k + 1) - 1
        <5> HIDE DEF n
        <5> QED BY <1>6, <4>1
      <4> QED BY <1>7, <3>1, <4>2
    <3> QED BY <3>1, <3>2 DEF Left
  <2>3. Left(todo[t], k + 1)' /\ k + 1 \in 1..Len(C!Tests)'
    BY <1>2, <1>4, <2>1, <2>2, SameCpu DEF Left
  <2>4. isa'[t] = given'[t] \cup Found((k + 1) - 1)'
    <3>1. (k + 1) - 1 = k
      OBVIOUS
    <3> QED BY <1>2, <1>4, <1>9, <3>1, SameCpu
  <2> QED BY <1>2, <1>4, <1>11, <2>3, <2>4 DEF Finds, Probing
<1> QED BY <1>10, <1>11

LEMMA ProbesKept == ASSUME ProcessorInv, NEW t \in Worker, Acts(t) PROVE Probes'
<1>1. Typing /\ Probes
  BY DEF ProcessorInv
<1>2. ASSUME NEW flags, C!StartProbes(t, flags), cpu' = cpu, exceptOldAct' = exceptOldAct
      PROVE  Probes'
  <2>1. /\ step'[t] = "install" /\ Probing(t)'
        /\ \A u \in Worker \ {t} : step'[u] = step[u] /\ Same(u)
    BY <1>2, StartsProbing
  <2>2. ASSUME NEW u \in Worker, Working(u)' PROVE Probing(u)'
    BY <1>1, <1>2, <2>1, <2>2, StillProbing DEF Probes, Same, Working
  <2>3. ASSUME NEW u \in Worker, step'[u] # "install"
        PROVE  u # t /\ step'[u] = step[u] /\ Same(u)
    BY <2>1, <2>3
  <2>4. ASSUME NEW u \in Worker, step'[u] = "done"
        PROVE  (isa[u] = given[u] \cup Found(Len(C!Tests)))'
    BY <1>1, <1>2, <2>3, <2>4, StillProbing DEF Probes, Same
  <2>5. ASSUME NEW u \in Worker
        PROVE  /\ step'[u] = "restore" => Head(todo'[u]) \in cpu'.usable
               /\ step'[u] = "restoreIll" => Head(todo'[u]) \notin cpu'.usable
               /\ Trying(u)' => exceptOldAct' # C!None
    BY <1>1, <1>2, <2>3 DEF Probes, Same, Trying
  <2> QED BY <2>2, <2>4, <2>5 DEF Probes
<1>3. CASE C!GetCpuInfo(t)
  <2>1. cpu' = cpu /\ exceptOldAct' = exceptOldAct
    BY <1>3 DEF C!GetCpuInfo, C!signalVars
  <2>2. CASE UNCHANGED <<step, todo, isa, given>>
    BY <1>1, <2>1, <2>2, StillProbing DEF Probes, Working, Trying
  <2> QED BY <1>2, <1>3, <2>1, <2>2 DEF C!GetCpuInfo
<1>4. CASE C!GetCPUInfoByRun(t)
  <2>1. cpu' = cpu /\ exceptOldAct' = exceptOldAct
    BY <1>4 DEF C!GetCPUInfoByRun, C!signalVars
  <2> QED BY <1>2, <1>4, <2>1 DEF C!GetCPUInfoByRun
<1>5. CASE C!Install(t)
  <2>1. /\ Within(t) /\ step[t] = "install" /\ step'[t] = "setjmp"
        /\ exceptOldAct' # C!None
    BY <1>5, InstallWithin
  <2>2. /\ step'[t] = "restore" => Head(todo[t]) \in cpu.usable
        /\ step'[t] = "restoreIll" => Head(todo[t]) \notin cpu.usable
    BY <2>1
  <2>3. exceptOldAct' # C!None \/ (Trying(t) /\ exceptOldAct' = exceptOldAct)
    BY <2>1
  <2> QED BY <2>1, <2>2, <2>3, WithinKeeps
<1>6. CASE C!SetJmp(t)
  BY <1>6, SetJmpWithin, WithinKeeps DEF Trying
<1>7. CASE C!Run(t)
  BY <1>7, RunWithin, WithinKeeps DEF Trying
<1>8. CASE C!Illegal(t)
  BY <1>8, IllegalWithin, WithinKeeps DEF Trying
<1>9. CASE C!Restore(t)
  <2>1. /\ \/ step'[t] = "done" /\ isa'[t] = given[t] \cup Found(Len(C!Tests))
           \/ step'[t] = "install" /\ Probing(t)'
        /\ cpu' = cpu /\ given' = given /\ exceptOldAct' = exceptOldAct
        /\ \A u \in Worker \ {t} : step'[u] = step[u] /\ Same(u)
    BY <1>9, RestoreFinds DEF Finds
  <2>2. ASSUME NEW u \in Worker, Working(u)' PROVE Probing(u)'
    BY <1>1, <2>1, <2>2, StillProbing DEF Probes, Same, Working
  <2>3. ASSUME NEW u \in Worker, step'[u] = "done"
        PROVE  (isa[u] = given[u] \cup Found(Len(C!Tests)))'
    <3>1. CASE u = t
      BY <2>1, <2>3, <3>1, SameCpu
    <3>2. CASE u # t
      BY <1>1, <2>1, <2>3, <3>2, StillProbing DEF Probes, Same
    <3> QED BY <3>1, <3>2
  <2>4. ASSUME NEW u \in Worker
        PROVE  /\ step'[u] = "restore" => Head(todo'[u]) \in cpu'.usable
               /\ step'[u] = "restoreIll" => Head(todo'[u]) \notin cpu'.usable
               /\ Trying(u)' => exceptOldAct' # C!None
    BY <1>1, <2>1 DEF Probes, Same, Trying
  <2> QED BY <2>2, <2>3, <2>4 DEF Probes
<1> QED BY <1>3, <1>4, <1>5, <1>6, <1>7, <1>8, <1>9 DEF Acts

-----------------------------------------------------------------------------
(* Only on x86 do two threads probe, and only there without call_once. *)
LEMMA OnArmKept == ASSUME ProcessorInv, NEW t \in Worker, Acts(t) PROVE OnArm'
<1> SUFFICES ASSUME cpu'.arch = "arm"
    PROVE  /\ ~overlapped'
           /\ \A u \in Worker : Working(u)' => once' = "running" /\ given'[u] = {"ARMV8"}
           /\ \A u, v \in Worker : Working(u)' /\ Working(v)' => u = v
  BY DEF OnArm
<1>1. Typing /\ OnArm
  BY DEF ProcessorInv
<1>2. ASSUME Within(t), once' = once, overlapped' = overlapped PROVE OnArm'
  <2>1. ASSUME NEW u \in Worker PROVE Working(u)' => Working(u) /\ given'[u] = given[u]
    BY <1>1, <1>2 DEF Within, Typing, Working
  <2> QED BY <1>1, <1>2, <2>1 DEF OnArm, Within
<1>3. CASE C!GetCpuInfo(t)
  <2>1. cpu' = cpu /\ once = "new" /\ overlapped' = overlapped
    BY <1>3 DEF C!GetCpuInfo, C!signalVars
  <2>2. C!StartProbes(t, {"ARMV8"}) /\ once' = "running"
    BY <1>3, <2>1 DEF C!GetCpuInfo
  <2>3. /\ step'[t] = "install" /\ given'[t] = {"ARMV8"}
        /\ \A u \in Worker \ {t} : step'[u] = step[u]
    BY <2>1, <2>2, StartsProbing
  <2>4. ASSUME NEW u \in Worker, Working(u)' PROVE u = t
    BY <1>1, <2>1, <2>3, <2>4 DEF OnArm, Working
  <2> QED BY <1>1, <2>1, <2>2, <2>3, <2>4 DEF OnArm
<1>4. CASE C!GetCPUInfoByRun(t)
  BY <1>4 DEF C!GetCPUInfoByRun
<1>5. CASE C!Install(t)
  <2>1. Within(t) /\ step[t] = "install"
    BY <1>5, InstallWithin
  <2>2. cpu' = cpu /\ once' = once /\ overlapped' = (overlapped \/ \E u \in Worker : C!InTryRun(u))
    BY <1>5 DEF C!Install
  <2>3. ASSUME NEW u \in Worker, C!InTryRun(u) PROVE FALSE
    BY <1>1, <2>1, <2>2, <2>3 DEF OnArm, Working, C!InTryRun
  <2>4. ~overlapped'
    BY <1>1, <2>2, <2>3 DEF OnArm
  <2>5. overlapped' = overlapped
    BY <1>1, <2>2, <2>3, <2>4 DEF OnArm, Typing
  <2> QED BY <1>1, <1>2, <2>1, <2>2, <2>5 DEF OnArm
<1>6. CASE C!SetJmp(t)
  BY <1>2, <1>6, SetJmpWithin DEF C!SetJmp, OnArm
<1>7. CASE C!Run(t)
  BY <1>2, <1>7, RunWithin DEF C!Run, C!signalVars, OnArm
<1>8. CASE C!Illegal(t)
  BY <1>2, <1>8, IllegalWithin DEF C!Illegal, OnArm
<1>9. CASE C!Restore(t)
  <2>1. /\ cpu' = cpu /\ given' = given /\ overlapped' = overlapped /\ Working(t)
        /\ Len(todo[t]) # 1 => once' = once
    BY <1>9 DEF C!Restore, Working
  <2>2. /\ Len(todo[t]) = 1 => step'[t] = "done"
        /\ \A u \in Worker \ {t} : step'[u] = step[u]
    BY <1>9, RestoreFinds DEF Finds
  <2>3. ASSUME NEW u \in Worker, Working(u)' PROVE u = t /\ Len(todo[t]) # 1
    BY <1>1, <2>1, <2>2, <2>3 DEF OnArm, Working
  <2> QED BY <1>1, <2>1, <2>3 DEF OnArm
<1> QED BY <1>3, <1>4, <1>5, <1>6, <1>7, <1>8, <1>9 DEF Acts

(* As long as no two threads try functions at once, they take turns with *)
(* the action for SIGILL.                                                *)
LEMMA HandlerKept == ASSUME ProcessorInv, NEW t \in Worker, Acts(t) PROVE Handler'
<1> SUFFICES ASSUME ~overlapped' PROVE Handler'
  BY DEF Handler
<1>1. Typing /\ Handler
  BY DEF ProcessorInv
<1>2. ASSUME UNCHANGED C!signalVars,
             \A u \in Worker : Trying(u)' <=> Trying(u),
             \A u \in Worker : step'[u] = "func" => step[u] = "func"
      PROVE  Handler'
  BY <1>1, <1>2 DEF Handler, C!signalVars
<1>3. ASSUME NEW flags, C!StartProbes(t, flags), cpu' = cpu, UNCHANGED C!signalVars,
             step[t] \in {"idle", "done"}
      PROVE  Handler'
  <2>1. step'[t] = "install" /\ \A u \in Worker \ {t} : step'[u] = step[u]
    BY <1>3, StartsProbing
  <2>2. \A u \in Worker : Trying(u)' <=> Trying(u)
    BY <1>3, <2>1 DEF Trying
  <2>3. \A u \in Worker : step'[u] = "func" => step[u] = "func"
    BY <2>1
  <2> QED BY <1>2, <1>3, <2>2, <2>3
<1>4. CASE C!GetCpuInfo(t)
  <2>1. UNCHANGED C!signalVars /\ cpu' = cpu /\ step[t] \in {"idle", "done"}
    BY <1>4 DEF C!GetCpuInfo
  <2>2. CASE UNCHANGED step
    BY <1>2, <2>1, <2>2 DEF Trying
  <2>3. CASE C!StartProbes(t, {"ARMV8"})
    BY <1>3, <2>1, <2>3
  <2> QED BY <1>4, <2>2, <2>3 DEF C!GetCpuInfo
<1>5. CASE C!GetCPUInfoByRun(t)
  BY <1>3, <1>5 DEF C!GetCPUInfoByRun
<1>6. CASE C!Install(t)
  <2>1. /\ ~overlapped /\ \A u \in Worker : ~Trying(u)
        /\ exceptOldAct' = action /\ action' = "exceptHandler"
        /\ blocked' = blocked /\ dead' = dead
    BY <1>6 DEF C!Install, C!InTryRun, Trying
  <2>2. action = "app" /\ ~dead /\ blocked = {}
    BY <1>1, <2>1 DEF Handler
  <2>3. step'[t] = "setjmp" /\ \A u \in Worker \ {t} : step'[u] = step[u]
    BY <1>1, <1>6 DEF C!Install, Typing
  <2>4. \A u \in Worker : Trying(u)' <=> u = t
    BY <2>1, <2>3 DEF Trying
  <2>5. ASSUME NEW u \in Worker, step'[u] = "func" PROVE FALSE
    BY <2>1, <2>3, <2>5 DEF Trying
  <2> QED BY <2>1, <2>2, <2>4, <2>5 DEF Handler
<1>7. CASE C!SetJmp(t)
  <2>1. /\ UNCHANGED <<action, exceptOldAct, blocked, dead, overlapped>>
        /\ exceptJmpBuf' = t /\ step[t] = "setjmp" /\ step'[t] = "func"
        /\ \A u \in Worker \ {t} : step'[u] = step[u]
    BY <1>1, <1>7 DEF C!SetJmp, Typing
  <2>2. \A u \in Worker : Trying(u)' <=> Trying(u)
    BY <2>1 DEF Trying
  <2>3. ASSUME NEW u \in Worker, step'[u] = "func" PROVE u = t
    <3>1. Trying(u)' /\ Trying(t)'
      BY <2>1, <2>3 DEF Trying
    <3> QED BY <1>1, <2>1, <2>2, <3>1 DEF Handler
  <2> QED BY <1>1, <2>1, <2>2, <2>3 DEF Handler
<1>8. CASE C!Run(t)
  <2>1. /\ UNCHANGED C!signalVars /\ step[t] = "func" /\ step'[t] = "restore"
        /\ \A u \in Worker \ {t} : step'[u] = step[u]
    BY <1>1, <1>8 DEF C!Run, Typing
  <2>2. \A u \in Worker : Trying(u)' <=> Trying(u)
    BY <2>1 DEF Trying
  <2> QED BY <1>2, <2>1, <2>2
<1>9. CASE C!Illegal(t)
  <2>1. step[t] = "func" /\ ~overlapped
    BY <1>9 DEF C!Illegal
  <2>2. t \notin blocked /\ action = "exceptHandler" /\ exceptJmpBuf = t
    BY <1>1, <2>1 DEF Handler, Trying
  <2>3. /\ UNCHANGED C!signalVars /\ step'[t] = "restoreIll"
        /\ \A u \in Worker \ {t} : step'[u] = step[u]
    BY <1>1, <1>9, <2>2 DEF C!Illegal, C!MaskAfterJump, C!signalVars, Typing
  <2>4. \A u \in Worker : Trying(u)' <=> Trying(u)
    BY <2>1, <2>3 DEF Trying
  <2> QED BY <1>2, <2>1, <2>3, <2>4
<1>10. CASE C!Restore(t)
  <2>1. /\ Trying(t) /\ ~overlapped /\ blocked' = blocked /\ dead' = dead
        /\ action' = exceptOldAct
    BY <1>10 DEF C!Restore, C!Restored, Trying
  <2>2. step'[t] \in {"done", "install"} /\ \A u \in Worker \ {t} : step'[u] = step[u]
    BY <1>1, <1>10 DEF C!Restore, Typing
  <2>3. ASSUME NEW u \in Worker, Trying(u)' PROVE FALSE
    <3>1. u # t /\ Trying(u)
      BY <2>2, <2>3 DEF Trying
    <3> QED BY <1>1, <2>1, <3>1 DEF Handler
  <2>4. action' = "app" /\ ~dead' /\ blocked' = {}
    BY <1>1, <2>1 DEF Handler
  <2>5. ASSUME NEW u \in Worker, step'[u] = "func" PROVE FALSE
    BY <2>3, <2>5 DEF Trying
  <2> QED BY <2>3, <2>4, <2>5 DEF Handler
<1> QED BY <1>4, <1>5, <1>6, <1>7, <1>8, <1>9, <1>10 DEF Acts

-----------------------------------------------------------------------------
(* What is told *)
LEMMA ToldKept == ASSUME ProcessorInv, NEW t \in Worker, Acts(t) PROVE Told'
<1>1. Typing /\ OnArm /\ Told
  BY DEF ProcessorInv
<1>2. ASSUME UNCHANGED <<cpu, once, info>> PROVE Told'
  BY <1>1, <1>2 DEF Told
<1>3. CASE C!GetCpuInfo(t)
  <2>1. once = "new" /\ cpu' = cpu
    BY <1>3 DEF C!GetCpuInfo
  <2>2. CASE cpu.arch = "x86"
    <3>1. info' = C!ByCPUID /\ once' = "done"
      BY <1>3, <2>2 DEF C!GetCpuInfo
    <3>2. /\ info'.isa = cpu.claims
          /\ \A level \in 1..3 : info'.cache[level] = C!Size(cpu.caches[level])
      BY <1>1, <2>1, <2>2, <3>1, ByCPUIDRight DEF Told, Typing
    <3> QED BY <2>1, <2>2, <3>1, <3>2 DEF Told
  <2>3. CASE cpu.arch # "x86"
    <3>1. once' = "running"
      BY <1>3, <2>3 DEF C!GetCpuInfo
    <3> QED BY <2>1, <2>3, <3>1 DEF Told
  <2> QED BY <2>2, <2>3
<1>4. CASE C!Restore(t)
  <2>1. cpu' = cpu
    BY <1>4 DEF C!Restore
  <2>2. CASE Len(todo[t]) = 1 /\ once = "running"
    <3>1. cpu.arch = "arm"
      BY <1>1, <2>2, TestsAre DEF Told, Typing
    <3>2. given[t] = {"ARMV8"}
      <4>1. Working(t)
        BY <1>4 DEF C!Restore, Working
      <4> QED BY <1>1, <3>1, <4>1 DEF OnArm
    <3>3. isa'[t] = {"ARMV8"} \cup Found(3)
      <4>1. isa'[t] = given[t] \cup Found(Len(C!Tests)) /\ Len(C!Tests) = 3
        BY <1>1, <1>4, <2>2, <3>1, RestoreFinds, TestsAre DEF Finds, Typing
      <4> QED BY <3>2, <4>1
    <3>4. isa'[t] = cpu.usable
      BY <1>1, <3>1, <3>3, TestsAre DEF Typing
    <3>5. info'.isa = isa'[t] /\ info'.cache = C!GetCacheSizesFromKVFS /\ once' = "done"
      BY <1>1, <1>4, <2>2 DEF C!Restore, Typing
    <3>6. \A level \in 1..3 :
             \/ info'.cache[level] = C!Size(cpu.caches[level])
             \/ info'.cache[level] = 0 /\ cpu.files <= level
      BY <1>1, <3>1, <3>5, KVFSRight DEF Typing
    <3> QED BY <2>1, <3>1, <3>4, <3>5, <3>6 DEF Told
  <2>3. CASE ~(Len(todo[t]) = 1 /\ once = "running")
    BY <1>2, <1>4, <2>3 DEF C!Restore
  <2> QED BY <2>2, <2>3
<1>5. CASE C!GetCPUInfoByRun(t)
  BY <1>2, <1>5 DEF C!GetCPUInfoByRun
<1>6. CASE C!Install(t)
  BY <1>2, <1>6 DEF C!Install
<1>7. CASE C!SetJmp(t)
  BY <1>2, <1>7 DEF C!SetJmp
<1>8. CASE C!Run(t)
  BY <1>2, <1>8 DEF C!Run
<1>9. CASE C!Illegal(t)
  BY <1>2, <1>9 DEF C!Illegal
<1> QED BY <1>3, <1>4, <1>5, <1>6, <1>7, <1>8, <1>9 DEF Acts

-----------------------------------------------------------------------------
LEMMA ProcessorInit == ASSUME C!Init PROVE ProcessorInv
<1>1. Typing
  BY DEF C!Init, C!None, Typing, Steps
<1>2. \A t \in Worker : step[t] = "idle"
  BY DEF C!Init
<1>3. Probes /\ Handler /\ OnArm
  BY <1>2 DEF C!Init, Probes, Handler, OnArm, Working, Trying
<1>4. Told
  BY DEF C!Init, Told
<1> QED BY <1>1, <1>3, <1>4 DEF ProcessorInv

LEMMA ProcessorNext == ASSUME ProcessorInv, C!Next PROVE ProcessorInv'
<1>1. PICK t \in Worker : Acts(t)
  BY DEF C!Next, Acts
<1>2. Typing' /\ Probes' /\ Handler' /\ OnArm' /\ Told'
  BY <1>1, TypingKept, ProbesKept, HandlerKept, OnArmKept, ToldKept
<1> QED BY <1>2 DEF ProcessorInv

LEMMA ProcessorStay == ASSUME ProcessorInv, UNCHANGED processorVars PROVE ProcessorInv'
<1>1. /\ UNCHANGED <<cpu, once, info, step, todo, isa, given, action>>
      /\ UNCHANGED <<exceptOldAct, exceptJmpBuf, blocked, dead, overlapped>>
  BY DEF processorVars
<1>2. Typing'
  BY <1>1 DEF ProcessorInv, Typing
<1>3. Probes'
  <2>1. \A u \in Worker : Probing(u) => Probing(u)'
    BY <1>1, StillProbing
  <2>2. (Found(Len(C!Tests)))' = Found(Len(C!Tests))
    BY <1>1, SameCpu
  <2> QED BY <1>1, <2>1, <2>2 DEF ProcessorInv, Probes, Working, Trying
<1>4. Handler' /\ OnArm' /\ Told'
  BY <1>1 DEF ProcessorInv, Handler, OnArm, Told, Working, Trying
<1> QED BY <1>2, <1>3, <1>4 DEF ProcessorInv

LEMMA ProcessorSafe == ASSUME ProcessorInv PROVE C!TypeOK /\ C!MachineFound
<1>1. Typing /\ Probes /\ Handler /\ OnArm /\ Told
  BY DEF ProcessorInv
<1>2. C!TypeOK
  BY <1>1 DEF Typing, C!TypeOK, Steps
<1>3. \A t \in Worker : C!InTryRun(t) <=> Trying(t)
  BY DEF C!InTryRun, Trying
<1>4. ASSUME NEW t \in Worker, step[t] = "done"
      PROVE  isa[t] = given[t] \cup {C!Tests[n] : n \in {m \in DOMAIN C!Tests : C!Tests[m] \in cpu.usable}}
  <2>1. DOMAIN C!Tests = 1..Len(C!Tests)
    BY <1>1, TestsAre DEF Typing
  <2> QED BY <1>1, <1>4, <2>1 DEF Probes, Found
<1> QED BY <1>1, <1>2, <1>3, <1>4 DEF Handler, OnArm, Told, C!MachineFound

-----------------------------------------------------------------------------
(* All the parts: each keeps its invariant in its own steps, and in those  *)
(* of the others, which leave its variables alone.                         *)
UtilitiesInv ==
  /\ IInv /\ PageInv /\ ObjectInv /\ MmapInv /\ ShapeInv
  /\ ThreadInv /\ ProcessorInv /\ LoggerInv

LEMMA UtilitiesStart == UtilitiesInit => UtilitiesInv
<1> SUFFICES ASSUME UtilitiesInit PROVE UtilitiesInv
  OBVIOUS
<1>1. /\ Init /\ P!Init /\ O!Init /\ M!Init /\ T!Init
      /\ W!Init /\ C!Init /\ L!Init
  BY DEF UtilitiesInit
<1>2. IInv /\ PageInv /\ ObjectInv /\ MmapInv /\ ShapeInv
  BY <1>1, InitHolds, PagesInit, ObjectsInit, MmapInit, ShapesInit
<1>3. ThreadInv /\ ProcessorInv /\ LoggerInv
  BY <1>1, ThreadsInit, ProcessorInit, LoggerInit
<1> QED BY <1>2, <1>3 DEF UtilitiesInv

LEMMA UtilitiesStep == UtilitiesInv /\ [UtilitiesNext]_utilityVars => UtilitiesInv'
<1> SUFFICES ASSUME UtilitiesInv, [UtilitiesNext]_utilityVars PROVE UtilitiesInv'
  OBVIOUS
<1>1. /\ Next \/ UNCHANGED vars
      /\ P!Next \/ UNCHANGED pageVars
      /\ O!Next \/ UNCHANGED objectVars
      /\ M!Next \/ UNCHANGED mmapVars
      /\ T!Next \/ UNCHANGED shapeVars
      /\ W!Next \/ UNCHANGED threadVars
      /\ C!Next \/ UNCHANGED processorVars
      /\ L!Next \/ UNCHANGED loggerVars
  BY DEF UtilitiesNext, utilityVars, memoryVars, processVars
<1>2. IInv'
  BY <1>1, Step DEF UtilitiesInv
<1>3. PageInv' /\ ObjectInv'
  BY <1>1, PagesNext, PagesStay, ObjectsNext, ObjectsStay DEF UtilitiesInv
<1>4. MmapInv' /\ ShapeInv'
  BY <1>1, MmapNext, MmapStay, ShapesNext, ShapesStay DEF UtilitiesInv
<1>5. ThreadInv' /\ ProcessorInv' /\ LoggerInv'
  BY <1>1, ThreadsNext, ThreadsStay, ProcessorNext, ProcessorStay, LoggerNext, LoggerStay
     DEF UtilitiesInv
<1> QED BY <1>2, <1>3, <1>4, <1>5 DEF UtilitiesInv

LEMMA UtilitiesInvariance == UtilitiesSpec => []UtilitiesInv
BY UtilitiesStart, UtilitiesStep, PTL DEF UtilitiesSpec

(* The variables of every part keep their types, however many addresses,   *)
(* pages, objects, dimensions and threads there are.                       *)
THEOREM UtilitiesTyped == UtilitiesSpec => []UtilitiesTypeOK
<1>1. ASSUME UtilitiesInv PROVE UtilitiesTypeOK
  <2>1. TypeOK /\ P!TypeOK /\ O!TypeOK /\ M!TypeOK
    BY <1>1, TypeHolds, PagesSafe, MmapSafe DEF UtilitiesInv, ObjectInv
  <2>2. T!TypeOK /\ W!TypeOK /\ C!TypeOK /\ L!TypeOK
    BY <1>1, ShapesSafe, ThreadsSafe, ProcessorSafe, LoggerSafe DEF UtilitiesInv
  <2> QED BY <2>1, <2>2 DEF UtilitiesTypeOK
<1> QED BY <1>1, UtilitiesInvariance, PTL

(* Mapped memory stays mapped (cuda_buffered_allocator.cc), pages and      *)
(* objects are free or held, and never both (page_manager.cc:89-166,       *)
(* object_pool.h:38-87), a Mmap owns its memory alone (mmap.cc:43-310),    *)
(* pthread_once calls once (windows/pthread.cc:77-87), and a message goes  *)
(* to the logger it was meant for (log.h:104-110).                         *)
THEOREM NothingGetsLost == UtilitiesSpec => []NothingLost
<1>1. ASSUME UtilitiesInv PROVE NothingLost
  <2>1. MappedWhileLive
    BY <1>1, LiveIsMapped DEF UtilitiesInv
  <2>2. P!PagesKept /\ O!ObjectsKept /\ M!MemoryKept
    BY <1>1, PagesSafe, MmapSafe DEF UtilitiesInv, ObjectInv
  <2>3. W!OnceRun /\ L!MessagesKept
    BY <1>1, ThreadsSafe, LoggerSafe DEF UtilitiesInv
  <2> QED BY <2>1, <2>2, <2>3 DEF NothingLost
<1> QED BY <1>1, UtilitiesInvariance, PTL

(* The counts of a shape are those of its dimensions and paddings, and     *)
(* paddings those of its format (tensor_shape.h:100-279), for every set of *)
(* dimensions and every width of integers; and of every machine what it    *)
(* can do is found out, by however many threads (x86/sysinfo.cc:75-300,    *)
(* arm/sysinfo.cc:49-227).                                                 *)
THEOREM CallersAreToldRight == UtilitiesSpec => []ToldRight
<1>1. ASSUME UtilitiesInv PROVE ToldRight
  <2>1. T!PaddingFits /\ C!MachineFound
    BY <1>1, ShapesSafe, ProcessorSafe DEF UtilitiesInv
  <2> QED BY <2>1 DEF ToldRight
<1> QED BY <1>1, UtilitiesInvariance, PTL
=============================================================================
