------------------------------- MODULE Lemmas -------------------------------
(***************************************************************************)
(* Facts about numbers and sequences that the proofs about more than one   *)
(* component need.                                                         *)
(***************************************************************************)
EXTENDS Integers, Sequences, FiniteSetTheorems, SequenceTheorems, TLAPS

(* Induction, for a set of numbers: a set that misses n but is closed      *)
(* under successors would have more elements below n than it has.          *)
LEMMA Induction ==
  ASSUME NEW Q \in SUBSET Nat, 0 \in Q, \A x \in Q : x + 1 \in Q
  PROVE  Q = Nat
<1> SUFFICES ASSUME NEW n \in Nat, n \notin Q PROVE FALSE
  OBVIOUS
<1> DEFINE A == Q \cap (0..n)
           f == [x \in A |-> x + 1]
<1>1. IsFiniteSet(A) /\ 0 \in A
  <2>1. IsFiniteSet(0..n) /\ A \in SUBSET (0..n) /\ 0 \in A
    BY FS_Interval
  <2> QED BY <2>1, FS_Subset
<1>2. IsFiniteSet(A \ {0}) /\ Cardinality(A \ {0}) = Cardinality(A) - 1
  BY <1>1, FS_RemoveElement
<1>3. Cardinality(A \ {0}) < Cardinality(A)
  BY <1>1, <1>2, FS_CardinalityType
<1>4. \A x \in A : x + 1 \in A \ {0}
  OBVIOUS
<1>5. f \in [A -> A \ {0}]
  BY <1>4
<1>6. \E x, y \in A : x # y /\ f[x] = f[y]
  <2> HIDE DEF A, f
  <2> QED BY <1>1, <1>2, <1>3, <1>5, FS_PigeonHole
<1> QED BY <1>6

(* A finite set has as many elements as what a one-to-one map makes of it. *)
LEMMA OneToOne ==
  ASSUME NEW S, NEW U, NEW f \in [S -> U], IsFiniteSet(S),
         \A x, y \in S : f[x] = f[y] => x = y, \A u \in U : \E x \in S : f[x] = u
  PROVE  IsFiniteSet(U) /\ Cardinality(U) = Cardinality(S)
<1>1. f \in Injection(S, U)
  BY DEF Injection, IsInjective
<1>2. f \in Surjection(S, U)
  BY DEF Surjection
<1>3. ExistsBijection(S, U)
  BY <1>1, <1>2 DEF ExistsBijection, Bijection
<1> QED BY <1>3, FS_Bijection

-----------------------------------------------------------------------------
(* Item x is in s, and it is there at most once. *)
Occurs(s, x) == \E k \in DOMAIN s : s[k] = x
AtMostOnce(s, x) == \A k, l \in DOMAIN s : s[k] = x /\ s[l] = x => k = l

(* An item x is ahead of an item y in s. *)
Ahead(s, x, y) == \E k, l \in DOMAIN s : k < l /\ s[k] = x /\ s[l] = y

(* A pushed item is in the queue, the others stay what they were. *)
LEMMA AppendOccurs ==
  ASSUME NEW Item, NEW s \in Seq(Item), NEW x \in Item, NEW y
  PROVE  /\ Occurs(Append(s, x), y) <=> Occurs(s, y) \/ x = y
         /\ AtMostOnce(s, y) /\ ~(x = y /\ Occurs(s, y)) => AtMostOnce(Append(s, x), y)
<1>1. /\ Len(Append(s, x)) = Len(s) + 1
      /\ \A i \in 1..Len(s) : Append(s, x)[i] = s[i]
      /\ Append(s, x)[Len(s) + 1] = x
      /\ Append(s, x) \in Seq(Item)
  BY AppendProperties
<1>2. /\ Len(s) \in Nat /\ DOMAIN s = 1..Len(s)
      /\ DOMAIN Append(s, x) = 1..(Len(s) + 1)
  BY <1>1, LenProperties
<1>3. \A k \in 1..(Len(s) + 1) : k \in 1..Len(s) \/ k = Len(s) + 1
  BY <1>2
<1>4. Len(s) + 1 \in 1..(Len(s) + 1) /\ 1..Len(s) \subseteq 1..(Len(s) + 1)
  BY <1>2
<1>5. Occurs(Append(s, x), y) <=> Occurs(s, y) \/ x = y
  BY <1>1, <1>2, <1>3, <1>4 DEF Occurs
<1>6. ASSUME AtMostOnce(s, y), ~(x = y /\ Occurs(s, y))
      PROVE  AtMostOnce(Append(s, x), y)
  BY <1>1, <1>2, <1>3, <1>6 DEF Occurs, AtMostOnce
<1> QED BY <1>5, <1>6

(* The item that is taken was there; if once, it no longer is. *)
LEMMA TailOccurs ==
  ASSUME NEW Item, NEW s \in Seq(Item), s # <<>>, NEW y
  PROVE  /\ Occurs(Tail(s), y) => Occurs(s, y)
         /\ Occurs(s, y) => Occurs(Tail(s), y) \/ Head(s) = y
         /\ Occurs(s, Head(s))
         /\ AtMostOnce(s, y) => AtMostOnce(Tail(s), y)
         /\ AtMostOnce(s, y) /\ Head(s) = y => ~Occurs(Tail(s), y)
<1>1. /\ Len(s) \in Nat \ {0} /\ DOMAIN s = 1..Len(s) /\ Head(s) = s[1]
      /\ Tail(s) \in Seq(Item) /\ Len(Tail(s)) = Len(s) - 1
      /\ \A i \in 1..Len(Tail(s)) : Tail(s)[i] = s[i + 1]
  BY EmptySeq, LenProperties, HeadTailProperties
<1>2. DOMAIN Tail(s) = 1..(Len(s) - 1)
  BY <1>1, LenProperties
<1>3. /\ \A k \in 1..(Len(s) - 1) : k + 1 \in 1..Len(s) /\ k + 1 # 1
      /\ \A k \in 1..Len(s) : k = 1 \/ (k - 1 \in 1..(Len(s) - 1) /\ (k - 1) + 1 = k)
      /\ \A k, l \in 1..(Len(s) - 1) : k + 1 = l + 1 => k = l
      /\ 1 \in 1..Len(s)
  BY <1>1
<1>4. \A k \in DOMAIN Tail(s) : Tail(s)[k] = s[k + 1]
  BY <1>1, <1>2
<1>5. (Occurs(Tail(s), y) => Occurs(s, y)) /\ Occurs(s, Head(s))
  BY <1>1, <1>2, <1>3, <1>4 DEF Occurs
<1>6. ASSUME Occurs(s, y), Head(s) # y PROVE Occurs(Tail(s), y)
  <2>1. PICK k \in 1..Len(s) : s[k] = y
    BY <1>1, <1>6 DEF Occurs
  <2>2. k - 1 \in DOMAIN Tail(s) /\ (k - 1) + 1 = k
    BY <1>1, <1>2, <1>3, <1>6, <2>1
  <2> QED BY <1>4, <2>1, <2>2 DEF Occurs
<1>7. ASSUME AtMostOnce(s, y) PROVE AtMostOnce(Tail(s), y)
  BY <1>1, <1>2, <1>3, <1>4, <1>7 DEF AtMostOnce
<1>8. ASSUME AtMostOnce(s, y), Head(s) = y PROVE ~Occurs(Tail(s), y)
  BY <1>1, <1>2, <1>3, <1>4, <1>8 DEF AtMostOnce, Occurs
<1> QED BY <1>5, <1>6, <1>7, <1>8

(* The items ahead of others: new ones only before the item that is pushed. *)
LEMMA AppendAhead ==
  ASSUME NEW Item, NEW s \in Seq(Item), NEW z \in Item, NEW x, NEW y,
         Ahead(Append(s, z), x, y)
  PROVE  Ahead(s, x, y) \/ (y = z /\ Occurs(s, x))
<1>1. /\ Len(Append(s, z)) = Len(s) + 1
      /\ \A i \in 1..Len(s) : Append(s, z)[i] = s[i]
      /\ Append(s, z)[Len(s) + 1] = z
      /\ Append(s, z) \in Seq(Item)
  BY AppendProperties
<1>2. /\ Len(s) \in Nat /\ DOMAIN s = 1..Len(s)
      /\ DOMAIN Append(s, z) = 1..(Len(s) + 1)
  BY <1>1, LenProperties
<1>3. PICK k, l \in 1..(Len(s) + 1) :
        k < l /\ Append(s, z)[k] = x /\ Append(s, z)[l] = y
  BY <1>2 DEF Ahead
<1>4. k \in 1..Len(s) /\ s[k] = x
  BY <1>1, <1>2, <1>3
<1>5. CASE l = Len(s) + 1
  BY <1>1, <1>2, <1>3, <1>4, <1>5 DEF Occurs
<1>6. CASE l \in 1..Len(s)
  BY <1>1, <1>2, <1>3, <1>4, <1>6 DEF Ahead
<1> QED BY <1>2, <1>3, <1>5, <1>6

LEMMA TailAhead ==
  ASSUME NEW Item, NEW s \in Seq(Item), s # <<>>, NEW x, NEW y
  PROVE  /\ Ahead(Tail(s), x, y) => Ahead(s, x, y)
         /\ Head(s) = x /\ Occurs(Tail(s), y) => Ahead(s, x, y)
<1>1. /\ Len(s) \in Nat \ {0} /\ DOMAIN s = 1..Len(s) /\ Head(s) = s[1]
      /\ Tail(s) \in Seq(Item) /\ Len(Tail(s)) = Len(s) - 1
      /\ \A i \in 1..Len(Tail(s)) : Tail(s)[i] = s[i + 1]
  BY EmptySeq, LenProperties, HeadTailProperties
<1>2. DOMAIN Tail(s) = 1..(Len(s) - 1)
  BY <1>1, LenProperties
<1>3. /\ \A k \in 1..(Len(s) - 1) : k + 1 \in 1..Len(s) /\ 1 < k + 1
      /\ \A k, l \in 1..(Len(s) - 1) : k < l => k + 1 < l + 1
      /\ 1 \in 1..Len(s)
  BY <1>1
<1>4. \A k \in DOMAIN Tail(s) : Tail(s)[k] = s[k + 1]
  BY <1>1, <1>2
<1>5. ASSUME Ahead(Tail(s), x, y) PROVE Ahead(s, x, y)
  <2>1. PICK k, l \in DOMAIN Tail(s) : k < l /\ Tail(s)[k] = x /\ Tail(s)[l] = y
    BY <1>5 DEF Ahead
  <2>2. k + 1 \in DOMAIN s /\ l + 1 \in DOMAIN s /\ k + 1 < l + 1
    BY <1>1, <1>2, <1>3, <2>1
  <2> QED BY <1>4, <2>1, <2>2 DEF Ahead
<1>6. ASSUME Head(s) = x, Occurs(Tail(s), y) PROVE Ahead(s, x, y)
  <2>1. PICK k \in DOMAIN Tail(s) : Tail(s)[k] = y
    BY <1>6 DEF Occurs
  <2>2. 1 \in DOMAIN s /\ k + 1 \in DOMAIN s /\ 1 < k + 1
    BY <1>1, <1>2, <1>3, <2>1
  <2> QED BY <1>1, <1>4, <1>6, <2>1, <2>2 DEF Ahead
<1> QED BY <1>5, <1>6

-----------------------------------------------------------------------------
Elements(s) == {s[i] : i \in DOMAIN s}
Distinct(s) == \A i, j \in DOMAIN s : s[i] = s[j] => i = j

(* What is put at the end of a sequence of distinct elements, and removed. *)
LEMMA Pushed ==
  ASSUME NEW S, NEW s \in Seq(S), NEW x \in S
  PROVE  /\ Append(s, x) \in Seq(S)
         /\ Elements(Append(s, x)) = Elements(s) \cup {x}
         /\ Distinct(s) /\ x \notin Elements(s) => Distinct(Append(s, x))
<1>1. /\ Append(s, x) \in Seq(S)
      /\ Len(Append(s, x)) = Len(s) + 1
      /\ \A i \in 1..Len(s) : Append(s, x)[i] = s[i]
      /\ Append(s, x)[Len(s) + 1] = x
  BY AppendProperties
<1>2. /\ Len(s) \in Nat /\ DOMAIN s = 1..Len(s)
      /\ DOMAIN Append(s, x) = 1..(Len(s) + 1)
  BY <1>1, LenProperties
<1>3. 1..(Len(s) + 1) = (1..Len(s)) \cup {Len(s) + 1}
  BY <1>2
<1>4. Elements(Append(s, x)) = Elements(s) \cup {x}
  BY <1>1, <1>2, <1>3 DEF Elements
<1>5. ASSUME Distinct(s), x \notin Elements(s) PROVE Distinct(Append(s, x))
  <2>1. \A i \in 1..Len(s) : s[i] # x
    BY <1>2, <1>5 DEF Elements
  <2> QED BY <1>1, <1>2, <1>3, <1>5, <2>1 DEF Distinct
<1> QED BY <1>1, <1>4, <1>5

LEMMA Popped ==
  ASSUME NEW S, NEW s \in Seq(S), s # <<>>, Distinct(s)
  PROVE  /\ SubSeq(s, 1, Len(s) - 1) \in Seq(S) /\ s[Len(s)] \in S
         /\ Elements(SubSeq(s, 1, Len(s) - 1)) = Elements(s) \ {s[Len(s)]}
         /\ s[Len(s)] \in Elements(s)
         /\ Distinct(SubSeq(s, 1, Len(s) - 1))
<1> DEFINE L1 == Len(s)
<1>1. L1 \in Nat /\ L1 >= 1 /\ DOMAIN s = 1..L1 /\ s[L1] \in S
  BY LenProperties, EmptySeq, ElementOfSeq
<1>2. /\ SubSeq(s, 1, Len(s) - 1) \in Seq(S)
      /\ Len(SubSeq(s, 1, Len(s) - 1)) = L1 - 1
      /\ \A i \in 1..(L1 - 1) : SubSeq(s, 1, Len(s) - 1)[i] = s[i]
  <2>1. 1 \in 1..(Len(s) + 1) /\ L1 - 1 \in 0..Len(s)
    BY <1>1
  <2> QED BY <1>1, <2>1, SubSeqProperties
<1>3. DOMAIN SubSeq(s, 1, Len(s) - 1) = 1..(L1 - 1)
  BY <1>2, LenProperties
<1>a. L1 \in Nat /\ L1 >= 1
  BY <1>1
<1> HIDE DEF L1
<1>4. \A i \in 1..L1 : i = L1 \/ i \in 1..(L1 - 1)
  BY <1>a
<1>5. L1 \in 1..L1 /\ \A i \in 1..(L1 - 1) : i \in 1..L1 /\ i # L1
  BY <1>a
<1>6. \A i \in 1..(L1 - 1) : s[i] # s[L1]
  BY <1>1, <1>5 DEF Distinct
<1> DEFINE f == SubSeq(s, 1, Len(s) - 1)
<1>7. Elements(f) = Elements(s) \ {s[L1]} /\ s[L1] \in Elements(s)
  <2>1. DOMAIN f = 1..(L1 - 1) /\ \A i \in 1..(L1 - 1) : f[i] = s[i]
    BY <1>2, <1>3
  <2> HIDE DEF f
  <2> QED BY <1>1, <1>4, <1>5, <1>6, <2>1 DEF Elements
<1>8. Distinct(SubSeq(s, 1, Len(s) - 1))
  BY <1>1, <1>2, <1>3, <1>5 DEF Distinct
<1> QED BY <1>1, <1>2, <1>7, <1>8 DEF L1

LEMMA IsSequence ==
  ASSUME NEW S, NEW n \in Nat, NEW s \in [1..n -> S]
  PROVE  s \in Seq(S) /\ Len(s) = n
OBVIOUS

LEMMA OfTail ==
  ASSUME NEW S, NEW s \in Seq(S), Len(s) >= 1
  PROVE  /\ Tail(s) \in Seq(S) /\ Len(Tail(s)) = Len(s) - 1
         /\ \A i \in 1..Len(Tail(s)) : Tail(s)[i] = s[i + 1]
OBVIOUS

-----------------------------------------------------------------------------
(* Division with a remainder *)
LEMMA Division ==
  ASSUME NEW w \in Nat \ {0}, NEW x \in Int
  PROVE  /\ x \div w \in Int /\ x % w \in 0..(w - 1) /\ x % w \in Int
         /\ x = w * (x \div w) + (x % w)
OBVIOUS

LEMMA NotSmall ==
  ASSUME NEW w \in Nat \ {0}, NEW k \in Int, k >= 1
  PROVE  w * k >= w
OBVIOUS

LEMMA Congruent ==
  ASSUME NEW w \in Nat \ {0}, NEW x \in Int, NEW y \in Int, NEW k \in Int, x = y + w * k
  PROVE  x % w = y % w
<1> DEFINE p == x \div w
           q == y \div w
           r == x % w
           s == y % w
<1>1. /\ p \in Int /\ r \in 0..(w - 1) /\ r \in Int /\ x = w * p + r
      /\ q \in Int /\ s \in 0..(w - 1) /\ s \in Int /\ y = w * q + s
  BY Division
<1> HIDE DEF p, q, r, s
<1> DEFINE m == q + k - p
           l == p - q - k
<1>2. m \in Int /\ l \in Int
  BY <1>1
<1>3. w * m = w * q + w * k - w * p /\ w * l = w * p - w * q - w * k
  BY <1>1
<1>4. r - s = w * m /\ s - r = w * l
  BY <1>1, <1>3
<1>5. m < 1 /\ l < 1
  <2> HIDE DEF m, l
  <2>1. m >= 1 => w * m >= w
    BY <1>2, NotSmall
  <2>2. l >= 1 => w * l >= w
    BY <1>2, NotSmall
  <2>3. r - s < w /\ s - r < w
    BY <1>1
  <2>4. ~(m >= 1) /\ ~(l >= 1)
    <3> DEFINE u == w * m
               v == w * l
    <3>1. u \in Int /\ v \in Int
      BY <1>2
    <3>2. u = r - s /\ v = s - r /\ (m >= 1 => u >= w) /\ (l >= 1 => v >= w)
      BY <1>4, <2>1, <2>2
    <3> HIDE DEF u, v
    <3> QED BY <1>1, <2>3, <3>1, <3>2
  <2> QED BY <1>2, <2>4
<1>6. m = 0
  BY <1>1, <1>5
<1>7. w * m = 0
  BY <1>6
<1>8. r = s
  BY <1>1, <1>4, <1>7
<1> QED BY <1>8 DEF r, s

LEMMA FactorOf ==
  ASSUME NEW w \in Nat \ {0}, NEW x \in Int, NEW y \in Int
  PROVE  ((x % w) * y) % w = (x * y) % w
<1> DEFINE q == x \div w
           r == x % w
           k == q * y
<1>1. q \in Int /\ r \in Int /\ x = w * q + r
  BY Division
<1> HIDE DEF q, r
<1>2. k \in Int /\ x * y \in Int /\ r * y \in Int
  BY <1>1
<1>3. x * y = r * y + w * k
  BY <1>1
<1> DEFINE a == x * y
           b == r * y
<1>4. a \in Int /\ b \in Int /\ a = b + w * k
  BY <1>2, <1>3
<1> HIDE DEF a, b, k
<1>5. a % w = b % w
  BY <1>2, <1>4, Congruent
<1> QED BY <1>5 DEF a, b, r

LEMMA TimesBoth ==
  ASSUME NEW w \in Nat \ {0}, NEW a \in Int, NEW b \in Int, NEW c \in Int, NEW y \in Int,
         c % w = (a * b) % w
  PROVE  ((c * y) % w) % w = (a * ((b * y) % w)) % w
<1> DEFINE p == c * y
           q == b * y
           d == a * b
<1>1. p \in Int /\ q \in Int /\ d \in Int
  OBVIOUS
<1>2. d * y = q * a
  OBVIOUS
<1>3. ((c % w) * y) % w = p % w /\ ((d % w) * y) % w = (d * y) % w
  <2>1. ((c % w) * y) % w = (c * y) % w
    BY FactorOf
  <2> HIDE DEF d
  <2>2. ((d % w) * y) % w = (d * y) % w
    BY <1>1, FactorOf
  <2> QED BY <2>1, <2>2
<1>4. c % w = d % w
  OBVIOUS
<1>5. ((q % w) * a) % w = (q * a) % w
  <2> HIDE DEF q
  <2> QED BY <1>1, FactorOf
<1>6. (p % w) % w = p % w
  <2> HIDE DEF p
  <2>1. p % w \in 0..(w - 1)
    BY <1>1, Division
  <2> QED BY <2>1
<1> DEFINE r == q % w
<1>7. r \in Int
  <2> HIDE DEF q
  <2> QED BY <1>1, Division
<1>8. p % w = (r * a) % w
  <2> HIDE DEF p, q, d
  <2>1. p % w = ((d % w) * y) % w
    BY <1>3, <1>4
  <2> QED BY <1>2, <1>3, <1>5, <2>1
<1> HIDE DEF r
<1>9. r * a = a * r
  BY <1>7
<1>10. (p % w) % w = (a * r) % w
  BY <1>6, <1>8, <1>9
<1> QED BY <1>10 DEF p, q, r
=============================================================================
