------------------------ MODULE SPSCRingBuffer_proofs ------------------------
(***************************************************************************)
(* For every size, every set of items and every number of pushes, the two  *)
(* threads never race on a slot, the buffer is never overfull, and it      *)
(* implements a bounded FIFO queue.                                        *)
(*                                                                         *)
(* The invariant ties the indices to the numbers of stores and orders      *)
(* these: headSeen <= popped <= tailSeen <= pushed <= headSeen + Size.     *)
(***************************************************************************)
EXTENDS SPSCRingBuffer, SequenceTheorems, Integers, TLAPS

(***************************************************************************)
(* Facts about % on the naturals for any positive divisor: Increment wraps *)
(* an index around with it (spsc_ring_buffer.h:73-75).                     *)
(***************************************************************************)

(* Division with remainder. *)
LEMMA DivisionTheorem ==
  ASSUME NEW a \in Nat, NEW n \in Nat \ {0}
  PROVE  /\ a % n \in 0..(n - 1)
         /\ a \div n \in Nat
         /\ a = n * (a \div n) + (a % n)
BY Z3

(* The remainder is the only one. *)
LEMMA RemainderUnique ==
  ASSUME NEW n \in Nat \ {0}, NEW q \in Nat, NEW r \in 0..(n - 1)
  PROVE  (n * q + r) % n = r
BY Z3

(* Two different multiples of n are at least n apart. *)
LEMMA MultiplesApart ==
  ASSUME NEW n \in Nat \ {0}, NEW p \in Int, NEW q \in Int, n * p < n * q
  PROVE  n * p + n <= n * q
BY Z3

(* Going once around ends at the same index. *)
LEMMA AroundOnce ==
  ASSUME NEW a \in Nat, NEW n \in Nat \ {0}
  PROVE  (a + n) % n = a % n
<1> DEFINE q == a \div n
           r == a % n
<1>1. q \in Nat /\ r \in 0..(n - 1) /\ a = n * q + r
  BY DivisionTheorem
<1> HIDE DEF q, r
<1>2. a + n = n * (q + 1) + r
  BY <1>1, Z3
<1>3. (n * (q + 1) + r) % n = r
  BY <1>1, RemainderUnique
<1> QED BY <1>2, <1>3 DEF r

(* Two positions less than n apart have different indices. *)
LEMMA IndicesDiffer ==
  ASSUME NEW n \in Nat \ {0}, NEW a \in Nat, NEW b \in Nat,
         a < b, b < a + n
  PROVE  a % n # b % n
<1> DEFINE p == a \div n
           q == b \div n
           r == a % n
<1> SUFFICES ASSUME r = b % n PROVE FALSE
  OBVIOUS
<1>1. p \in Nat /\ r \in 0..(n - 1) /\ a = n * p + r
  BY DivisionTheorem
<1>2. q \in Nat /\ b = n * q + r
  BY DivisionTheorem
<1> HIDE DEF p, q, r
<1>3. n * p \in Int /\ n * q \in Int
  BY <1>1, <1>2, Z3
<1>4. n * p < n * q
  BY <1>1, <1>2, <1>3
<1>5. n * p + n <= n * q
  BY <1>1, <1>2, <1>4, MultiplesApart
<1> QED BY <1>1, <1>2, <1>3, <1>5

(* The successor of an index is the index of the successor. *)
LEMMA SuccessorIndex ==
  ASSUME NEW n \in Nat \ {0}, NEW a \in Nat
  PROVE  ((a % n) + 1) % n = (a + 1) % n
<1> DEFINE q == a \div n
           r == a % n
<1>1. q \in Nat /\ r \in 0..(n - 1) /\ a = n * q + r
  BY DivisionTheorem
<1> HIDE DEF q, r
<1>2. CASE r + 1 < n
  <2>1. a + 1 = n * q + (r + 1) /\ r + 1 \in 0..(n - 1)
    BY <1>1, <1>2, Z3
  <2>2. (n * q + (r + 1)) % n = r + 1
    BY <1>1, <2>1, RemainderUnique
  <2>3. (n * 0 + (r + 1)) % n = r + 1
    BY <2>1, RemainderUnique
  <2> QED BY <1>1, <2>1, <2>2, <2>3 DEF r
<1>3. CASE r + 1 = n
  <2>1. a + 1 = n * (q + 1) + 0
    BY <1>1, <1>3, Z3
  <2>2. (n * (q + 1) + 0) % n = 0
    BY <1>1, RemainderUnique
  <2>3. (n * 1 + 0) % n = 0
    BY RemainderUnique
  <2>4. r + 1 = n * 1 + 0
    BY <1>1, <1>3
  <2> QED BY <2>1, <2>2, <2>3, <2>4 DEF r
<1> QED BY <1>1, <1>2, <1>3

-----------------------------------------------------------------------------

(***************************************************************************)
(* The indices are the numbers of stores modulo the number of slots.       *)
(***************************************************************************)
Indices == tail = Index(pushed) /\ head = Index(popped)

(* What each thread has seen of the other bounds its own progress. *)
Order ==
  /\ headSeen <= popped
  /\ popped <= tailSeen
  /\ tailSeen <= pushed
  /\ pushed <= headSeen + Size

(* Past its test, the producer has room and the consumer has an element. *)
Committed ==
  /\ producer # "idle" => pushed < headSeen + Size /\ pushed < MaxPushes
  /\ consumer # "idle" => popped < tailSeen

(* The slots between head_ and tail_ hold the items, but for a moved one. *)
Filled ==
  /\ producer # "idle" => item \in Item
  /\ producer = "publish" => vec[tail] = item
  /\ consumer = "publish" => out \in Item
  /\ \A n \in popped..(pushed - 1) :
       ~(consumer = "publish" /\ n = popped) => vec[Index(n)] \in Item

IInv == TypeOK /\ Indices /\ Order /\ Committed /\ Filled

(***************************************************************************)
(* Index(n) is a slot; the indices of positions a and b differ when they   *)
(* are less than a full turn apart; Increment follows Index.               *)
(***************************************************************************)
LEMMA IndexFacts ==
  /\ Slots \in Nat \ {0}
  /\ \A n \in Nat : Index(n) \in 0..Size
  /\ \A n \in Nat : Increment(Index(n)) = Index(n + 1)
  /\ \A a, b \in Nat : a < b /\ b <= a + Size => Index(a) # Index(b)
  /\ \A n \in Nat : Index(n + Slots) = Index(n)
<1>1. Slots \in Nat \ {0} /\ Slots - 1 = Size
  BY SizeAssumption DEF Slots
<1>2. ASSUME NEW n \in Nat
      PROVE  /\ Index(n) \in 0..Size
             /\ Increment(Index(n)) = Index(n + 1)
             /\ Index(n + Slots) = Index(n)
  BY <1>1, DivisionTheorem, SuccessorIndex, AroundOnce DEF Index, Increment
<1>3. ASSUME NEW a \in Nat, NEW b \in Nat, a < b, b <= a + Size
      PROVE  Index(a) # Index(b)
  <2>1. b < a + Slots
    BY <1>3, SizeAssumption DEF Slots
  <2> QED BY <1>1, <1>3, <2>1, IndicesDiffer DEF Index
<1> QED BY <1>1, <1>2, <1>3

LEMMA InvInit == Init => IInv
<1>1. Index(0) = 0
  BY SizeAssumption, RemainderUnique DEF Index, Slots
<1> QED BY <1>1, SizeAssumption, MaxPushesAssumption
        DEF Init, IInv, TypeOK, Indices, Order, Committed, Filled

LEMMA InvNext == IInv /\ [Next]_vars => IInv'
<1> SUFFICES ASSUME IInv, [Next]_vars
             PROVE  IInv'
  OBVIOUS
<1> USE SizeAssumption, MaxPushesAssumption
<1>t. /\ pushed \in Nat /\ popped \in Nat /\ headSeen \in Nat /\ tailSeen \in Nat
      /\ Size \in Nat /\ Slots = Size + 1
  BY DEF IInv, TypeOK, Slots
<1>1. ASSUME NEW x \in Item, PushLoads(x)
      PROVE  IInv'
  <2>h. PICK h \in headSeen..popped :
             /\ headSeen' = h
             /\ producer' = IF Full(h) THEN "idle" ELSE "write"
    BY <1>1 DEF PushLoads, Visible
  <2>1. h \in Nat /\ h <= popped /\ headSeen <= h
    BY <1>t
  <2>2. pushed <= h + Size
    BY <2>1, <1>t DEF IInv, Order
  <2>3. producer' # "idle" => pushed < h + Size
    <3>1. SUFFICES ASSUME pushed = h + Size
                   PROVE  producer' = "idle"
      BY <1>t, <2>1, <2>2
    <3>2. Increment(tail) = Index(h + Slots)
      BY <3>1, <1>t, <2>1, IndexFacts DEF IInv, Indices
    <3> QED BY <3>2, <2>h, <2>1, IndexFacts DEF Full
  <2>4. TypeOK'
    BY <1>1, <2>h, <2>1 DEF IInv, TypeOK, PushLoads, consumerVars
  <2>5. Indices' /\ Order'
    BY <1>1, <2>h, <2>1, <2>2 DEF IInv, Indices, Order, PushLoads, consumerVars
  <2>6. Committed'
    BY <1>1, <2>h, <2>3 DEF IInv, Committed, PushLoads, consumerVars
  <2>7. Filled'
    BY <1>1, <2>h DEF IInv, Filled, PushLoads, consumerVars
  <2> QED BY <2>4, <2>5, <2>6, <2>7 DEF IInv
<1>2. CASE PushWrites
  <2>1. TypeOK' /\ Indices' /\ Order' /\ Committed'
    BY <1>2 DEF IInv, TypeOK, Indices, Order, Committed, PushWrites,
                consumerVars
  <2>2. \A n \in popped..(pushed - 1) : Index(n) # tail
    <3>1. SUFFICES ASSUME NEW n \in popped..(pushed - 1)
                   PROVE  Index(n) # tail
      OBVIOUS
    <3>2. n \in Nat /\ n < pushed /\ pushed <= n + Size
      BY <1>t DEF IInv, Order
    <3> QED BY <3>2, <1>t, IndexFacts DEF IInv, Indices
  <2>3. Filled'
    <3>1. vec' = [vec EXCEPT ![tail] = item] /\ tail \in DOMAIN vec
      BY <1>2 DEF PushWrites, IInv, TypeOK
    <3>2. \A n \in popped..(pushed - 1) : vec'[Index(n)] = vec[Index(n)]
      BY <2>2, <3>1
    <3> QED BY <1>2, <3>1, <3>2 DEF IInv, Filled, PushWrites, consumerVars
  <2> QED BY <2>1, <2>3 DEF IInv
<1>3. CASE PushPublishes
  <2>1. pushed < headSeen + Size /\ pushed < MaxPushes
    BY <1>3 DEF IInv, Committed, PushPublishes
  <2>2. tail' = Index(pushed + 1) /\ tail' \in 0..Size
    BY <1>3, <1>t, IndexFacts DEF IInv, Indices, PushPublishes
  <2>3. TypeOK'
    BY <1>3, <2>1, <2>2 DEF IInv, TypeOK, PushPublishes, consumerVars
  <2>4. Indices' /\ Order' /\ Committed'
    BY <1>3, <1>t, <2>1, <2>2
       DEF IInv, Indices, Order, Committed, PushPublishes, consumerVars
  <2>5. Filled'
    <3>1. vec[Index(pushed)] \in Item
      BY <1>3 DEF IInv, Filled, Indices, PushPublishes
    <3> QED BY <3>1, <1>3, <1>t
            DEF IInv, Filled, PushPublishes, consumerVars
  <2> QED BY <2>3, <2>4, <2>5 DEF IInv
<1>4. CASE PopLoads
  <2>t. PICK t \in tailSeen..pushed :
             /\ tailSeen' = t
             /\ consumer' = IF Empty(t) THEN "idle" ELSE "read"
    BY <1>4 DEF PopLoads, Visible
  <2>1. t \in Nat /\ t <= pushed /\ tailSeen <= t /\ popped <= t
    BY <1>t DEF IInv, Order
  <2>2. consumer' # "idle" => popped < t
    BY <1>t, <2>t, <2>1 DEF Empty, IInv, Indices
  <2>3. TypeOK' /\ Indices' /\ Order' /\ Committed'
    BY <1>4, <1>t, <2>t, <2>1, <2>2
       DEF IInv, TypeOK, Indices, Order, Committed, PopLoads, producerVars
  <2>4. Filled'
    BY <1>4, <2>t DEF IInv, Filled, PopLoads, producerVars
  <2> QED BY <2>3, <2>4 DEF IInv
<1>5. CASE PopReads
  <2>1. popped < tailSeen /\ popped < pushed
    BY <1>5, <1>t DEF IInv, Committed, Order, PopReads
  <2>2. vec[head] \in Item
    BY <1>5, <1>t, <2>1 DEF IInv, Filled, Indices, PopReads
  <2>3. TypeOK' /\ Indices' /\ Order' /\ Committed'
    BY <1>5, <2>2
       DEF IInv, TypeOK, Indices, Order, Committed, PopReads, producerVars
  <2>4. vec' = [vec EXCEPT ![head] = None] /\ head \in DOMAIN vec
    BY <1>5 DEF PopReads, IInv, TypeOK
  <2>5. \A n \in (popped + 1)..(pushed - 1) : vec'[Index(n)] = vec[Index(n)]
    <3>1. SUFFICES ASSUME NEW n \in (popped + 1)..(pushed - 1)
                   PROVE  Index(n) # head
      BY <2>4
    <3>2. n \in Nat /\ popped < n /\ n <= popped + Size
      BY <1>t DEF IInv, Order
    <3> QED BY <3>2, <1>t, IndexFacts DEF IInv, Indices
  <2>6. producer = "publish" => vec'[tail] = vec[tail]
    <3>1. SUFFICES ASSUME producer = "publish"
                   PROVE  tail # head
      BY <2>4
    <3>2. popped < pushed /\ pushed <= popped + Size
      BY <2>1, <3>1, <1>t DEF IInv, Committed, Order
    <3> QED BY <3>2, <1>t, IndexFacts DEF IInv, Indices
  <2>7. Filled'
    BY <1>5, <1>t, <2>2, <2>5, <2>6 DEF IInv, Filled, PopReads, producerVars
  <2> QED BY <2>3, <2>7 DEF IInv
<1>6. CASE PopPublishes
  <2>1. popped < tailSeen /\ popped < MaxPushes
    BY <1>6, <1>t DEF IInv, TypeOK, Committed, Order, PopPublishes
  <2>2. head' = Index(popped + 1) /\ head' \in 0..Size
    BY <1>6, <1>t, IndexFacts DEF IInv, Indices, PopPublishes
  <2>3. TypeOK' /\ Indices' /\ Order' /\ Committed'
    BY <1>6, <1>t, <2>1, <2>2
       DEF IInv, TypeOK, Indices, Order, Committed, PopPublishes, producerVars
  <2>4. Filled'
    BY <1>6, <1>t DEF IInv, Filled, PopPublishes, producerVars
  <2> QED BY <2>3, <2>4 DEF IInv
<1>7. CASE UNCHANGED vars
  BY <1>7 DEF vars, IInv, TypeOK, Indices, Order, Committed, Filled
<1> QED BY <1>1, <1>2, <1>3, <1>4, <1>5, <1>6, <1>7 DEF Next

LEMMA Invariance == Spec => []IInv
BY InvInit, InvNext, PTL DEF Spec

(***************************************************************************)
(* The variables of the ring buffer keep their types; in particular tail_  *)
(* and head_ stay inside vec_ (spsc_ring_buffer.h:73-75).                  *)
(***************************************************************************)
THEOREM TypeCorrect == Spec => []TypeOK
<1>1. IInv => TypeOK
  BY DEF IInv
<1> QED BY <1>1, Invariance, PTL

(***************************************************************************)
(* No slot is written before its last reader is done, nor read before its  *)
(* writer is (spsc_ring_buffer.h:42-47, 54-59).                            *)
(***************************************************************************)
THEOREM RaceFreedom == Spec => []NoSlotRace
<1>1. IInv => NoSlotRace
  BY DEF IInv, Committed, NoSlotRace
<1> QED BY <1>1, Invariance, PTL

(***************************************************************************)
(* The buffer holds at most Size elements, and the producer and the        *)
(* consumer are never at the same slot.                                    *)
(***************************************************************************)
THEOREM CapacityKept == Spec => []NeverOverfull
<1>1. IInv => NeverOverfull
  <2> SUFFICES ASSUME IInv PROVE NeverOverfull
    OBVIOUS
  <2>1. /\ pushed \in Nat /\ popped \in Nat /\ headSeen \in Nat
        /\ tailSeen \in Nat /\ Size \in Nat
    BY SizeAssumption DEF IInv, TypeOK
  <2>2. popped <= pushed /\ pushed <= popped + Size
    BY <2>1 DEF IInv, Order
  <2>3. ASSUME producer = "write", consumer = "read"
        PROVE  tail # head
    <3>1. popped < pushed
      BY <2>1, <2>3 DEF IInv, Committed, Order
    <3> QED BY <2>1, <2>2, <3>1, IndexFacts DEF IInv, Indices
  <2> QED BY <2>2, <2>3 DEF NeverOverfull
<1> QED BY <1>1, Invariance, PTL

-----------------------------------------------------------------------------
(***************************************************************************)
(* The refinement.  A step is described by what it does to the elements of *)
(* Contents, one by one.                                                   *)
(***************************************************************************)
Element(n) ==
  IF n = popped /\ consumer = "publish" THEN out ELSE vec[Index(n)]

ContentsOK ==
  /\ Contents \in Seq(Item)
  /\ Len(Contents) = pushed - popped
  /\ \A n \in popped..(pushed - 1) : Contents[n - popped + 1] = Element(n)

LEMMA ContentsFacts == IInv => ContentsOK
<1> SUFFICES ASSUME IInv PROVE ContentsOK
  OBVIOUS
<1>1. /\ pushed \in Nat /\ popped \in Nat /\ pushed - popped \in Nat
  BY SizeAssumption DEF IInv, TypeOK, Order
<1>2. ASSUME NEW n \in popped..(pushed - 1)
      PROVE  /\ Contents[n - popped + 1] = Element(n)
             /\ Element(n) \in Item
  <2>1. /\ n - popped + 1 \in 1..(pushed - popped)
        /\ popped + (n - popped + 1) - 1 = n
        /\ n - popped + 1 = 1 <=> n = popped
    BY <1>1
  <2>2. Contents[n - popped + 1] = Element(n)
    BY <2>1 DEF Contents, Element
  <2>3. Element(n) \in Item
    BY DEF IInv, Filled, Element
  <2> QED BY <2>2, <2>3
<1>3. Contents \in [1..(pushed - popped) -> Item]
  <2>1. SUFFICES ASSUME NEW k \in 1..(pushed - popped)
                 PROVE  Contents[k] \in Item
    BY DEF Contents
  <2>2. /\ popped + k - 1 \in popped..(pushed - 1)
        /\ (popped + k - 1) - popped + 1 = k
    BY <1>1
  <2> QED BY <1>2, <2>2
<1> QED BY <1>1, <1>2, <1>3 DEF ContentsOK

(* A step that changes neither counter nor any element leaves Contents. *)
LEMMA ContentsKept ==
  ASSUME IInv, IInv', pushed' = pushed, popped' = popped,
         \A n \in popped..(pushed - 1) : Element(n)' = Element(n)
  PROVE  Contents' = Contents
<1>1. pushed \in Nat /\ popped \in Nat
  BY DEF IInv, TypeOK
<1>c. ContentsOK /\ ContentsOK'
  BY ContentsFacts, PTL
<1>2. ASSUME NEW k \in 1..(pushed - popped)
      PROVE  Contents'[k] = Contents[k]
  <2>1. PICK n \in popped..(pushed - 1) : n - popped + 1 = k
    <3>1. popped + k - 1 \in popped..(pushed - 1)
      BY <1>1
    <3> QED BY <1>1, <3>1
  <2>2. Contents[n - popped + 1] = Element(n)
    BY <1>c, <2>1 DEF ContentsOK
  <2>3. Contents'[n - popped + 1] = Element(n)'
    BY <1>c, <2>1 DEF ContentsOK
  <2> QED BY <2>1, <2>2, <2>3
<1> QED BY <1>1, <1>c, <1>2, SeqEqual DEF ContentsOK

(***************************************************************************)
(* The store to tail_ (spsc_ring_buffer.h:47) appends the item.            *)
(***************************************************************************)
LEMMA PublishIsPush ==
  ASSUME IInv, IInv', PushPublishes
  PROVE  FIFO!Push
<1>1. /\ pushed \in Nat /\ popped \in Nat /\ popped <= pushed /\ Size \in Nat
      /\ pushed' = pushed + 1 /\ popped' = popped
      /\ pushed < popped + Size
  BY SizeAssumption
     DEF IInv, TypeOK, Order, Committed, PushPublishes, consumerVars
<1>c. ContentsOK /\ ContentsOK'
  BY ContentsFacts, PTL
<1>2. Len(Contents) < Size
  BY <1>1, <1>c DEF ContentsOK
<1>3. \A n \in popped..pushed : Element(n)' = Element(n)
  BY DEF PushPublishes, consumerVars, Element
<1>4. pushed # popped \/ consumer # "publish"
  BY <1>1 DEF IInv, Committed, Order, TypeOK
<1>5. Element(pushed) = item /\ item \in Item
  BY <1>1, <1>4 DEF Element, IInv, Filled, Indices, PushPublishes
<1>6. Contents' = Append(Contents, item)
  <2>1. /\ Append(Contents, item) \in Seq(Item)
        /\ Len(Append(Contents, item)) = pushed + 1 - popped
        /\ \A n \in popped..(pushed - 1) :
             Append(Contents, item)[n - popped + 1] = Element(n)
        /\ Append(Contents, item)[pushed - popped + 1] = item
    <3>1. /\ Contents \in Seq(Item) /\ Len(Contents) = pushed - popped
          /\ \A n \in popped..(pushed - 1) :
               Contents[n - popped + 1] = Element(n)
      BY <1>c DEF ContentsOK
    <3>2. \A n \in popped..(pushed - 1) : n - popped + 1 \in 1..(pushed - popped)
      BY <1>1
    <3> QED BY <1>1, <1>5, <3>1, <3>2, AppendProperties
  <2>2. /\ Contents' \in Seq(Item)
        /\ Len(Contents') = pushed + 1 - popped
        /\ \A n \in popped..pushed : Contents'[n - popped + 1] = Element(n)'
    BY <1>1, <1>c DEF ContentsOK
  <2>3. ASSUME NEW k \in 1..(pushed + 1 - popped)
        PROVE  Contents'[k] = Append(Contents, item)[k]
    <3>1. PICK n \in popped..pushed : n - popped + 1 = k
      <4>1. popped + k - 1 \in popped..pushed
        BY <1>1
      <4> QED BY <1>1, <4>1
    <3>2. Contents'[k] = Element(n)
      BY <1>3, <2>2, <3>1
    <3>3. CASE n = pushed
      BY <1>5, <2>1, <3>1, <3>2, <3>3
    <3>4. CASE n # pushed
      <4>1. n \in popped..(pushed - 1)
        BY <1>1, <3>4
      <4> QED BY <2>1, <3>1, <3>2, <4>1
    <3> QED BY <3>3, <3>4
  <2> QED BY <2>1, <2>2, <2>3, SeqEqual
<1>7. result' = result
  BY DEF PushPublishes, consumerVars
<1> QED BY <1>2, <1>5, <1>6, <1>7 DEF FIFO!Push

(***************************************************************************)
(* The store to head_ (spsc_ring_buffer.h:59) removes the oldest element,  *)
(* and that element is what Pop delivers.                                  *)
(***************************************************************************)
LEMMA PublishIsPop ==
  ASSUME IInv, IInv', PopPublishes
  PROVE  FIFO!Pop
<1>1. /\ pushed \in Nat /\ popped \in Nat /\ popped < pushed
      /\ pushed' = pushed /\ popped' = popped + 1
      /\ consumer = "publish" /\ consumer' = "idle"
  BY DEF IInv, TypeOK, Order, Committed, PopPublishes, producerVars
<1>c. ContentsOK /\ ContentsOK'
  BY ContentsFacts, PTL
<1>2. Contents # <<>> /\ Head(Contents) = out
  <2>1. Contents[1] = Element(popped)
    BY <1>1, <1>c DEF ContentsOK
  <2>2. Contents[1] = out
    BY <1>1, <2>1 DEF Element
  <2> QED BY <1>1, <1>c, <2>2 DEF ContentsOK
<1>3. /\ Tail(Contents) \in Seq(Item)
      /\ Len(Tail(Contents)) = pushed - popped - 1
      /\ \A k \in 1..(pushed - popped - 1) : Tail(Contents)[k] = Contents[k + 1]
  BY <1>1, <1>c, <1>2, HeadTailProperties DEF ContentsOK
<1>4. Contents' = Tail(Contents)
  <2>1. /\ Contents' \in Seq(Item)
        /\ Len(Contents') = pushed - popped - 1
        /\ \A n \in (popped + 1)..(pushed - 1) :
             Contents'[n - (popped + 1) + 1] = Element(n)'
    BY <1>1, <1>c DEF ContentsOK
  <2>2. ASSUME NEW k \in 1..(pushed - popped - 1)
        PROVE  Contents'[k] = Tail(Contents)[k]
    <3>1. PICK n \in (popped + 1)..(pushed - 1) :
               /\ n \in popped..(pushed - 1) /\ n # popped
               /\ n - (popped + 1) + 1 = k /\ n - popped + 1 = k + 1
      <4>1. popped + k \in (popped + 1)..(pushed - 1)
        BY <1>1
      <4> QED BY <1>1, <4>1
    <3>2. Element(n)' = Element(n)
      BY <1>1, <3>1 DEF Element, PopPublishes, producerVars
    <3>3. Contents[n - popped + 1] = Element(n)
      BY <1>c, <3>1 DEF ContentsOK
    <3> QED BY <1>3, <2>1, <3>1, <3>2, <3>3
  <2> QED BY <1>3, <2>1, <2>2, SeqEqual
<1>5. result' = out
  BY DEF PopPublishes
<1> QED BY <1>2, <1>4, <1>5 DEF FIFO!Pop

(***************************************************************************)
(* The ring buffer implements the bounded FIFO queue: the two stores are   *)
(* its operations, every other step leaves it alone.                       *)
(***************************************************************************)
THEOREM Refinement == Spec => ImplementsFIFO
<1>1. Init => FIFO!Init
  BY DEF Init, FIFO!Init, Contents
<1>2. IInv /\ IInv' /\ [Next]_vars => [FIFO!Next]_<<Contents, result>>
  <2> SUFFICES ASSUME IInv, IInv', [Next]_vars
               PROVE  \/ FIFO!Push \/ FIFO!Pop
                      \/ Contents' = Contents /\ result' = result
    BY DEF FIFO!Next
  <2>t. /\ pushed \in Nat /\ popped \in Nat /\ Size \in Nat
        /\ pushed <= popped + Size
    BY SizeAssumption DEF IInv, TypeOK, Order
  <2>1. ASSUME NEW x \in Item, PushLoads(x)
        PROVE  Contents' = Contents /\ result' = result
    BY <2>1, ContentsKept DEF PushLoads, consumerVars, Element
  <2>2. CASE PushWrites
    <3>1. ASSUME NEW n \in popped..(pushed - 1)
          PROVE  Element(n)' = Element(n)
      <4>1. Index(n) # tail
        <5>1. n \in Nat /\ n < pushed /\ pushed <= n + Size
          BY <2>t
        <5> QED BY <5>1, <2>t, IndexFacts DEF IInv, Indices
      <4>2. vec'[Index(n)] = vec[Index(n)]
        BY <2>2, <4>1 DEF PushWrites, IInv, TypeOK
      <4> QED BY <2>2, <4>2 DEF Element, PushWrites, consumerVars
    <3> QED BY <2>2, <3>1, ContentsKept DEF PushWrites, consumerVars
  <2>3. CASE PushPublishes
    BY <2>3, PublishIsPush
  <2>4. CASE PopLoads
    <3>1. /\ UNCHANGED <<pushed, popped, vec, out, result>>
          /\ consumer # "publish" /\ consumer' # "publish"
      BY <2>4 DEF PopLoads, producerVars
    <3> QED BY <3>1, ContentsKept DEF Element
  <2>5. CASE PopReads
    <3>1. ASSUME NEW n \in popped..(pushed - 1)
          PROVE  Element(n)' = Element(n)
      <4>1. CASE n = popped
        BY <2>5, <4>1 DEF Element, PopReads, IInv, Indices, producerVars
      <4>2. CASE n # popped
        <5>1. n \in Nat /\ popped < n /\ n <= popped + Size
          BY <2>t, <4>2
        <5>2. Index(n) # head
          BY <5>1, <2>t, IndexFacts DEF IInv, Indices
        <5>3. vec'[Index(n)] = vec[Index(n)]
          BY <2>5, <5>2 DEF PopReads, IInv, TypeOK
        <5> QED BY <2>5, <4>2, <5>3 DEF Element, PopReads, producerVars
      <4> QED BY <4>1, <4>2
    <3> QED BY <2>5, <3>1, ContentsKept DEF PopReads, producerVars
  <2>6. CASE PopPublishes
    BY <2>6, PublishIsPop
  <2>7. CASE UNCHANGED vars
    BY <2>7 DEF vars, Contents
  <2> QED BY <2>1, <2>2, <2>3, <2>4, <2>5, <2>6, <2>7 DEF Next
<1> QED BY <1>1, <1>2, Invariance, PTL DEF Spec, FIFO!Spec, ImplementsFIFO
=============================================================================
