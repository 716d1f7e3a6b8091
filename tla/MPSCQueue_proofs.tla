-------------------------- MODULE MPSCQueue_proofs --------------------------
(***************************************************************************)
(* For every set of producers and every number of pushes, no node of an    *)
(* MPSCQueue is used after its deletion, the destructor deletes all, and   *)
(* the queue implements a FIFO queue and tells truly when it is empty.     *)
(*                                                                         *)
(* The invariant is about the history of m_tail: at one of its elements is *)
(* the head; the nodes after it form a chain, with gaps where a Push has   *)
(* yet to link its node; and the consumer knows of every stub in it, so it *)
(* never inserts the stub a second time, however old its load of m_tail.   *)
(***************************************************************************)
EXTENDS MPSCQueue, Lemmas

(* Element i is to be linked to the next one by the thread that put that   *)
(* one into m_tail.                                                        *)
ByProducer(p, i) ==
  producer[p] = "link" /\ prev[p] = tails[i] /\ node[p] = tails[i + 1]
ByConsumer(i) == consumer = "link" /\ cprev = tails[i] /\ tails[i + 1] = Stub
Pending(i) == ByConsumer(i) \/ \E p \in Producer : ByProducer(p, i)

(* The head is element h of tails. *)
HeadIs(h) ==
  /\ h \in 1..Len(tails)
  /\ tails[h] = head
  /\ \A i \in h..Len(tails), j \in h..Len(tails) : tails[i] = tails[j] => i = j

Linked(h) ==
  /\ next[tails[Len(tails)]] = Null
  /\ \A i \in h..(Len(tails) - 1) :
       next[tails[i]] = IF Pending(i) THEN Null ELSE tails[i + 1]

(* Whoever is about to link has its place behind the head. *)
Linking(h) ==
  /\ \A p \in Producer :
       producer[p] = "link" => \E i \in h..(Len(tails) - 1) : ByProducer(p, i)
  /\ consumer = "link" => \E i \in h..(Len(tails) - 1) : ByConsumer(i)

(* What is before the head was taken out, but for the stubs. *)
TakenBefore(h) == ToSet(popped) = {tails[i] : i \in 1..(h - 1)} \ {Stub}

(* The stub is not behind the head when it is about to be inserted. *)
StubOut(h) ==
  /\ consumer \in {"stub", "exchange"} => \A i \in h..Len(tails) : tails[i] # Stub
  /\ consumer = "exchange" => next[Stub] = Null

Chain(h) == HeadIs(h) /\ Linked(h) /\ Linking(h) /\ TakenBefore(h) /\ StubOut(h)

(* Each node is pushed once, and all that were allocated are in m_tail's   *)
(* history or about to be.                                                 *)
PushedOnce ==
  /\ \A i \in 1..Len(tails), j \in 1..Len(tails) :
       tails[i] = tails[j] /\ tails[i] # Stub => i = j
  /\ \A i \in 1..Len(tails) : tails[i] <= pushes
  /\ \A p \in Producer : producer[p] # "idle" => node[p] \in 1..pushes
  /\ \A p \in Producer :
       producer[p] = "exchange" =>
         /\ next[node[p]] = Null
         /\ \A i \in 1..Len(tails) : tails[i] # node[p]
  /\ \A p \in Producer, q \in Producer :
       producer[p] # "idle" /\ producer[q] # "idle" /\ node[p] = node[q] => p = q
  /\ \A n \in 1..pushes : \/ \E i \in 1..Len(tails) : tails[i] = n
                          \/ \E p \in Producer : producer[p] = "exchange" /\ node[p] = n

StubsKnown == \A i \in 1..Len(tails) : tails[i] = Stub => i <= seen

(* What Pop has taken out it deletes at its end. *)
Deleted ==
  /\ consumer \notin {"idle", "load"} /\ consumer \notin {"count", "free"} => head # Stub
  /\ consumer \in {"count", "free"} =>
       popped # <<>> /\ freed \cup {Last(popped)} = ToSet(popped)
  /\ consumer \notin {"count", "free"} => freed = ToSet(popped)

Closing ==
  /\ mode # "open" => \A p \in Producer : producer[p] = "idle"
  /\ mode = "closing" =>
       /\ consumer # "idle" /\ seen = Len(tails)
       /\ consumer = "tail" => next[head] = Null
       /\ consumer = "load3" => next[head] # Null
  /\ mode = "closed" => consumer = "idle" /\ freed = 1..pushes

IInv ==
  /\ TypeOK
  /\ PushedOnce
  /\ StubsKnown
  /\ Deleted
  /\ Closing
  /\ \E h \in 1..Len(tails) : Chain(h)

-----------------------------------------------------------------------------
(* Facts about sequences and types *)

LEMMA ToSetAppend ==
  ASSUME NEW S, NEW s \in Seq(S), NEW x \in S
  PROVE  /\ Append(s, x) \in Seq(S) /\ Append(s, x) # <<>>
         /\ ToSet(Append(s, x)) = ToSet(s) \cup {x}
         /\ Last(Append(s, x)) = x
<1>1. /\ Append(s, x) \in Seq(S) /\ Append(s, x) # <<>>
      /\ Len(Append(s, x)) = Len(s) + 1
      /\ \A i \in 1..Len(s) : Append(s, x)[i] = s[i]
      /\ Append(s, x)[Len(s) + 1] = x
  BY AppendProperties
<1>2. /\ Len(s) \in Nat /\ DOMAIN s = 1..Len(s)
      /\ DOMAIN Append(s, x) = 1..(Len(s) + 1)
  BY <1>1, LenProperties
<1>3. 1..(Len(s) + 1) = (1..Len(s)) \cup {Len(s) + 1}
  BY <1>2
<1> QED BY <1>1, <1>2, <1>3 DEF ToSet, Last

LEMMA Remainder ==
  ASSUME NEW a \in Int, NEW n \in Nat, n > 0
  PROVE  a % n \in 0..(n - 1)
BY Z3

LEMMA Types ==
  ASSUME TypeOK
  PROVE  /\ Len(tails) \in Nat /\ Len(tails) >= 1 /\ DOMAIN tails = 1..Len(tails)
         /\ \A i \in 1..Len(tails) : tails[i] \in Node /\ tails[i] \in Nat
         /\ tail = tails[Len(tails)]
         /\ Item \subseteq Node /\ Stub \in Node /\ Node \subseteq Nat /\ Null \notin Node
         /\ Stub \notin Item /\ Stub = 0
         /\ head \in Node /\ next[head] \in Node \cup {Null}
         /\ pushes \in Nat /\ MaxPushes \in Nat /\ seen \in 1..Len(tails)
<1> USE DEF TypeOK
<1>1. MaxPushes \in Nat /\ Item \subseteq Node /\ Stub \in Node /\ Node \subseteq Nat
      /\ Null \notin Node /\ Stub \notin Item /\ Stub = 0
  BY MaxPushesAssumption, NullAssumption DEF Node, Item, Stub
<1>2. Len(tails) \in Nat /\ DOMAIN tails = 1..Len(tails)
      /\ \A i \in 1..Len(tails) : tails[i] \in Node
  BY LenProperties, ElementOfSeq
<1>3. seen \in 1..Len(tails) /\ Len(tails) >= 1 /\ pushes \in Nat
  BY <1>2, MaxPushesAssumption
<1>4. tail = tails[Len(tails)]
  BY DEF tail, Last
<1> QED BY <1>1, <1>2, <1>3, <1>4

-----------------------------------------------------------------------------
LEMMA InitHolds == Init => IInv
<1> SUFFICES ASSUME Init PROVE IInv
  OBVIOUS
<1>0. /\ Stub \in Node /\ Stub = 0 /\ MaxPushes \in Nat /\ SizeMod \in Nat /\ SizeMod >= 1
  BY MaxPushesAssumption, SizeModAssumption DEF Node, Stub
<1>1. Len(tails) = 1 /\ tails[1] = Stub /\ tails \in Seq(Node)
  BY <1>0 DEF Init
<1>2. popped = <<>> /\ ToSet(popped) = {} /\ popped \in Seq(Item)
  BY DEF Init, ToSet
<1>3. TypeOK
  BY <1>0, <1>1, <1>2 DEF Init, TypeOK, ConsumerState
<1>4. PushedOnce /\ StubsKnown /\ Deleted /\ Closing
  BY <1>0, <1>1, <1>2 DEF Init, PushedOnce, StubsKnown, Deleted, Closing
<1>5. Chain(1)
  <2>1. HeadIs(1) /\ StubOut(1)
    BY <1>0, <1>1 DEF Init, HeadIs, StubOut
  <2>2. Linked(1) /\ Linking(1)
    BY <1>0, <1>1 DEF Init, Linked, Linking
  <2>3. TakenBefore(1)
    BY <1>2 DEF TakenBefore
  <2> QED BY <2>1, <2>2, <2>3 DEF Chain
<1> QED BY <1>1, <1>3, <1>4, <1>5 DEF IInv

-----------------------------------------------------------------------------
(* The producers *)

(* No node is allocated or inserted.                                       *)
LEMMA PushedOnceKept ==
  ASSUME PushedOnce, UNCHANGED <<tails, pushes, node>>,
         \A q \in Producer :
           /\ producer'[q] # "idle" => producer[q] # "idle"
           /\ producer'[q] = "exchange" <=> producer[q] = "exchange"
           /\ producer'[q] = "exchange" => next'[node[q]] = next[node[q]]
  PROVE  PushedOnce'
<1>1. /\ \A i \in 1..Len(tails'), j \in 1..Len(tails') :
           tails'[i] = tails'[j] /\ tails'[i] # Stub => i = j
      /\ \A i \in 1..Len(tails') : tails'[i] <= pushes'
      /\ \A p \in Producer : producer'[p] # "idle" => node'[p] \in 1..pushes'
  BY DEF PushedOnce
<1>2. \A p \in Producer :
        producer'[p] = "exchange" =>
          /\ next'[node'[p]] = Null
          /\ \A i \in 1..Len(tails') : tails'[i] # node'[p]
  BY DEF PushedOnce
<1>3. \A p \in Producer, q \in Producer :
        producer'[p] # "idle" /\ producer'[q] # "idle" /\ node'[p] = node'[q] => p = q
  BY DEF PushedOnce
<1>4. \A n \in 1..pushes' : \/ \E i \in 1..Len(tails') : tails'[i] = n
                           \/ \E p \in Producer : producer'[p] = "exchange" /\ node'[p] = n
  BY DEF PushedOnce
<1> QED BY <1>1, <1>2, <1>3, <1>4 DEF PushedOnce

LEMMA ProducerKeeps ==
  ASSUME IInv, NEW p \in Producer, ProducerStep(p)
  PROVE  IInv'
<1> DEFINE L == Len(tails)
<1>0. /\ TypeOK /\ PushedOnce /\ StubsKnown /\ Deleted /\ Closing
      /\ L \in Nat /\ L >= 1 /\ \A i \in 1..L : tails[i] \in Node /\ tails[i] \in Nat
      /\ tail = tails[L] /\ pushes \in Nat /\ MaxPushes \in Nat /\ Stub = 0
      /\ Null \notin Node /\ Node \subseteq Nat /\ Item \subseteq Node /\ Stub \in Node
      /\ UNCHANGED consumerVars
      /\ producer \in [Producer -> {"idle", "exchange", "link", "count"}]
      /\ node \in [Producer -> Node] /\ prev \in [Producer -> Node]
      /\ next \in [Node -> Node \cup {Null}]
  BY Types DEF IInv, TypeOK, ProducerStep, PushBegins, PushExchanges, PushLinks, PushCounts
<1>h. PICK h \in 1..L : Chain(h)
  BY DEF IInv
<1>c. producer[p] # "idle" => mode = "open"
  <2>1. mode \in {"open", "closing", "closed"}
    BY <1>0 DEF TypeOK
  <2> QED BY <1>0, <2>1 DEF Closing
<1>d. Deleted'
  BY <1>0 DEF Deleted, consumerVars
<1>1. CASE PushBegins(p)
  <2>1. /\ producer[p] = "idle" /\ mode = "open" /\ tails' = tails /\ pushes' = pushes + 1
        /\ \A q \in Producer : /\ node'[q] = IF q = p THEN pushes + 1 ELSE node[q]
                               /\ producer'[q] = IF q = p THEN "exchange" ELSE producer[q]
        /\ prev' = prev /\ size' = size
        /\ pushes + 1 \in Item /\ pushes + 1 \in Node
        /\ \A n \in Node : next'[n] = IF n = pushes + 1 THEN Null ELSE next[n]
    BY <1>0, <1>1 DEF PushBegins, Item
  <2>2. TypeOK'
    <3>1. next' \in [Node -> Node \cup {Null}] /\ node' \in [Producer -> Node]
          /\ producer' \in [Producer -> {"idle", "exchange", "link", "count"}]
      BY <1>0, <1>1, <2>1 DEF PushBegins
    <3> QED BY <1>0, <2>1, <3>1 DEF TypeOK, consumerVars, Item
  <2>3. \A i \in 1..L : tails[i] # pushes + 1 /\ next'[tails[i]] = next[tails[i]]
    BY <1>0, <2>1 DEF PushedOnce
  <2>4. PushedOnce'
    <3>1. \A n \in 1..(pushes + 1) : n = pushes + 1 \/ n \in 1..pushes
      BY <1>0
    <3>2. \A q \in Producer : q # p /\ producer[q] # "idle" =>
            node[q] \in 1..(pushes + 1) /\ node[q] # pushes + 1 /\ next'[node[q]] = next[node[q]]
      BY <1>0, <2>1 DEF PushedOnce
    <3>3. \A i \in 1..L : tails[i] <= pushes + 1
      BY <1>0 DEF PushedOnce
    <3>4. \A q \in Producer : producer'[q] # "idle" => node'[q] \in 1..(pushes + 1)
      BY <1>0, <2>1, <3>2
    <3>5. \A q \in Producer : producer'[q] = "exchange" =>
            next'[node'[q]] = Null /\ \A i \in 1..L : tails[i] # node'[q]
      BY <1>0, <2>1, <2>3, <3>2 DEF PushedOnce
    <3>6. \A q \in Producer, r \in Producer :
            producer'[q] # "idle" /\ producer'[r] # "idle" /\ node'[q] = node'[r] => q = r
      BY <1>0, <2>1, <3>2 DEF PushedOnce
    <3>7. \A n \in 1..(pushes + 1) : \/ \E i \in 1..L : tails[i] = n
                                     \/ \E q \in Producer : producer'[q] = "exchange" /\ node'[q] = n
      <4> SUFFICES ASSUME NEW n \in 1..(pushes + 1)
                   PROVE  \/ \E i \in 1..L : tails[i] = n
                          \/ \E q \in Producer : producer'[q] = "exchange" /\ node'[q] = n
        OBVIOUS
      <4>1. CASE n = pushes + 1
        BY <2>1, <4>1
      <4>2. CASE n \in 1..pushes
        <5>1. \/ \E i \in 1..L : tails[i] = n
              \/ \E q \in Producer : producer[q] = "exchange" /\ node[q] = n
          BY <1>0, <4>2 DEF PushedOnce
        <5>2. \A q \in Producer : producer[q] = "exchange" =>
                 q # p /\ producer'[q] = "exchange" /\ node'[q] = node[q]
          BY <2>1
        <5> QED BY <5>1, <5>2
      <4> QED BY <3>1, <4>1, <4>2
    <3> QED BY <1>0, <2>1, <3>3, <3>4, <3>5, <3>6, <3>7 DEF PushedOnce
  <2>5. \A i \in 1..(L - 1) :
          /\ \A q \in Producer : ByProducer(q, i)' <=> ByProducer(q, i)
          /\ ByConsumer(i)' <=> ByConsumer(i)
    BY <1>0, <2>1 DEF ByProducer, ByConsumer, consumerVars
  <2>6. Linked(h)' /\ Linking(h)'
    <3>1. \A i \in h..(L - 1) : i \in 1..(L - 1) /\ i \in 1..L /\ i + 1 \in 1..L
      BY <1>0
    <3>2. \A q \in Producer : producer'[q] = "link" <=> producer[q] = "link"
      BY <2>1
    <3>3. Linked(h) /\ Linking(h) /\ h \in 1..L
      BY <1>h DEF Chain
    <3>4. consumer' = consumer /\ Len(tails') = L /\ tails' = tails
      BY <1>0, <2>1 DEF consumerVars
    <3>5. \A i \in h..(L - 1) : Pending(i)' <=> Pending(i)
      BY <2>5, <3>1 DEF Pending
    <3>6. Linked(h)'
      <4>1. next'[tails[L]] = Null
        BY <1>0, <2>3, <3>3 DEF Linked
      <4>2. \A i \in h..(L - 1) : next'[tails[i]] = IF Pending(i)' THEN Null ELSE tails[i + 1]
        <5>1. \A i \in h..(L - 1) : next'[tails[i]] = IF Pending(i) THEN Null ELSE tails[i + 1]
          BY <2>3, <3>1, <3>3 DEF Linked
        <5> QED BY <3>5, <5>1
      <4> QED BY <3>4, <4>1, <4>2 DEF Linked
    <3>7. Linking(h)'
      BY <2>5, <3>1, <3>2, <3>3, <3>4 DEF Linking
    <3> QED BY <3>6, <3>7
  <2>7. Chain(h)'
    <3>1. consumer = "exchange" => next'[Stub] = Null
      BY <1>0, <1>h, <2>1 DEF Chain, StubOut
    <3> QED BY <1>0, <1>h, <2>1, <2>6, <3>1 DEF Chain, HeadIs, TakenBefore, StubOut, consumerVars
  <2>8. StubsKnown' /\ Closing'
    BY <1>0, <2>1 DEF StubsKnown, Closing, consumerVars
  <2> QED BY <1>d, <2>1, <2>2, <2>4, <2>7, <2>8 DEF IInv
<1>2. CASE PushExchanges(p)
  <2> DEFINE n == node[p]
  <2>1. /\ producer[p] = "exchange" /\ mode = "open" /\ tails' = Append(tails, n)
        /\ UNCHANGED <<next, pushes, node, size>>
        /\ \A q \in Producer : /\ prev'[q] = IF q = p THEN tails[L] ELSE prev[q]
                               /\ producer'[q] = IF q = p THEN "link" ELSE producer[q]
    BY <1>0, <1>2, <1>c DEF PushExchanges
  <2>2. /\ n \in 1..pushes /\ n \in Node /\ n # Stub /\ next[n] = Null /\ n \in Nat
        /\ \A i \in 1..L : tails[i] # n
    BY <1>0, <2>1 DEF PushedOnce
  <2> HIDE DEF n
  <2>3. /\ tails' \in Seq(Node) /\ Len(tails') = L + 1 /\ tails'[L + 1] = n
        /\ \A i \in 1..L : tails'[i] = tails[i]
    <3>1. tails \in Seq(Node)
      BY <1>0 DEF TypeOK
    <3> QED BY <2>1, <2>2, <3>1, AppendProperties
  <2>a. \A i \in 1..(L + 1) : i \in 1..L \/ i = L + 1
    BY <1>0
  <2>4. TypeOK'
    <3>1. prev' \in [Producer -> Node] /\ producer' \in [Producer -> {"idle", "exchange", "link", "count"}]
      BY <1>0, <1>2 DEF PushExchanges
    <3>2. seen \in 1..(L + 1)
      BY <1>0 DEF TypeOK
    <3> QED BY <1>0, <2>1, <2>3, <3>1, <3>2 DEF TypeOK, consumerVars
  <2>5. PushedOnce'
    <3>1. \A i \in 1..(L + 1), j \in 1..(L + 1) : tails'[i] = tails'[j] /\ tails'[i] # Stub => i = j
      BY <1>0, <2>2, <2>3, <2>a DEF PushedOnce
    <3>2. \A i \in 1..(L + 1) : tails'[i] <= pushes
      BY <1>0, <2>2, <2>3, <2>a DEF PushedOnce
    <3>3. \A q \in Producer : producer'[q] = "exchange" =>
            q # p /\ producer[q] = "exchange" /\ node[q] # n
      BY <1>0, <2>1 DEF PushedOnce, n
    <3>4. \A q \in Producer : producer'[q] = "exchange" =>
            /\ next[node[q]] = Null
            /\ \A i \in 1..(L + 1) : tails'[i] # node[q]
      BY <1>0, <2>3, <2>a, <3>3 DEF PushedOnce
    <3>5. \A q \in Producer : producer'[q] # "idle" <=> producer[q] # "idle"
      BY <2>1
    <3>6. \A m \in 1..pushes : \/ \E i \in 1..(L + 1) : tails'[i] = m
                               \/ \E q \in Producer : producer'[q] = "exchange" /\ node[q] = m
      <4> SUFFICES ASSUME NEW m \in 1..pushes,
                          \A q \in Producer : ~(producer'[q] = "exchange" /\ node[q] = m)
                   PROVE  \E i \in 1..(L + 1) : tails'[i] = m
        OBVIOUS
      <4>1. CASE m = n
        BY <1>0, <2>3, <4>1, L + 1 \in 1..(L + 1)
      <4>2. CASE m # n
        <5>1. PICK i \in 1..L : tails[i] = m
          BY <1>0, <2>1, <4>2 DEF PushedOnce, n
        <5> QED BY <1>0, <2>3, <5>1, i \in 1..(L + 1)
      <4> QED BY <4>1, <4>2
    <3>7. \A q \in Producer : producer'[q] # "idle" => node[q] \in 1..pushes
      BY <1>0, <3>5 DEF PushedOnce
    <3>8. \A q \in Producer, r \in Producer :
            producer'[q] # "idle" /\ producer'[r] # "idle" /\ node[q] = node[r] => q = r
      BY <1>0, <3>5 DEF PushedOnce
    <3>9. Len(tails') = L + 1 /\ next' = next /\ pushes' = pushes /\ node' = node
      BY <2>1, <2>3
    <3> QED BY <3>1, <3>2, <3>4, <3>6, <3>7, <3>8, <3>9 DEF PushedOnce
  <2>6. StubsKnown' /\ Closing'
    BY <1>0, <2>1, <2>2, <2>3, <2>a DEF StubsKnown, Closing, consumerVars
  <2>7. HeadIs(h)' /\ TakenBefore(h)' /\ StubOut(h)'
    <3>1. \A i \in h..(L + 1) : i \in h..L \/ i = L + 1
      BY <1>0
    <3>2. \A i \in h..L : i \in 1..L
      BY <1>0
    <3>3. h \in 1..(L + 1) /\ h \in 1..L /\ \A i \in 1..(h - 1) : i \in 1..L
      BY <1>0
    <3>4. HeadIs(h)'
      BY <1>0, <1>h, <2>2, <2>3, <3>1, <3>2, <3>3 DEF Chain, HeadIs, consumerVars
    <3>5. TakenBefore(h)'
      BY <1>0, <1>h, <2>3, <3>3 DEF Chain, TakenBefore, consumerVars
    <3>6. StubOut(h)'
      BY <1>0, <1>h, <2>1, <2>2, <2>3, <3>1, <3>2 DEF Chain, StubOut, consumerVars
    <3> QED BY <3>4, <3>5, <3>6
  <2>8. \A i \in 1..(L - 1) :
          /\ \A q \in Producer : ByProducer(q, i)' <=> ByProducer(q, i)
          /\ ByConsumer(i)' <=> ByConsumer(i)
    <3> SUFFICES ASSUME NEW i \in 1..(L - 1)
                 PROVE  /\ \A q \in Producer : ByProducer(q, i)' <=> ByProducer(q, i)
                        /\ ByConsumer(i)' <=> ByConsumer(i)
      OBVIOUS
    <3>1. i \in 1..L /\ i + 1 \in 1..L
      BY <1>0
    <3>2. tails'[i] = tails[i] /\ tails'[i + 1] = tails[i + 1] /\ tails[i + 1] # node[p]
      BY <2>2, <2>3, <3>1 DEF n
    <3> QED BY <1>0, <2>1, <3>2 DEF ByProducer, ByConsumer, consumerVars
  <2>d. PICK k \in Nat : k = L
    BY <1>0
  <2>9. ByProducer(p, k)' /\ k \in h..L
    <3>1. k \in h..L /\ k \in 1..L
      BY <1>0, <2>d
    <3>2. prev'[p] = tails'[k] /\ producer'[p] = "link" /\ node'[p] = tails'[k + 1]
      BY <2>1, <2>3, <2>d, <3>1 DEF n
    <3> QED BY <3>1, <3>2 DEF ByProducer
  <2>b. \A i \in h..L : i \in 1..L /\ (i = L \/ (i \in h..(L - 1) /\ i \in 1..(L - 1)))
    BY <1>0
  <2>10. Linked(h)'
    <3>1. \A i \in h..L : next[tails'[i]] = IF Pending(i)' THEN Null ELSE tails'[i + 1]
      <4>1. ASSUME NEW i \in h..L, i = L
            PROVE  next[tails'[i]] = IF Pending(i)' THEN Null ELSE tails'[i + 1]
        <5>1. Pending(i)' /\ tails'[i] = tails[L]
          BY <2>3, <2>9, <2>b, <2>d, <4>1 DEF Pending
        <5> QED BY <1>h, <5>1 DEF Chain, Linked
      <4>2. ASSUME NEW i \in h..L, i # L
            PROVE  next[tails'[i]] = IF Pending(i)' THEN Null ELSE tails'[i + 1]
        <5>1. i \in h..(L - 1) /\ i \in 1..(L - 1) /\ i \in 1..L /\ i + 1 \in 1..L
          BY <1>0, <2>b, <4>2
        <5>2. Pending(i)' <=> Pending(i)
          BY <2>8, <5>1 DEF Pending
        <5> QED BY <1>h, <2>3, <5>1, <5>2 DEF Chain, Linked
      <4> QED BY <4>1, <4>2
    <3>2. L = (L + 1) - 1
      BY <1>0
    <3> QED BY <2>1, <2>2, <2>3, <3>1, <3>2 DEF Linked
  <2>11. Linking(h)'
    <3>1. \A i \in h..(L - 1) : i \in h..L /\ i \in 1..(L - 1)
      BY <1>0
    <3>2. L = (L + 1) - 1
      BY <1>0
    <3>3. \A q \in Producer : producer'[q] = "link" => \E i \in h..L : ByProducer(q, i)'
      <4>1. ASSUME NEW q \in Producer, q # p, producer'[q] = "link"
            PROVE  \E i \in h..L : ByProducer(q, i)'
        <5>1. PICK i \in h..(L - 1) : ByProducer(q, i)
          BY <1>h, <2>1, <4>1 DEF Chain, Linking
        <5> QED BY <2>8, <3>1, <5>1
      <4> QED BY <2>9, <4>1
    <3>4. consumer' = "link" => \E i \in h..L : ByConsumer(i)'
      BY <1>0, <1>h, <2>8, <3>1 DEF Chain, Linking, consumerVars
    <3> QED BY <2>3, <3>2, <3>3, <3>4 DEF Linking
  <2>12. Chain(h)' /\ h \in 1..Len(tails')
    BY <1>0, <2>3, <2>7, <2>10, <2>11 DEF Chain
  <2> QED BY <1>d, <2>4, <2>5, <2>6, <2>12 DEF IInv
<1>3. CASE PushLinks(p)
  <2>1. /\ producer[p] = "link" /\ mode = "open" /\ UNCHANGED <<tails, pushes, node, prev, size>>
        /\ \A m \in Node : next'[m] = IF m = prev[p] THEN node[p] ELSE next[m]
        /\ \A q \in Producer : producer'[q] = IF q = p THEN "count" ELSE producer[q]
    BY <1>0, <1>3, <1>c DEF PushLinks, Link
  <2>2. PICK k \in h..(L - 1) : ByProducer(p, k)
    BY <1>h, <2>1 DEF Chain, Linking
  <2>3. /\ prev[p] = tails[k] /\ node[p] = tails[k + 1] /\ node[p] # Stub
        /\ k \in 1..L /\ k + 1 \in 1..L /\ k + 1 \in h..L /\ k \in h..L
    BY <1>0, <2>1, <2>2 DEF ByProducer, PushedOnce
  <2>4. TypeOK'
    <3>1. next' \in [Node -> Node \cup {Null}]
          /\ producer' \in [Producer -> {"idle", "exchange", "link", "count"}]
      BY <1>0, <1>3 DEF PushLinks, Link
    <3> QED BY <1>0, <2>1, <3>1 DEF TypeOK, consumerVars
  <2>5. PushedOnce'
    <3>1. \A q \in Producer : producer'[q] = "exchange" =>
            producer[q] = "exchange" /\ next'[node[q]] = next[node[q]]
      BY <1>0, <2>1, <2>3 DEF PushedOnce
    <3>2. \A q \in Producer : /\ producer'[q] # "idle" <=> producer[q] # "idle"
                              /\ producer'[q] = "exchange" <=> producer[q] = "exchange"
      BY <2>1
    <3> QED BY <1>0, <2>1, <3>1, <3>2, PushedOnceKept
  <2>6. StubsKnown' /\ Closing'
    BY <1>0, <2>1 DEF StubsKnown, Closing, consumerVars
  <2>7. \A i \in h..L : i # k => tails[i] # tails[k] /\ next'[tails[i]] = next[tails[i]]
    <3>1. \A i \in h..L : i \in 1..L
      BY <1>0
    <3> QED BY <1>0, <1>h, <2>1, <2>3, <3>1 DEF Chain, HeadIs
  <2>8. \A i \in h..(L - 1) : i # k =>
          /\ \A q \in Producer : ByProducer(q, i)' <=> ByProducer(q, i)
          /\ ByConsumer(i)' <=> ByConsumer(i)
    <3> SUFFICES ASSUME NEW i \in h..(L - 1), i # k
                 PROVE  /\ \A q \in Producer : ByProducer(q, i)' <=> ByProducer(q, i)
                        /\ ByConsumer(i)' <=> ByConsumer(i)
      OBVIOUS
    <3>1. i + 1 \in h..L /\ i + 1 # k + 1
      BY <1>0
    <3>2. tails[i + 1] # node[p]
      BY <1>h, <2>3, <3>1 DEF Chain, HeadIs
    <3> QED BY <1>0, <2>1, <3>2 DEF ByProducer, ByConsumer, consumerVars
  <2>9. ~Pending(k)'
    <3>1. ~ByConsumer(k)'
      BY <2>1, <2>3 DEF ByConsumer
    <3>2. ASSUME NEW q \in Producer, ByProducer(q, k)' PROVE FALSE
      <4>1. q # p /\ producer[q] = "link" /\ node[q] = node[p]
        BY <2>1, <2>3, <3>2 DEF ByProducer
      <4> QED BY <1>0, <2>1, <4>1 DEF PushedOnce
    <3> QED BY <3>1, <3>2 DEF Pending
  <2>10. Linked(h)'
    <3>1. next'[tails[L]] = Null
      <4>1. L \in h..L /\ L # k
        BY <1>0
      <4> QED BY <1>h, <2>7, <4>1 DEF Chain, Linked
    <3>2. next'[tails[k]] = tails[k + 1]
      BY <1>0, <2>1, <2>3
    <3>3. ASSUME NEW i \in h..(L - 1), i # k
          PROVE  next'[tails[i]] = IF Pending(i)' THEN Null ELSE tails[i + 1]
      <4>1. i \in h..L /\ (Pending(i)' <=> Pending(i))
        BY <1>0, <2>8, <3>3 DEF Pending
      <4> QED BY <1>h, <2>7, <3>3, <4>1 DEF Chain, Linked
    <3> QED BY <2>1, <2>9, <3>1, <3>2, <3>3 DEF Linked
  <2>11. Linking(h)'
    <3>1. ASSUME NEW q \in Producer, producer'[q] = "link"
          PROVE  \E i \in h..(L - 1) : ByProducer(q, i)'
      <4>1. q # p /\ producer[q] = "link"
        BY <2>1, <3>1
      <4>2. PICK i \in h..(L - 1) : ByProducer(q, i)
        BY <1>h, <4>1 DEF Chain, Linking
      <4> QED BY <2>1, <4>1, <4>2 DEF ByProducer
    <3>2. ASSUME consumer' = "link" PROVE \E i \in h..(L - 1) : ByConsumer(i)'
      BY <1>0, <1>h, <2>1, <3>2 DEF Chain, Linking, ByConsumer, consumerVars
    <3> QED BY <2>1, <3>1, <3>2 DEF Linking
  <2>12. Chain(h)'
    <3>1. consumer = "exchange" => next'[Stub] = Null
      BY <1>0, <1>h, <2>1, <2>3 DEF Chain, StubOut
    <3> QED BY <1>0, <1>h, <2>1, <2>10, <2>11, <3>1
            DEF Chain, HeadIs, TakenBefore, StubOut, consumerVars
  <2> QED BY <1>d, <2>1, <2>4, <2>5, <2>6, <2>12 DEF IInv
<1>4. CASE PushCounts(p)
  <2>1. /\ producer[p] = "count" /\ mode = "open" /\ UNCHANGED <<next, tails, pushes, node, prev>>
        /\ \A q \in Producer : producer'[q] = IF q = p THEN "idle" ELSE producer[q]
        /\ size' = (size + 1) % SizeMod
    BY <1>0, <1>4, <1>c DEF PushCounts, SizePlus
  <2>2. TypeOK'
    <3>1. size + 1 \in Int /\ SizeMod \in Nat /\ SizeMod > 0
      BY <1>0, SizeModAssumption DEF TypeOK
    <3>2. size' \in 0..(SizeMod - 1)
      BY <2>1, <3>1, Remainder
    <3>3. producer' \in [Producer -> {"idle", "exchange", "link", "count"}]
      BY <1>0, <1>4 DEF PushCounts
    <3> QED BY <1>0, <2>1, <3>2, <3>3 DEF TypeOK, consumerVars
  <2>3. PushedOnce'
    <3>1. \A q \in Producer : /\ producer'[q] # "idle" => producer[q] # "idle"
                              /\ producer'[q] = "exchange" <=> producer[q] = "exchange"
      BY <2>1
    <3> QED BY <1>0, <2>1, <3>1, PushedOnceKept
  <2>4. StubsKnown' /\ Closing'
    BY <1>0, <2>1 DEF StubsKnown, Closing, consumerVars
  <2>5. \A i \in h..(L - 1) :
          /\ \A q \in Producer : ByProducer(q, i)' <=> ByProducer(q, i)
          /\ ByConsumer(i)' <=> ByConsumer(i)
    BY <1>0, <2>1 DEF ByProducer, ByConsumer, consumerVars
  <2>6. Linked(h)' /\ Linking(h)'
    <3>1. \A q \in Producer : producer'[q] = "link" <=> producer[q] = "link"
      BY <2>1
    <3> QED BY <1>0, <1>h, <2>1, <2>5, <3>1 DEF Chain, Linked, Linking, Pending, consumerVars
  <2>7. Chain(h)'
    BY <1>0, <1>h, <2>1, <2>6 DEF Chain, HeadIs, TakenBefore, StubOut, consumerVars
  <2> QED BY <1>d, <2>1, <2>2, <2>3, <2>4, <2>7 DEF IInv
<1> QED BY <1>1, <1>2, <1>3, <1>4 DEF ProducerStep

-----------------------------------------------------------------------------
(* The consumer *)

LEMMA HeadNext ==
  ASSUME TypeOK, NEW h \in 1..Len(tails), Chain(h), consumer # "link"
  PROVE  /\ head = tails[h] /\ h \in Nat
         /\ next[head] # Null =>
              h + 1 \in 1..Len(tails) /\ next[head] = tails[h + 1] /\ ~Pending(h)
         /\ next[head] = Null /\ (\A p \in Producer : producer[p] # "link") => h = Len(tails)
<1>0. /\ Len(tails) \in Nat /\ head = tails[h] /\ Null \notin Node
      /\ \A i \in 1..Len(tails) : tails[i] \in Node
  BY Types DEF Chain, HeadIs
<1>1. CASE h = Len(tails)
  BY <1>0, <1>1 DEF Chain, Linked
<1>2. CASE h # Len(tails)
  <2>1. h \in h..(Len(tails) - 1) /\ h + 1 \in 1..Len(tails)
    BY <1>0, <1>2
  <2>2. next[head] = IF Pending(h) THEN Null ELSE tails[h + 1]
    BY <1>0, <2>1 DEF Chain, Linked
  <2>3. (\A p \in Producer : producer[p] # "link") => ~Pending(h)
    BY DEF Pending, ByConsumer, ByProducer
  <2> QED BY <1>0, <2>1, <2>2, <2>3
<1> QED BY <1>1, <1>2

(* What the consumer knows of m_tail only grows, and it knows of stubs. *)
LEMMA KnownGrows ==
  ASSUME TypeOK, NEW h \in 1..Len(tails), Chain(h), consumer # "link"
  PROVE  Known(next[head]) \in seen..Len(tails)
<1>0. seen \in 1..Len(tails) /\ Len(tails) \in Nat /\ DOMAIN tails = 1..Len(tails)
      /\ tails \in Seq(Node)
  BY Types DEF TypeOK
<1>1. CASE next[head] \in Item /\ next[head] \notin ToSet(SubSeq(tails, 1, seen))
  <2>1. \E i \in DOMAIN tails : tails[i] = next[head]
    <3>1. next[head] # Null
      BY <1>1, NullAssumption DEF Item
    <3>2. h + 1 \in 1..Len(tails) /\ tails[h + 1] = next[head]
      BY <3>1, HeadNext
    <3> QED BY <1>0, <3>2
  <2>2. PICK i \in DOMAIN tails :
          tails[i] = next[head] /\ i = CHOOSE j \in DOMAIN tails : tails[j] = next[head]
    BY <2>1
  <2>3. Known(next[head]) = i
    BY <1>1, <2>2 DEF Known
  <2>4. /\ DOMAIN SubSeq(tails, 1, seen) = 1..seen
        /\ \A j \in 1..seen : SubSeq(tails, 1, seen)[j] = tails[j]
    <3>1. /\ SubSeq(tails, 1, seen) \in Seq(Node)
          /\ Len(SubSeq(tails, 1, seen)) = IF 1 <= seen THEN seen - 1 + 1 ELSE 0
          /\ \A j \in 1..(seen - 1 + 1) : SubSeq(tails, 1, seen)[j] = tails[1 + j - 1]
      <4>1. 1 \in 1..(Len(tails) + 1) /\ seen \in 0..Len(tails)
        BY <1>0
      <4> QED BY <1>0, <4>1, SubSeqProperties
    <3>2. seen - 1 + 1 = seen /\ 1 <= seen /\ \A j \in 1..seen : 1 + j - 1 = j
      BY <1>0
    <3> QED BY <3>1, <3>2, LenProperties
  <2>5. ~(i \in 1..seen)
    BY <1>1, <2>2, <2>4 DEF ToSet
  <2> QED BY <1>0, <2>2, <2>3, <2>5
<1>2. CASE ~(next[head] \in Item /\ next[head] \notin ToSet(SubSeq(tails, 1, seen)))
  BY <1>0, <1>2 DEF Known
<1> QED BY <1>1, <1>2

(* Steps that change nothing the producers share *)
LEMMA LookKeeps ==
  ASSUME TypeOK, PushedOnce, StubsKnown, UNCHANGED <<next, tails, producerVars>>,
         seen' \in seen..Len(tails)
  PROVE  PushedOnce' /\ StubsKnown' /\ seen' \in 1..Len(tails')
<1>1. seen \in 1..Len(tails) /\ Len(tails) \in Nat
  BY Types
<1>2. PushedOnce'
  BY DEF PushedOnce, producerVars
<1>3. StubsKnown'
  BY <1>1 DEF StubsKnown
<1> QED BY <1>1, <1>2, <1>3

LEMMA HeadStays ==
  ASSUME NEW h \in 1..Len(tails), Chain(h), consumer # "link", consumer' \notin {"link", "exchange"},
         UNCHANGED <<next, tails, cprev, head, producerVars>>, ToSet(popped') = ToSet(popped),
         consumer' = "stub" => \A i \in h..Len(tails) : tails[i] # Stub
  PROVE  h \in 1..Len(tails') /\ Chain(h)'
<1>1. /\ \A p \in Producer, i \in h..(Len(tails) - 1) : ByProducer(p, i)' <=> ByProducer(p, i)
      /\ \A i \in h..(Len(tails) - 1) : ByConsumer(i)' <=> ByConsumer(i)
  BY DEF ByProducer, ByConsumer, producerVars
<1>2. Linked(h)' /\ Linking(h)'
  BY <1>1 DEF Chain, Linked, Linking, Pending, producerVars
<1>3. HeadIs(h)' /\ TakenBefore(h)' /\ StubOut(h)'
  BY DEF Chain, HeadIs, TakenBefore, StubOut
<1> QED BY <1>2, <1>3 DEF Chain

LEMMA HeadMoves ==
  ASSUME TypeOK, NEW h \in 1..Len(tails), Chain(h), consumer # "link", next[head] # Null,
         consumer' \notin {"link", "stub", "exchange"},
         UNCHANGED <<next, tails, cprev, producerVars>>,
         head' = next[head], ToSet(popped') = (ToSet(popped) \cup {head}) \ {Stub}
  PROVE  h + 1 \in 1..Len(tails') /\ Chain(h + 1)'
<1>0. /\ h + 1 \in 1..Len(tails) /\ next[head] = tails[h + 1] /\ ~Pending(h) /\ head = tails[h]
      /\ h \in Nat /\ Len(tails) \in Nat
  BY HeadNext, Types
<1>1. /\ \A p \in Producer, i \in h..(Len(tails) - 1) : ByProducer(p, i)' <=> ByProducer(p, i)
      /\ \A i \in h..(Len(tails) - 1) : ByConsumer(i)' <=> ByConsumer(i)
  BY DEF ByProducer, ByConsumer, producerVars
<1>2. /\ \A i \in (h + 1)..(Len(tails) - 1) : i \in h..(Len(tails) - 1)
      /\ \A i \in h..(Len(tails) - 1) : i = h \/ i \in (h + 1)..(Len(tails) - 1)
      /\ \A i \in (h + 1)..Len(tails) : i \in h..Len(tails)
  BY <1>0
<1>3. Linked(h + 1)'
  BY <1>1, <1>2 DEF Chain, Linked, Pending, producerVars
<1>4. Linking(h + 1)'
  <2>1. ASSUME NEW p \in Producer, producer'[p] = "link"
        PROVE  \E i \in (h + 1)..(Len(tails) - 1) : ByProducer(p, i)'
    <3>1. PICK i \in h..(Len(tails) - 1) : ByProducer(p, i)
      BY <2>1 DEF Chain, Linking, producerVars
    <3> QED BY <1>0, <1>1, <1>2, <3>1 DEF Pending
  <2> QED BY <2>1 DEF Linking
<1>5. HeadIs(h + 1)'
  BY <1>0, <1>2 DEF Chain, HeadIs
<1>6. TakenBefore(h + 1)'
  <2>1. (h + 1) - 1 = h /\ \A i \in 1..h : i = h \/ i \in 1..(h - 1)
    BY <1>0
  <2>2. h \in 1..h /\ \A i \in 1..(h - 1) : i \in 1..h
    BY <1>0
  <2>3. {tails[i] : i \in 1..h} = {tails[i] : i \in 1..(h - 1)} \cup {head}
    BY <1>0, <2>1, <2>2
  <2>4. ToSet(popped) = {tails[i] : i \in 1..(h - 1)} \ {Stub}
    BY DEF Chain, TakenBefore
  <2>5. ToSet(popped') = {tails[i] : i \in 1..h} \ {Stub} /\ tails' = tails
    BY <2>3, <2>4
  <2> QED BY <2>1, <2>5 DEF TakenBefore
<1>7. StubOut(h + 1)'
  BY DEF StubOut
<1> QED BY <1>0, <1>3, <1>4, <1>5, <1>6, <1>7 DEF Chain

(* Pop takes a node that has a successor. *)
LEMMA TakeKeeps ==
  ASSUME IInv, consumer \in {"load", "load2", "load3"}, head # Stub, next[head] # Null,
         TakeHead(next[head]), seen' \in seen..Len(tails),
         UNCHANGED <<next, tails, size, cprev, freed, producerVars>>
  PROVE  IInv'
<1>0. /\ TypeOK /\ PushedOnce /\ StubsKnown /\ Deleted /\ Closing
      /\ head' = next[head] /\ popped' = Append(popped, head) /\ consumer' = "count"
      /\ mode' = mode
  BY DEF IInv, TakeHead
<1>1. PICK h \in 1..Len(tails) : Chain(h)
  BY DEF IInv
<1>2. /\ head \in Item /\ popped \in Seq(Item) /\ next[head] \in Node
      /\ freed \in SUBSET ToSet(popped)
  BY <1>0, Types DEF TypeOK, Node
<1>3. /\ popped' \in Seq(Item) /\ popped' # <<>> /\ Last(popped') = head
      /\ ToSet(popped') = ToSet(popped) \cup {head}
  BY <1>0, <1>2, ToSetAppend
<1>4. Stub \notin ToSet(popped) /\ ToSet(popped') = (ToSet(popped) \cup {head}) \ {Stub}
  BY <1>1, <1>3 DEF Chain, TakenBefore
<1>5. PushedOnce' /\ StubsKnown' /\ seen' \in 1..Len(tails')
  BY <1>0, LookKeeps
<1>6. TypeOK'
  BY <1>0, <1>2, <1>3, <1>5 DEF TypeOK, ConsumerState, producerVars
<1>7. Deleted'
  BY <1>0, <1>3 DEF Deleted
<1>8. Closing'
  <2>1. mode = "closing" => seen = Len(tails) /\ seen' = Len(tails)
    BY <1>0, Types DEF Closing
  <2> QED BY <1>0, <2>1 DEF Closing, producerVars
<1>9. h + 1 \in 1..Len(tails') /\ Chain(h + 1)'
  BY <1>0, <1>1, <1>4, HeadMoves
<1> QED BY <1>5, <1>6, <1>7, <1>8, <1>9 DEF IInv

(* Pop goes on, or returns, without taking a node. *)
LEMMA LeaveKeeps ==
  ASSUME IInv, consumer \notin {"link", "count", "free"},
         consumer' \in {"idle", "load", "tail", "stub"},
         UNCHANGED <<next, tails, size, cprev, head, popped, freed, producerVars>>,
         seen' \in seen..Len(tails), mode' \in {"open", "closing", "closed"},
         Closing', consumer' \in {"tail", "stub"} => head # Stub,
         consumer' = "stub" => tails[seen'] = head
  PROVE  IInv'
<1>0. /\ TypeOK /\ PushedOnce /\ StubsKnown /\ Deleted
      /\ Len(tails) \in Nat /\ seen \in 1..Len(tails)
  BY Types DEF IInv
<1>1. PICK h \in 1..Len(tails) : Chain(h)
  BY DEF IInv
<1>2. PushedOnce' /\ StubsKnown' /\ seen' \in 1..Len(tails')
  BY <1>0, LookKeeps
<1>3. TypeOK'
  BY <1>0, <1>2 DEF TypeOK, ConsumerState, producerVars
<1>4. Deleted'
  BY <1>0 DEF Deleted
<1>5. ASSUME consumer' = "stub", NEW i \in h..Len(tails), tails[i] = Stub PROVE FALSE
  <2>1. tails[h] = head /\ head # Stub /\ tails[seen'] = head
    BY <1>1, <1>5 DEF Chain, HeadIs
  <2>2. h = seen'
    BY <1>0, <1>2, <2>1 DEF PushedOnce
  <2>3. i \in 1..Len(tails) /\ i <= seen
    BY <1>0, <1>5 DEF StubsKnown
  <2>4. i = h
    BY <1>0, <2>2, <2>3
  <2> QED BY <1>5, <2>1, <2>4
<1>6. h \in 1..Len(tails') /\ Chain(h)'
  BY <1>1, <1>5, HeadStays
<1> QED BY <1>2, <1>3, <1>4, <1>6 DEF IInv

LEMMA ConsumerKeeps == IInv /\ (PopBegins \/ BeginDestroy \/ ConsumerStep) => IInv'
<1> SUFFICES ASSUME IInv, PopBegins \/ BeginDestroy \/ ConsumerStep PROVE IInv'
  OBVIOUS
<1> DEFINE L == Len(tails)
<1>0. /\ TypeOK /\ PushedOnce /\ StubsKnown /\ Deleted /\ Closing
      /\ L \in Nat /\ L >= 1 /\ seen \in 1..L /\ seen \in seen..L /\ L \in seen..L
      /\ \A i \in 1..L : tails[i] \in Node /\ tails[i] \in Nat
      /\ tail = tails[L] /\ Stub = 0 /\ Stub \in Node /\ Node \subseteq Nat
      /\ head \in Node /\ Null \notin Node
      /\ mode \in {"open", "closing", "closed"}
      /\ UNCHANGED producerVars
  <2>1. UNCHANGED producerVars
    BY DEF PopBegins, BeginDestroy, ConsumerStep, PopLoads, PopLoadsAgain, PopLoadsTail, PopClearsStub,
           PopExchanges, PopLinks, PopLoadsLast, PopCounts, PopFrees
  <2>2. TypeOK /\ PushedOnce /\ StubsKnown /\ Deleted /\ Closing
    BY DEF IInv
  <2>3. mode \in {"open", "closing", "closed"}
    BY <2>2 DEF TypeOK
  <2>4. L \in Nat /\ L >= 1 /\ seen \in 1..L /\ seen \in seen..L /\ L \in seen..L
    BY <2>2, Types
  <2> QED BY <2>1, <2>2, <2>3, <2>4, Types
<1>h. PICK h \in 1..L : Chain(h)
  BY DEF IInv
<1>i. mode = "closing" => \A p \in Producer : producer[p] # "link" /\ producer[p] # "exchange"
  BY <1>0 DEF Closing
<1>c. consumer # "idle" => mode # "closed"
  BY <1>0 DEF Closing
<1>1. CASE PopBegins
  <2>1. Closing'
    BY <1>0, <1>1 DEF PopBegins, Closing, producerVars
  <2> QED BY <1>0, <1>1, <2>1, LeaveKeeps DEF PopBegins
<1>2. CASE BeginDestroy
  <2>1. Closing'
    BY <1>0, <1>2 DEF BeginDestroy, Closing, producerVars
  <2> QED BY <1>0, <1>2, <2>1, LeaveKeeps DEF BeginDestroy
<1>3. CASE PopLoads
  <2>1. /\ consumer = "load" /\ seen' = Known(next[head]) /\ seen' \in seen..L
        /\ UNCHANGED <<next, tails, size, cprev, freed, producerVars>>
    BY <1>0, <1>h, <1>3, KnownGrows DEF PopLoads
  <2>s. mode = "closing" => seen' = L
    BY <1>0, <2>1 DEF Closing
  <2>2. CASE head = Stub /\ next[head] = Null /\ SayEmpty
    <3>1. consumer' = "idle" /\ mode' = (IF mode = "closing" THEN "closed" ELSE mode)
          /\ UNCHANGED <<head, popped>>
      BY <2>2 DEF SayEmpty
    <3>2. ASSUME mode = "closing" PROVE freed = 1..pushes
      <4>1. h = L /\ tails[L] = Stub
        BY <1>0, <1>h, <1>i, <2>1, <2>2, <3>2, HeadNext
      <4>2. freed = {tails[i] : i \in 1..(L - 1)} \ {Stub}
        BY <1>0, <1>h, <2>1, <4>1 DEF Deleted, Chain, TakenBefore
      <4>3. \A n \in 1..pushes : n # Stub /\ \E i \in 1..L : tails[i] = n
        BY <1>0, <1>i, <3>2 DEF PushedOnce
      <4>4. \A i \in 1..L : i = L \/ i \in 1..(L - 1)
        BY <1>0
      <4>5. \A n \in 1..pushes : n \in freed
        BY <4>1, <4>2, <4>3, <4>4
      <4>6. \A i \in 1..(L - 1) : tails[i] # Stub => tails[i] \in 1..pushes
        BY <1>0, Types DEF PushedOnce
      <4> QED BY <4>2, <4>5, <4>6
    <3>3. Closing'
      BY <1>0, <1>c, <2>1, <3>1, <3>2 DEF Closing, producerVars
    <3> QED BY <1>0, <2>1, <3>1, <3>3, LeaveKeeps
  <2>3. CASE head = Stub /\ next[head] # Null /\ head' = next[head] /\ consumer' = "load2"
             /\ UNCHANGED <<popped, mode>>
    <3>1. h + 1 \in 1..L /\ next[head] = tails[h + 1] /\ head = tails[h] /\ h \in Nat
      BY <1>0, <1>h, <2>1, <2>3, HeadNext
    <3>2. head' # Stub /\ head' \in Node
      <4>1. h \in h..L /\ h + 1 \in h..L /\ h # h + 1
        BY <1>0, <3>1
      <4> QED BY <1>0, <1>h, <2>3, <3>1, <4>1 DEF Chain, HeadIs
    <3>3. ToSet(popped') = (ToSet(popped) \cup {head}) \ {Stub}
      BY <1>h, <2>3 DEF Chain, TakenBefore
    <3>4. h + 1 \in 1..Len(tails') /\ Chain(h + 1)'
      BY <1>0, <1>h, <2>1, <2>3, <3>3, HeadMoves
    <3>5. PushedOnce' /\ StubsKnown' /\ seen' \in 1..Len(tails')
      BY <1>0, <2>1, LookKeeps
    <3>6. TypeOK'
      BY <1>0, <2>1, <2>3, <3>2, <3>5 DEF TypeOK, ConsumerState, producerVars
    <3>7. Deleted' /\ Closing'
      BY <1>0, <2>1, <2>s, <2>3, <3>2 DEF Deleted, Closing, producerVars
    <3> QED BY <3>4, <3>5, <3>6, <3>7 DEF IInv
  <2>4. CASE head # Stub /\ TakeOrLoadTail
    <3>1. CASE next[head] # Null /\ TakeHead(next[head])
      BY <2>1, <2>4, <3>1, TakeKeeps
    <3>2. CASE next[head] = Null /\ consumer' = "tail" /\ UNCHANGED <<head, popped, mode>>
      <4>1. Closing'
        BY <1>0, <2>1, <2>s, <3>2 DEF Closing, producerVars
      <4> QED BY <1>0, <2>1, <2>4, <3>2, <4>1, LeaveKeeps
    <3> QED BY <2>4, <3>1, <3>2 DEF TakeOrLoadTail
  <2> QED BY <1>3, <2>2, <2>3, <2>4 DEF PopLoads
<1>4. CASE PopLoadsAgain
  <2>1. /\ consumer = "load2" /\ seen' = Known(next[head]) /\ seen' \in seen..L
        /\ UNCHANGED <<next, tails, size, cprev, freed, producerVars>> /\ head # Stub
    BY <1>0, <1>h, <1>4, KnownGrows DEF PopLoadsAgain, Deleted
  <2>2. CASE next[head] # Null /\ TakeHead(next[head])
    BY <2>1, <2>2, TakeKeeps
  <2>3. CASE next[head] = Null /\ consumer' = "tail" /\ UNCHANGED <<head, popped, mode>>
    <3>1. mode = "closing" => seen' = L
      BY <1>0, <2>1 DEF Closing
    <3>2. Closing'
      BY <1>0, <2>1, <2>3, <3>1 DEF Closing, producerVars
    <3> QED BY <1>0, <2>1, <2>3, <3>2, LeaveKeeps
  <2> QED BY <1>4, <2>2, <2>3 DEF PopLoadsAgain, TakeOrLoadTail
<1>5. CASE PopLoadsTail
  <2>1. PICK i \in seen..L : seen' = i /\ IF head = tails[i] THEN InsertStub ELSE SayInserting
    BY <1>5 DEF PopLoadsTail
  <2>2. consumer = "tail" /\ UNCHANGED <<next, tails, size, cprev, freed, producerVars>>
        /\ head # Stub
    BY <1>0, <1>5 DEF PopLoadsTail, Deleted
  <2>3. mode = "closing" => i = L /\ head = tails[i]
    BY <1>0, <1>h, <1>i, <2>1, <2>2, HeadNext DEF Closing
  <2>4. CASE head = tails[i] /\ InsertStub
    <3>1. Closing'
      BY <1>0, <2>1, <2>2, <2>3, <2>4 DEF Closing, InsertStub, producerVars
    <3> QED BY <1>0, <2>1, <2>2, <2>4, <3>1, LeaveKeeps DEF InsertStub
  <2>5. CASE head # tails[i] /\ SayInserting
    <3>1. consumer' = "load" /\ UNCHANGED <<mode, head, popped>>
      BY <1>0, <2>3, <2>5 DEF SayInserting
    <3>2. Closing'
      BY <1>0, <2>1, <2>2, <2>3, <3>1 DEF Closing, producerVars
    <3> QED BY <1>0, <2>1, <2>2, <3>1, <3>2, LeaveKeeps
  <2> QED BY <2>1, <2>4, <2>5
<1>6. CASE PopClearsStub
  <2>1. /\ consumer = "stub" /\ consumer' = "exchange"
        /\ UNCHANGED <<tails, size, seen, head, cprev, popped, freed, mode, producerVars>>
        /\ \A n \in Node : next'[n] = IF n = Stub THEN Null ELSE next[n]
    BY <1>0, <1>6 DEF PopClearsStub, TypeOK
  <2>2. \A i \in h..L : i \in 1..L /\ tails[i] # Stub /\ next'[tails[i]] = next[tails[i]]
    BY <1>0, <1>h, <2>1 DEF Chain, StubOut
  <2>3. TypeOK'
    BY <1>0, <1>6 DEF TypeOK, PopClearsStub, ConsumerState, producerVars
  <2>4. PushedOnce'
    <3>1. \A p \in Producer : producer[p] # "idle" => node[p] \in 1..pushes
      BY <1>0 DEF PushedOnce
    <3>2. \A p \in Producer : node[p] \in Node
      BY <1>0 DEF TypeOK
    <3>3. \A p \in Producer : producer[p] = "exchange" =>
            node[p] \in Node /\ node[p] # Stub
      BY <1>0, <3>1, <3>2
    <3> QED BY <1>0, <2>1, <3>3, PushedOnceKept DEF producerVars
  <2>5. StubsKnown' /\ Deleted' /\ Closing'
    BY <1>0, <2>1 DEF StubsKnown, Deleted, Closing, producerVars
  <2>6. /\ \A p \in Producer, i \in h..(L - 1) : ByProducer(p, i)' <=> ByProducer(p, i)
        /\ \A i \in h..(L - 1) : ByConsumer(i)' <=> ByConsumer(i)
        /\ L \in h..L /\ \A i \in h..(L - 1) : i \in h..L
    BY <1>0, <2>1 DEF ByProducer, ByConsumer, producerVars
  <2>7. Linked(h)' /\ Linking(h)'
    BY <1>h, <2>1, <2>2, <2>6 DEF Chain, Linked, Linking, Pending, producerVars
  <2>8. HeadIs(h)' /\ TakenBefore(h)' /\ StubOut(h)'
    BY <1>0, <1>h, <2>1, <2>2 DEF Chain, HeadIs, TakenBefore, StubOut
  <2> QED BY <2>1, <2>3, <2>4, <2>5, <2>7, <2>8 DEF IInv, Chain
<1>7. CASE PopExchanges
  <2>1. /\ consumer = "exchange" /\ consumer' = "link" /\ cprev' = tails[L]
        /\ tails' = Append(tails, Stub) /\ seen' = L + 1
        /\ UNCHANGED <<next, size, head, popped, freed, mode, producerVars>>
    BY <1>0, <1>7 DEF PopExchanges
  <2>2. /\ tails' \in Seq(Node) /\ Len(tails') = L + 1 /\ tails'[L + 1] = Stub
        /\ \A i \in 1..L : tails'[i] = tails[i]
    <3>1. tails \in Seq(Node)
      BY <1>0 DEF TypeOK
    <3> QED BY <1>0, <2>1, <3>1, AppendProperties
  <2>3. /\ \A i \in 1..(L + 1) : i \in 1..L \/ i = L + 1
        /\ \A i \in h..(L + 1) : i \in h..L \/ i = L + 1
        /\ \A i \in h..L : i \in 1..L /\ tails[i] # Stub
        /\ next[Stub] = Null
    BY <1>0, <1>h, <2>1 DEF Chain, StubOut
  <2>4. TypeOK'
    BY <1>0, <2>1, <2>2, L + 1 \in 1..(L + 1) DEF TypeOK, ConsumerState, producerVars
  <2>5. PushedOnce'
    <3>1. \A i \in 1..(L + 1), j \in 1..(L + 1) : tails'[i] = tails'[j] /\ tails'[i] # Stub => i = j
      BY <1>0, <2>2, <2>3 DEF PushedOnce
    <3>2. \A i \in 1..(L + 1) : tails'[i] <= pushes
      <4>1. pushes \in Nat /\ \A i \in 1..L : tails[i] <= pushes
        BY <1>0, Types DEF PushedOnce
      <4> QED BY <1>0, <2>2, <2>3, <4>1
    <3>3. \A p \in Producer : producer[p] = "exchange" => \A i \in 1..(L + 1) : tails'[i] # node[p]
      BY <1>0, <2>2, <2>3 DEF PushedOnce
    <3>4. \A n \in 1..pushes : (\E i \in 1..L : tails[i] = n) => \E i \in 1..(L + 1) : tails'[i] = n
      <4>1. \A i \in 1..L : i \in 1..(L + 1)
        BY <1>0
      <4> QED BY <2>2, <4>1
    <3>5. \A p \in Producer : producer[p] # "idle" => node[p] \in 1..pushes
      BY <1>0 DEF PushedOnce
    <3>6. \A p \in Producer : producer[p] = "exchange" => next[node[p]] = Null
      BY <1>0 DEF PushedOnce
    <3>7. \A p \in Producer, q \in Producer :
            producer[p] # "idle" /\ producer[q] # "idle" /\ node[p] = node[q] => p = q
      BY <1>0 DEF PushedOnce
    <3>8. \A n \in 1..pushes : \/ \E i \in 1..(L + 1) : tails'[i] = n
                              \/ \E p \in Producer : producer[p] = "exchange" /\ node[p] = n
      BY <1>0, <3>4 DEF PushedOnce
    <3>9. Len(tails') = L + 1 /\ next' = next /\ pushes' = pushes /\ node' = node
          /\ producer' = producer
      BY <2>1, <2>2 DEF producerVars
    <3> QED BY <3>1, <3>2, <3>3, <3>5, <3>6, <3>7, <3>8, <3>9 DEF PushedOnce
  <2>6. StubsKnown' /\ Deleted'
    BY <1>0, <2>1, <2>2 DEF StubsKnown, Deleted
  <2>7. Closing'
    BY <1>0, <2>1, <2>2 DEF Closing, producerVars
  <2>8. HeadIs(h)' /\ TakenBefore(h)' /\ StubOut(h)'
    <3>1. h \in 1..(L + 1) /\ h \in 1..L /\ \A i \in 1..(h - 1) : i \in 1..L
      BY <1>0
    <3>2. HeadIs(h)'
      BY <1>h, <2>1, <2>2, <2>3, <3>1 DEF Chain, HeadIs
    <3>3. TakenBefore(h)'
      BY <1>h, <2>1, <2>2, <3>1 DEF Chain, TakenBefore
    <3> QED BY <2>1, <3>2, <3>3 DEF StubOut
  <2>9. PICK k \in Nat : k = L
    BY <1>0
  <2>10. ByConsumer(k)' /\ k \in h..L
    <3>1. k \in h..L /\ k \in 1..L
      BY <1>0, <2>9
    <3> QED BY <2>1, <2>2, <2>9, <3>1 DEF ByConsumer
  <2>11. \A i \in h..(L - 1) :
           /\ \A p \in Producer : ByProducer(p, i)' <=> ByProducer(p, i)
           /\ ~ByConsumer(i)' /\ ~ByConsumer(i)
    <3> SUFFICES ASSUME NEW i \in h..(L - 1)
                 PROVE  /\ \A p \in Producer : ByProducer(p, i)' <=> ByProducer(p, i)
                        /\ ~ByConsumer(i)' /\ ~ByConsumer(i)
      OBVIOUS
    <3>1. i \in 1..L /\ i + 1 \in 1..L /\ i + 1 \in h..L
      BY <1>0
    <3> QED BY <2>1, <2>2, <2>3, <3>1 DEF ByProducer, ByConsumer, producerVars
  <2>12. \A i \in h..L : i = k \/ (i \in h..(L - 1) /\ i \in 1..L /\ i + 1 \in 1..L)
    BY <1>0, <2>9
  <2>13. Linked(h)'
    <3>1. ASSUME NEW i \in h..L
          PROVE  next[tails'[i]] = IF Pending(i)' THEN Null ELSE tails'[i + 1]
      <4>1. CASE i = k
        <5>1. Pending(i)' /\ tails'[i] = tails[L]
          BY <2>2, <2>3, <2>9, <2>10, <4>1 DEF Pending
        <5> QED BY <1>h, <5>1 DEF Chain, Linked
      <4>2. CASE i # k
        <5>1. i \in h..(L - 1) /\ i \in 1..L /\ i + 1 \in 1..L /\ (Pending(i)' <=> Pending(i))
          BY <2>11, <2>12, <4>2 DEF Pending
        <5> QED BY <1>h, <2>2, <5>1 DEF Chain, Linked
      <4> QED BY <4>1, <4>2
    <3>2. L = (L + 1) - 1
      BY <1>0
    <3> QED BY <2>1, <2>2, <2>3, <3>1, <3>2 DEF Linked
  <2>14. Linking(h)'
    <3>1. ASSUME NEW p \in Producer, producer'[p] = "link" PROVE \E i \in h..L : ByProducer(p, i)'
      <4>1. PICK i \in h..(L - 1) : ByProducer(p, i)
        BY <1>h, <2>1, <3>1 DEF Chain, Linking, producerVars
      <4>2. i \in h..L
        BY <1>0
      <4> QED BY <2>11, <4>1, <4>2
    <3>2. L = (L + 1) - 1
      BY <1>0
    <3> QED BY <2>2, <2>10, <3>1, <3>2 DEF Linking
  <2>15. Chain(h)' /\ h \in 1..Len(tails')
    BY <1>0, <2>2, <2>8, <2>13, <2>14 DEF Chain
  <2> QED BY <2>4, <2>5, <2>6, <2>7, <2>15 DEF IInv
<1>8. CASE PopLinks
  <2>1. /\ consumer = "link" /\ consumer' = "load3"
        /\ UNCHANGED <<tails, size, seen, head, cprev, popped, freed, mode, producerVars>>
        /\ \A n \in Node : next'[n] = IF n = cprev THEN Stub ELSE next[n]
    BY <1>0, <1>8 DEF PopLinks, Link, TypeOK
  <2>2. PICK k \in h..(L - 1) : ByConsumer(k)
    BY <1>h, <2>1 DEF Chain, Linking
  <2>3. /\ cprev = tails[k] /\ tails[k + 1] = Stub
        /\ k \in 1..L /\ k + 1 \in h..L /\ k \in h..L /\ L \in h..L /\ L # k
    BY <1>0, <2>2 DEF ByConsumer
  <2>4. TypeOK'
    BY <1>0, <1>8 DEF TypeOK, PopLinks, Link, ConsumerState, producerVars
  <2>5. PushedOnce'
    <3>1. \A p \in Producer : producer[p] = "exchange" =>
            node[p] \in Node /\ next'[node[p]] = next[node[p]]
      <4> SUFFICES ASSUME NEW p \in Producer, producer[p] = "exchange"
                   PROVE  node[p] \in Node /\ next'[node[p]] = next[node[p]]
        OBVIOUS
      <4>1. node[p] \in Node
        BY <1>0 DEF TypeOK
      <4>2. node[p] # tails[k]
        BY <1>0, <2>3 DEF PushedOnce
      <4> QED BY <2>1, <2>3, <4>1, <4>2
    <3> QED BY <1>0, <2>1, <3>1 DEF PushedOnce, producerVars
  <2>6. StubsKnown' /\ Deleted'
    BY <1>0, <2>1 DEF StubsKnown, Deleted
  <2>7. \A i \in h..L : i # k => tails[i] # tails[k] /\ next'[tails[i]] = next[tails[i]]
    <3>1. \A i \in h..L : i \in 1..L
      BY <1>0
    <3> QED BY <1>0, <1>h, <2>1, <2>3, <3>1 DEF Chain, HeadIs
  <2>8. /\ \A p \in Producer, i \in h..(L - 1) : ByProducer(p, i)' <=> ByProducer(p, i)
        /\ \A i \in h..(L - 1) : ~ByConsumer(i)'
        /\ \A i \in h..(L - 1) : i # k => ~ByConsumer(i)
    <3>1. \A i \in h..(L - 1) : i # k => i \in h..L /\ i + 1 \in h..L /\ i + 1 # k + 1
      BY <1>0
    <3>2. \A i \in h..(L - 1) : i # k => tails[i + 1] # Stub
      BY <1>h, <2>3, <3>1 DEF Chain, HeadIs
    <3> QED BY <2>1, <3>2 DEF ByProducer, ByConsumer, producerVars
  <2>9. ~Pending(k)'
    <3>1. ASSUME NEW p \in Producer, ByProducer(p, k) PROVE FALSE
      BY <1>0, <2>3, <3>1 DEF ByProducer, PushedOnce
    <3> QED BY <2>8, <3>1 DEF Pending
  <2>10. Linked(h)'
    <3>1. next'[tails[L]] = Null
      BY <1>h, <2>3, <2>7 DEF Chain, Linked
    <3>2. next'[tails[k]] = tails[k + 1]
      BY <1>0, <2>1, <2>3
    <3>3. ASSUME NEW i \in h..(L - 1), i # k
          PROVE  next'[tails[i]] = IF Pending(i)' THEN Null ELSE tails[i + 1]
      <4>1. i \in h..L /\ (Pending(i)' <=> Pending(i))
        BY <1>0, <2>8, <3>3 DEF Pending
      <4> QED BY <1>h, <2>7, <3>3, <4>1 DEF Chain, Linked
    <3> QED BY <2>1, <2>9, <3>1, <3>2, <3>3 DEF Linked
  <2>11. Linking(h)'
    BY <1>h, <2>1, <2>8 DEF Chain, Linking, producerVars
  <2>12. Chain(h)'
    BY <1>0, <1>h, <2>1, <2>10, <2>11 DEF Chain, HeadIs, TakenBefore, StubOut
  <2>13. mode = "closing" => next'[head] # Null
    <3>1. ASSUME mode = "closing" PROVE next'[head] # Null
      <4>1. h \in h..(L - 1) /\ h + 1 \in 1..L
        BY <1>0, <2>3
      <4>2. ~Pending(h)'
        BY <1>i, <2>8, <3>1, <4>1 DEF Pending, ByProducer
      <4>3. next'[head] = tails[h + 1]
        BY <1>h, <2>1, <2>10, <4>1, <4>2 DEF Chain, HeadIs, Linked
      <4> QED BY <1>0, <4>1, <4>3
    <3> QED BY <3>1
  <2>14. Closing'
    BY <1>0, <2>1, <2>13 DEF Closing, producerVars
  <2> QED BY <2>1, <2>4, <2>5, <2>6, <2>12, <2>14 DEF IInv
<1>9. CASE PopLoadsLast
  <2>1. /\ consumer = "load3" /\ head # Stub /\ seen' = seen
        /\ UNCHANGED <<next, tails, size, cprev, freed, producerVars>>
    BY <1>0, <1>9 DEF PopLoadsLast, Deleted
  <2>2. CASE next[head] # Null /\ TakeHead(next[head])
    BY <1>0, <2>1, <2>2, TakeKeeps
  <2>3. CASE next[head] = Null /\ SayInserting
    <3>1. consumer' = "load" /\ UNCHANGED <<mode, head, popped>>
      BY <1>0, <2>1, <2>3 DEF SayInserting, Closing
    <3>2. Closing'
      BY <1>0, <2>1, <3>1 DEF Closing, producerVars
    <3> QED BY <1>0, <2>1, <3>1, <3>2, LeaveKeeps
  <2> QED BY <1>9, <2>2, <2>3 DEF PopLoadsLast, AfterHead
<1>10. CASE PopCounts \/ PopFrees
  <2>1. /\ consumer \in {"count", "free"} /\ consumer' \in {"free", "load", "idle"}
        /\ UNCHANGED <<next, tails, seen, head, cprev, popped, mode, producerVars>>
        /\ popped # <<>> /\ freed \cup {Last(popped)} = ToSet(popped)
    BY <1>0, <1>10 DEF PopCounts, PopFrees, Deleted
  <2>2. size' \in 0..(SizeMod - 1)
    <3>1. size + (-1) \in Int /\ SizeMod \in Nat /\ SizeMod > 0 /\ size \in 0..(SizeMod - 1)
      BY <1>0, SizeModAssumption DEF TypeOK
    <3>2. (size + (-1)) % SizeMod \in 0..(SizeMod - 1)
      BY <3>1, Remainder
    <3> QED BY <1>10, <3>1, <3>2 DEF PopCounts, PopFrees, SizePlus
  <2>3. Deleted' /\ freed' \in SUBSET ToSet(popped)
    BY <1>0, <1>10, <2>1 DEF PopCounts, PopFrees, Deleted, TypeOK
  <2>4. TypeOK'
    BY <1>0, <2>1, <2>2, <2>3 DEF TypeOK, ConsumerState, producerVars
  <2>5. PushedOnce' /\ StubsKnown'
    BY <1>0, <2>1, LookKeeps
  <2>6. Closing'
    BY <1>0, <1>c, <1>10, <2>1 DEF PopCounts, PopFrees, Closing, producerVars
  <2>7. h \in 1..Len(tails') /\ Chain(h)'
    BY <1>h, <2>1, HeadStays
  <2> QED BY <2>3, <2>4, <2>5, <2>6, <2>7 DEF IInv
<1> QED BY <1>1, <1>2, <1>3, <1>4, <1>5, <1>6, <1>7, <1>8, <1>9, <1>10 DEF ConsumerStep

-----------------------------------------------------------------------------
LEMMA Invariance == Spec => []IInv
<1>1. IInv /\ UNCHANGED vars => IInv'
  <2> SUFFICES ASSUME IInv, UNCHANGED vars PROVE IInv'
    OBVIOUS
  <2>1. PICK h \in 1..Len(tails) : Chain(h)
    BY DEF IInv
  <2>2. TypeOK' /\ PushedOnce' /\ StubsKnown'
    BY DEF vars, IInv, TypeOK, PushedOnce, StubsKnown
  <2>3. Deleted' /\ Closing'
    BY DEF vars, IInv, Deleted, Closing
  <2>4. HeadIs(h)' /\ TakenBefore(h)' /\ StubOut(h)'
    BY <2>1 DEF vars, Chain, HeadIs, TakenBefore, StubOut
  <2>5. Linked(h)' /\ Linking(h)'
    BY <2>1 DEF vars, Chain, Linked, Linking, Pending, ByProducer, ByConsumer
  <2>6. h \in 1..Len(tails')
    BY <2>1 DEF vars
  <2> QED BY <2>2, <2>3, <2>4, <2>5, <2>6 DEF IInv, Chain
<1>2. IInv /\ [Next]_vars => IInv'
  BY <1>1, ProducerKeeps, ConsumerKeeps DEF Next
<1> QED BY <1>2, InitHolds, PTL DEF Spec

(* The pointers of the queue point to nodes or are null.                   *)
THEOREM TypeCorrect == Spec => []TypeOK
BY Invariance, PTL DEF IInv

(* For every number of producers no node is deleted (typed_mpsc_queue.h:76)*)
(* while a producer is about to link to it (mpsc_queue.cc:26) or the       *)
(* consumer still holds it, whichever old values of m_tail are loaded.     *)
THEOREM NodesLive == Spec => []NoUseAfterFree
<1>1. IInv => NoUseAfterFree
  <2> SUFFICES ASSUME IInv PROVE NoUseAfterFree
    OBVIOUS
  <2>1. PICK h \in 1..Len(tails) : Chain(h)
    BY DEF IInv
  <2>2. TypeOK /\ PushedOnce /\ Len(tails) \in Nat
    BY Types DEF IInv
  <2>3. freed \subseteq {tails[i] : i \in 1..(h - 1)} \ {Stub}
    BY <2>1, <2>2 DEF Chain, TakenBefore, TypeOK
  <2>4. \A i \in h..Len(tails) : tails[i] \notin freed
    <3>1. \A i \in h..Len(tails), j \in 1..(h - 1) : i \in 1..Len(tails) /\ j \in 1..Len(tails) /\ i # j
      BY <2>2
    <3> QED BY <2>2, <2>3, <3>1 DEF PushedOnce
  <2>5. h \in h..Len(tails) /\ \A i \in h..(Len(tails) - 1) : i \in h..Len(tails)
    BY <2>2
  <2> QED BY <2>1, <2>4, <2>5 DEF NoUseAfterFree, Chain, HeadIs, Linking, ByProducer, ByConsumer
<1> QED BY <1>1, Invariance, PTL

(* The destructor (typed_mpsc_queue.h:34-45) leaves no node behind.        *)
THEOREM AllFreed == Spec => []DestroyFreesAll
<1>1. IInv => DestroyFreesAll
  BY DEF IInv, Closing, DestroyFreesAll
<1> QED BY <1>1, Invariance, PTL

-----------------------------------------------------------------------------
(***************************************************************************)
(* What Without leaves of a sequence.  The function in its definition is   *)
(* not taken for granted: that it exists, and is the only one with its     *)
(* equations, is by induction on the length of the sequence.               *)
(***************************************************************************)
Keeps(s, out, f, n) ==
  /\ f[0] = <<>>
  /\ \A i \in 1..n : f[i] = IF s[i] \in out THEN f[i - 1] ELSE Append(f[i - 1], s[i])

LEMMA KeepsExists ==
  ASSUME NEW S, NEW s \in Seq(S), NEW out
  PROVE  \E f \in [0..Len(s) -> Seq(S)] : Keeps(s, out, f, Len(s))
<1> DEFINE Q == {n \in Nat : n <= Len(s) =>
                   \E f \in [0..n -> Seq(S)] : Keeps(s, out, f, n)}
<1>0. Len(s) \in Nat /\ \A i \in 1..Len(s) : s[i] \in S
  BY LenProperties, ElementOfSeq
<1>1. 0 \in Q
  <2> DEFINE f == [i \in 0..0 |-> <<>>]
  <2>1. f \in [0..0 -> Seq(S)] /\ f[0] = <<>>
    BY EmptySeq
  <2> HIDE DEF f
  <2> QED BY <2>1 DEF Keeps
<1>2. ASSUME NEW n \in Q PROVE n + 1 \in Q
  <2> SUFFICES ASSUME n + 1 <= Len(s)
               PROVE  \E f \in [0..(n + 1) -> Seq(S)] : Keeps(s, out, f, n + 1)
    OBVIOUS
  <2>0. n \in Nat /\ n <= Len(s) /\ n + 1 \in 1..Len(s)
    BY <1>0
  <2>1. PICK f \in [0..n -> Seq(S)] : Keeps(s, out, f, n)
    BY <2>0
  <2> DEFINE x == IF s[n + 1] \in out THEN f[n] ELSE Append(f[n], s[n + 1])
             g == [i \in 0..(n + 1) |-> IF i = n + 1 THEN x ELSE f[i]]
  <2>2. x \in Seq(S)
    <3>1. f[n] \in Seq(S) /\ s[n + 1] \in S
      BY <1>0, <2>0
    <3> QED BY <3>1, AppendProperties
  <2>3. g[n + 1] = x /\ \A i \in 0..n : g[i] = f[i]
    <3> HIDE DEF x
    <3> QED BY <2>0
  <2>4. g \in [0..(n + 1) -> Seq(S)]
    <3> HIDE DEF x
    <3> QED BY <2>0, <2>2
  <2>5. ASSUME NEW i \in 1..(n + 1)
        PROVE  g[i] = IF s[i] \in out THEN g[i - 1] ELSE Append(g[i - 1], s[i])
    <3> HIDE DEF g
    <3>1. CASE i = n + 1
      BY <2>0, <2>3, <3>1
    <3>2. CASE i # n + 1
      <4>1. i \in 1..n /\ i \in 0..n /\ i - 1 \in 0..n
        BY <2>0, <3>2
      <4> QED BY <2>1, <2>3, <4>1 DEF Keeps
    <3> QED BY <3>1, <3>2
  <2>6. g[0] = <<>>
    BY <2>0, <2>1, <2>3 DEF Keeps
  <2> HIDE DEF g
  <2> QED BY <2>4, <2>5, <2>6 DEF Keeps
<1>3. Q = Nat
  <2> HIDE DEF Q
  <2>1. Q \in SUBSET Nat
    BY DEF Q
  <2> QED BY <1>1, <1>2, <2>1, Induction
<1>4. Len(s) \in Q
  <2> HIDE DEF Q
  <2> QED BY <1>0, <1>3
<1> QED BY <1>0, <1>4

LEMMA WithoutIs ==
  ASSUME NEW S, NEW s \in Seq(S), NEW out, NEW f, Keeps(s, out, f, Len(s))
  PROVE  Without(s, out) = f[Len(s)]
<1> DEFINE kept == CHOOSE g : g = [i \in 0..Len(s) |->
             IF i = 0 THEN <<>>
             ELSE IF s[i] \in out THEN g[i - 1] ELSE Append(g[i - 1], s[i])]
           Q == {n \in Nat : n <= Len(s) => kept[n] = f[n]}
<1>0. Len(s) \in Nat
  BY LenProperties
<1>1. PICK g \in [0..Len(s) -> Seq(S)] : Keeps(s, out, g, Len(s))
  BY KeepsExists
<1>2. g = [i \in 0..Len(s) |->
             IF i = 0 THEN <<>>
             ELSE IF s[i] \in out THEN g[i - 1] ELSE Append(g[i - 1], s[i])]
  <2>1. ASSUME NEW i \in 0..Len(s)
        PROVE  g[i] = IF i = 0 THEN <<>>
                      ELSE IF s[i] \in out THEN g[i - 1] ELSE Append(g[i - 1], s[i])
    <3>1. i = 0 \/ i \in 1..Len(s)
      BY <1>0
    <3> QED BY <1>1, <3>1 DEF Keeps
  <2> QED BY <2>1
<1>3. kept = [i \in 0..Len(s) |->
             IF i = 0 THEN <<>>
             ELSE IF s[i] \in out THEN kept[i - 1] ELSE Append(kept[i - 1], s[i])]
  BY <1>2, Zenon
<1>4. Without(s, out) = kept[Len(s)]
  BY Zenon DEF Without
<1>5. \A i \in 0..Len(s) :
        kept[i] = IF i = 0 THEN <<>>
                  ELSE IF s[i] \in out THEN kept[i - 1] ELSE Append(kept[i - 1], s[i])
  <2> HIDE DEF kept
  <2> QED BY <1>3
<1> HIDE DEF kept
<1>6. 0 \in Q
  BY <1>0, <1>5 DEF Keeps
<1>7. ASSUME NEW n \in Q PROVE n + 1 \in Q
  <2> SUFFICES ASSUME n + 1 <= Len(s) PROVE kept[n + 1] = f[n + 1]
    OBVIOUS
  <2>1. n \in Nat /\ n + 1 \in 1..Len(s) /\ n + 1 \in 0..Len(s) /\ (n + 1) - 1 = n
    BY <1>0
  <2>2. kept[n] = f[n]
    BY <1>0, <2>1
  <2>3. f[n + 1] = IF s[n + 1] \in out THEN f[n] ELSE Append(f[n], s[n + 1])
    BY <2>1 DEF Keeps
  <2>4. kept[n + 1] = IF s[n + 1] \in out THEN kept[n] ELSE Append(kept[n], s[n + 1])
    BY <1>5, <2>1
  <2> QED BY <2>2, <2>3, <2>4
<1>8. Q = Nat
  <2> HIDE DEF Q
  <2>1. Q \in SUBSET Nat
    BY DEF Q
  <2> QED BY <1>6, <1>7, <2>1, Induction
<1>9. Len(s) \in Q
  <2> HIDE DEF Q
  <2> QED BY <1>0, <1>8
<1> QED BY <1>0, <1>4, <1>9

LEMMA WithoutAll ==
  ASSUME NEW S, NEW s \in Seq(S), NEW out, \A i \in 1..Len(s) : s[i] \in out
  PROVE  Without(s, out) = <<>>
<1> DEFINE f == [i \in 0..Len(s) |-> <<>>]
<1>1. Len(s) \in Nat
  BY LenProperties
<1>2. Keeps(s, out, f, Len(s))
  BY <1>1 DEF Keeps
<1> HIDE DEF f
<1>3. Without(s, out) = f[Len(s)]
  BY <1>2, WithoutIs
<1> QED BY <1>1, <1>3 DEF f

(* One element more at the end *)
LEMMA WithoutAppend ==
  ASSUME NEW S, NEW s \in Seq(S), NEW x \in S, NEW out
  PROVE  Without(Append(s, x), out) =
           IF x \in out THEN Without(s, out) ELSE Append(Without(s, out), x)
<1> DEFINE L == Len(s)
           t == Append(s, x)
<1>1. /\ L \in Nat /\ t \in Seq(S) /\ Len(t) = L + 1 /\ t[L + 1] = x
      /\ \A i \in 1..L : t[i] = s[i]
  BY AppendProperties, LenProperties
<1>2. PICK f \in [0..L -> Seq(S)] : Keeps(s, out, f, L)
  BY KeepsExists
<1>3. Without(s, out) = f[L]
  BY <1>2, WithoutIs
<1> DEFINE y == IF x \in out THEN f[L] ELSE Append(f[L], x)
           g == [i \in 0..(L + 1) |-> IF i = L + 1 THEN y ELSE f[i]]
<1> HIDE DEF L, t, y
<1>4. g[L + 1] = y /\ \A i \in 0..L : g[i] = f[i]
  BY <1>1
<1> HIDE DEF g
<1>5. ASSUME NEW i \in 1..(L + 1)
      PROVE  g[i] = IF t[i] \in out THEN g[i - 1] ELSE Append(g[i - 1], t[i])
  <2>1. CASE i = L + 1
    <3>1. g[i - 1] = f[L] /\ t[i] = x /\ g[i] = y
      BY <1>1, <1>4, <2>1
    <3> QED BY <3>1 DEF y
  <2>2. CASE i # L + 1
    <3>1. i \in 1..L /\ i \in 0..L /\ i - 1 \in 0..L
      BY <1>1, <2>2
    <3> QED BY <1>1, <1>2, <1>4, <3>1 DEF Keeps
  <2> QED BY <2>1, <2>2
<1>6. g[0] = <<>>
  BY <1>1, <1>2, <1>4 DEF Keeps
<1>7. Keeps(t, out, g, Len(t))
  BY <1>1, <1>5, <1>6 DEF Keeps
<1>8. Without(t, out) = g[Len(t)]
  BY <1>1, <1>7, WithoutIs
<1>9. Without(t, out) = y
  BY <1>1, <1>4, <1>8
<1> QED BY <1>3, <1>9 DEF y, t

LEMMA AppendKeeps ==
  ASSUME NEW S, NEW q \in Seq(S), q # <<>>, NEW x \in S
  PROVE  /\ Append(q, x) # <<>> /\ Head(Append(q, x)) = Head(q)
         /\ Tail(Append(q, x)) = Append(Tail(q), x)
<1>1. /\ Append(q, x) \in Seq(S) /\ Append(q, x) # <<>>
      /\ \A i \in 1..Len(q) : Append(q, x)[i] = q[i]
  BY AppendProperties
<1>2. Len(q) \in Nat /\ Len(q) >= 1 /\ Head(q) = q[1]
  BY LenProperties, EmptySeq, HeadTailProperties
<1>3. Head(Append(q, x)) = Append(q, x)[1]
  BY <1>1, HeadTailProperties
<1>4. Tail(Append(q, x)) = Append(Tail(q), x)
  OBVIOUS
<1> QED BY <1>1, <1>2, <1>3, <1>4

(* Element h is the first that is left, and there once. *)
LEMMA WithoutFirst ==
  ASSUME NEW S, NEW s \in Seq(S), NEW out, NEW h \in 1..Len(s), s[h] \notin out,
         \A i \in 1..(h - 1) : s[i] \in out,
         \A i \in (h + 1)..Len(s) : s[i] # s[h]
  PROVE  /\ Without(s, out) # <<>> /\ Head(Without(s, out)) = s[h]
         /\ Without(s, out \cup {s[h]}) = Tail(Without(s, out))
<1> DEFINE L == Len(s)
<1>1. L \in Nat /\ h \in Nat /\ h >= 1 /\ h <= L /\ \A i \in 1..L : s[i] \in S
  BY LenProperties, ElementOfSeq
<1>2. PICK f \in [0..L -> Seq(S)] : Keeps(s, out, f, L)
  BY KeepsExists
<1>3. Without(s, out) = f[L]
  BY <1>2, WithoutIs
<1> DEFINE Q == {n \in Nat : n <= L =>
                   IF n < h THEN f[n] = <<>> ELSE f[n] # <<>> /\ Head(f[n]) = s[h]}
<1> HIDE DEF L
<1>4. 0 \in Q
  BY <1>1, <1>2 DEF Keeps
<1>5. ASSUME NEW n \in Q PROVE n + 1 \in Q
  <2> SUFFICES ASSUME n + 1 <= L
               PROVE  IF n + 1 < h THEN f[n + 1] = <<>>
                      ELSE f[n + 1] # <<>> /\ Head(f[n + 1]) = s[h]
    OBVIOUS
  <2>0. n \in Nat /\ n <= L /\ n + 1 \in 1..L /\ n \in 0..L /\ (n + 1) - 1 = n
    BY <1>1
  <2>1. f[n + 1] = IF s[n + 1] \in out THEN f[n] ELSE Append(f[n], s[n + 1])
    BY <1>2, <2>0 DEF Keeps
  <2>2. IF n < h THEN f[n] = <<>> ELSE f[n] # <<>> /\ Head(f[n]) = s[h]
    BY <2>0
  <2>3. CASE n + 1 < h
    <3>1. n + 1 \in 1..(h - 1) /\ n < h
      BY <1>1, <2>0, <2>3
    <3> QED BY <2>1, <2>2, <2>3, <3>1
  <2>4. CASE n + 1 = h
    <3>1. f[n + 1] = Append(<<>>, s[h])
      <4>0. n < h
        BY <1>1, <2>0, <2>4
      <4>1. n < h /\ s[n + 1] = s[h]
        BY <4>0, <2>4
      <4>2. f[n] = <<>> /\ s[n + 1] \notin out
        BY <2>2, <4>1
      <4> QED BY <2>1, <4>1, <4>2
    <3>2. Append(<<>>, s[h]) = <<s[h]>>
      OBVIOUS
    <3> QED BY <1>1, <2>4, <3>1, <3>2
  <2>5. CASE n + 1 > h
    <3>1. f[n] \in Seq(S) /\ f[n] # <<>> /\ Head(f[n]) = s[h] /\ s[n + 1] \in S
      BY <1>1, <2>0, <2>2, <2>5
    <3>2. /\ Append(f[n], s[n + 1]) # <<>>
          /\ Head(Append(f[n], s[n + 1])) = s[h]
      <4> DEFINE q == f[n]
                 x == s[n + 1]
      <4>1. q \in Seq(S) /\ q # <<>> /\ Head(q) = s[h] /\ x \in S
        BY <3>1
      <4> HIDE DEF q, x
      <4>2. Append(q, x) # <<>> /\ Head(Append(q, x)) = Head(q)
        BY <4>1, AppendKeeps
      <4>3. Append(q, x) # <<>> /\ Head(Append(q, x)) = s[h]
        BY <4>1, <4>2
      <4> QED BY <4>3 DEF q, x
    <3> QED BY <1>1, <2>0, <2>1, <2>5, <3>1, <3>2
  <2> QED BY <1>1, <2>0, <2>3, <2>4, <2>5
<1>6. Q = Nat
  <2> HIDE DEF Q
  <2>1. Q \in SUBSET Nat
    BY DEF Q
  <2> QED BY <1>4, <1>5, <2>1, Induction
<1>7. ASSUME NEW n \in 0..L
      PROVE  IF n < h THEN f[n] = <<>> ELSE f[n] # <<>> /\ Head(f[n]) = s[h]
  <2>1. n \in Nat /\ n <= L
    BY <1>1
  <2>2. n \in Q
    <3> HIDE DEF Q
    <3> QED BY <1>6, <2>1
  <2> QED BY <2>1, <2>2
<1> HIDE DEF Q
<1>8. Without(s, out) # <<>> /\ Head(Without(s, out)) = s[h]
  BY <1>1, <1>3, <1>7
<1> DEFINE g == [i \in 0..L |-> IF i < h THEN <<>> ELSE Tail(f[i])]
<1>9. \A i \in 0..L : g[i] = IF i < h THEN <<>> ELSE Tail(f[i])
  OBVIOUS
<1> HIDE DEF g
<1>10. ASSUME NEW i \in 1..L
       PROVE  g[i] = IF s[i] \in out \cup {s[h]} THEN g[i - 1] ELSE Append(g[i - 1], s[i])
  <2>0. i \in 0..L /\ i - 1 \in 0..L
    BY <1>1
  <2>1. f[i] = IF s[i] \in out THEN f[i - 1] ELSE Append(f[i - 1], s[i])
    BY <1>2 DEF Keeps
  <2>2. CASE i < h
    <3>1. i \in 1..(h - 1) /\ i - 1 < h
      BY <1>1, <2>2
    <3> QED BY <1>9, <2>0, <2>2, <3>1
  <2>3. CASE i = h
    <3>1. i - 1 < h /\ ~(i < h) /\ s[i] = s[h]
      BY <1>1, <2>3
    <3>2. f[i - 1] = <<>> /\ g[i - 1] = <<>>
      BY <1>7, <1>9, <2>0, <3>1
    <3>3. f[i] = Append(<<>>, s[h])
      BY <2>1, <3>1, <3>2
    <3>4. Tail(Append(<<>>, s[h])) = <<>>
      OBVIOUS
    <3>5. g[i] = <<>>
      BY <1>9, <2>0, <3>1, <3>3, <3>4
    <3> QED BY <3>1, <3>2, <3>5
  <2>4. CASE i > h
    <3>1. i \in (h + 1)..L /\ ~(i < h) /\ ~(i - 1 < h)
      BY <1>1, <2>4
    <3>2. s[i] # s[h] /\ f[i - 1] \in Seq(S) /\ f[i - 1] # <<>> /\ s[i] \in S
      BY <1>1, <1>7, <2>0, <3>1 DEF L
    <3>3. Tail(Append(f[i - 1], s[i])) = Append(Tail(f[i - 1]), s[i])
      BY <3>2, AppendKeeps
    <3>4. g[i] = Tail(f[i]) /\ g[i - 1] = Tail(f[i - 1])
      BY <1>9, <2>0, <3>1
    <3> QED BY <2>1, <3>2, <3>3, <3>4
  <2> QED BY <1>1, <2>2, <2>3, <2>4
<1>11. g[0] = <<>>
  BY <1>1, <1>9
<1>12. Keeps(s, out \cup {s[h]}, g, Len(s))
  BY <1>10, <1>11 DEF Keeps, L
<1>13. Without(s, out \cup {s[h]}) = g[L]
  BY <1>12, WithoutIs DEF L
<1>14. g[L] = Tail(f[L])
  <2>1. L \in 0..L /\ ~(L < h)
    BY <1>1
  <2> QED BY <1>9, <2>1
<1> QED BY <1>3, <1>8, <1>13, <1>14
-----------------------------------------------------------------------------
(* The queue as its users see it *)

Out == ToSet(popped) \cup {Stub}

(* All elements of m_tail's history before the head are out, none after.   *)
LEMMA OutBefore ==
  ASSUME IInv, NEW h \in 1..Len(tails), Chain(h)
  PROVE  /\ tails \in Seq(Node)
         /\ \A i \in 1..(h - 1) : tails[i] \in Out
         /\ \A i \in h..Len(tails) : tails[i] # Stub => tails[i] \notin Out
<1>1. /\ tails \in Seq(Node) /\ Len(tails) \in Nat /\ h \in Nat /\ h >= 1
      /\ ToSet(popped) = {tails[i] : i \in 1..(h - 1)} \ {Stub}
  <2>1. Len(tails) \in Nat
    BY Types DEF IInv
  <2>2. tails \in Seq(Node)
    BY DEF IInv, TypeOK
  <2> QED BY <2>1, <2>2 DEF Chain, TakenBefore
<1>2. \A i \in 1..(h - 1) : tails[i] \in Out
  BY <1>1 DEF Out
<1>3. ASSUME NEW i \in h..Len(tails), tails[i] # Stub, tails[i] \in Out PROVE FALSE
  <2>1. PICK j \in 1..(h - 1) : tails[i] = tails[j]
    BY <1>1, <1>3 DEF Out
  <2>2. i \in 1..Len(tails) /\ j \in 1..Len(tails) /\ i # j
    BY <1>1
  <2> QED BY <1>3, <2>1, <2>2 DEF IInv, PushedOnce
<1> QED BY <1>1, <1>2, <1>3

(* The exchange in Push puts the node in (mpsc_queue.cc:25). *)
LEMMA ExchangeIsPut ==
  ASSUME IInv, NEW p \in Producer, PushExchanges(p)
  PROVE  \E x \in Item : F!Put(x)
<1>1. PICK h \in 1..Len(tails) : Chain(h)
  BY DEF IInv
<1>2. /\ tails' = Append(tails, node[p]) /\ popped' = popped
      /\ node[p] \in 1..pushes
      /\ \A i \in 1..Len(tails) : tails[i] # node[p]
  BY DEF PushExchanges, consumerVars, IInv, PushedOnce
<1>3. pushes \in 0..MaxPushes /\ MaxPushes \in Nat
  BY MaxPushesAssumption DEF IInv, TypeOK
<1>4. node[p] \in Item /\ node[p] # Stub /\ node[p] \in Node
  BY <1>2, <1>3 DEF Item, Stub, Node
<1>5. ASSUME node[p] \in ToSet(popped) PROVE FALSE
  <2>1. PICK i \in 1..(h - 1) : tails[i] = node[p]
    BY <1>1, <1>5 DEF Chain, TakenBefore
  <2>2. i \in 1..Len(tails)
    BY Types DEF IInv
  <2> QED BY <1>2, <2>1, <2>2
<1>6. node[p] \notin Out /\ tails \in Seq(Node)
  BY <1>1, <1>4, <1>5, OutBefore DEF Out
<1> DEFINE x == node[p]
<1>7. Without(Append(tails, x), Out) = Append(Without(tails, Out), x)
  <2> HIDE DEF x
  <2>1. x \in Node /\ x \notin Out
    BY <1>4, <1>6 DEF x
  <2> QED BY <1>6, <2>1, WithoutAppend
<1>8. Queue = Without(tails, Out) /\ Queue' = Without(Append(tails, x), Out)
  BY <1>2 DEF Queue, Out
<1>9. F!Put(node[p])
  BY <1>7, <1>8 DEF F!Put
<1> QED BY <1>4, <1>9

(* The exchange of the stub changes nothing for the users. *)
LEMMA StubIsNoPut ==
  ASSUME IInv, tails' = Append(tails, Stub), popped' = popped
  PROVE  Queue' = Queue
<1>1. tails \in Seq(Node) /\ Stub \in Node /\ Stub \in Out
  BY DEF IInv, TypeOK, Node, Out
<1>2. Without(Append(tails, Stub), Out) = Without(tails, Out)
  BY <1>1, WithoutAppend
<1> QED BY <1>2 DEF Queue, Out

(* The first element that is still in is that of the head, or the next one *)
(* if the head is the stub.                                                *)
LEMMA FirstIs ==
  ASSUME IInv, NEW h \in 1..Len(tails), Chain(h), NEW k \in h..Len(tails),
         tails[k] # Stub, \A i \in h..(k - 1) : tails[i] = Stub
  PROVE  /\ Queue # <<>> /\ Head(Queue) = tails[k]
         /\ Without(tails, Out \cup {tails[k]}) = Tail(Queue)
<1>1. /\ tails \in Seq(Node) /\ Len(tails) \in Nat /\ h \in Nat /\ k \in 1..Len(tails)
      /\ \A i \in 1..(h - 1) : tails[i] \in Out
      /\ tails[k] \notin Out
  BY OutBefore, Types DEF IInv
<1>2. \A i \in 1..(k - 1) : tails[i] \in Out
  <2> SUFFICES ASSUME NEW i \in 1..(k - 1) PROVE tails[i] \in Out
    OBVIOUS
  <2>1. i \in 1..(h - 1) \/ i \in h..(k - 1)
    BY <1>1
  <2> QED BY <1>1, <2>1 DEF Out
<1>3. \A i \in (k + 1)..Len(tails) : tails[i] # tails[k]
  <2> SUFFICES ASSUME NEW i \in (k + 1)..Len(tails) PROVE tails[i] # tails[k]
    OBVIOUS
  <2>1. i \in h..Len(tails) /\ i # k
    BY <1>1
  <2> QED BY <2>1 DEF Chain, HeadIs
<1>4. Queue = Without(tails, Out)
  BY DEF Queue, Out
<1> QED BY <1>1, <1>2, <1>3, <1>4, WithoutFirst

(* The store to m_head that leaves a node behind (mpsc_queue.cc:46, 61)    *)
(* takes out the first one of the queue.                                   *)
LEMMA TakeIsGet ==
  ASSUME IInv, head # Stub, popped' = Append(popped, head), tails' = tails
  PROVE  F!Get
<1>1. PICK h \in 1..Len(tails) : Chain(h)
  BY DEF IInv
<1>2. h \in h..Len(tails) /\ tails[h] = head /\ h \in Nat /\ \A i \in h..(h - 1) : FALSE
  BY <1>1, Types DEF Chain, HeadIs, IInv
<1>3. Queue # <<>> /\ Without(tails, Out \cup {head}) = Tail(Queue)
  BY <1>1, <1>2, FirstIs
<1>4. head \in Item /\ popped \in Seq(Item)
  BY DEF IInv, TypeOK, Node
<1>5. ToSet(popped') = ToSet(popped) \cup {head}
  BY <1>4, ToSetAppend
<1>6. ToSet(popped') \cup {Stub} = Out \cup {head}
  BY <1>5 DEF Out
<1>7. Queue' = Without(tails, Out \cup {head})
  BY <1>6 DEF Queue
<1> QED BY <1>3, <1>7 DEF F!Get

LEMMA QueueStays ==
  ASSUME UNCHANGED <<tails, popped>> PROVE Queue' = Queue
BY DEF Queue

(* For every number of producers, in whatever order they link their nodes, *)
(* the queue is a FIFO queue: every step is a put, a get or invisible.     *)
THEOREM Refinement == Spec => ImplementsFIFO
<1>1. Init => F!Init
  <2> SUFFICES ASSUME Init PROVE Queue = <<>>
    BY DEF F!Init
  <2>1. tails = <<Stub>> /\ <<Stub>> \in Seq({Stub}) /\ Len(tails) = 1 /\ tails[1] = Stub
    BY DEF Init
  <2>2. \A i \in 1..Len(tails) : tails[i] \in Out
    BY <2>1 DEF Out
  <2>3. Without(tails, Out) = <<>>
    BY <2>1, <2>2, WithoutAll
  <2> QED BY <2>3 DEF Queue, Out
<1>2. IInv /\ [Next]_vars => [F!Next]_Queue
  <2> SUFFICES ASSUME IInv, [Next]_vars
               PROVE  F!Get \/ (\E x \in Item : F!Put(x)) \/ Queue' = Queue
    BY DEF F!Next
  <2>1. ASSUME NEW p \in Producer, ProducerStep(p)
        PROVE  (\E x \in Item : F!Put(x)) \/ Queue' = Queue
    <3>1. CASE PushExchanges(p)
      BY <3>1, ExchangeIsPut
    <3>2. CASE PushBegins(p) \/ PushLinks(p) \/ PushCounts(p)
      BY <3>2, QueueStays DEF PushBegins, PushLinks, PushCounts, consumerVars
    <3> QED BY <2>1, <3>1, <3>2 DEF ProducerStep
  <2>2. CASE PopBegins \/ BeginDestroy \/ PopClearsStub \/ PopLinks \/ PopCounts \/ PopFrees
             \/ PopLoadsTail
    BY <2>2, QueueStays DEF PopBegins, BeginDestroy, PopClearsStub, PopLinks, PopCounts, PopFrees,
         PopLoadsTail, InsertStub, SayInserting
  <2>3. CASE PopExchanges
    BY <2>3, StubIsNoPut DEF PopExchanges
  <2>4. CASE PopLoads
    <3>1. CASE UNCHANGED popped
      BY <2>4, <3>1, QueueStays DEF PopLoads
    <3>2. CASE ~UNCHANGED popped
      <4>1. head # Stub /\ TakeHead(next[head]) /\ tails' = tails
        BY <2>4, <3>2 DEF PopLoads, SayEmpty, TakeOrLoadTail
      <4> QED BY <4>1, TakeIsGet DEF TakeHead
    <3> QED BY <3>1, <3>2
  <2>5. CASE PopLoadsAgain \/ PopLoadsLast
    <3>1. CASE UNCHANGED popped
      BY <2>5, <3>1, QueueStays DEF PopLoadsAgain, PopLoadsLast
    <3>2. CASE ~UNCHANGED popped
      <4>1. /\ consumer \in {"load2", "load3"} /\ tails' = tails
            /\ popped' = Append(popped, head)
        BY <2>5, <3>2 DEF PopLoadsAgain, PopLoadsLast, TakeOrLoadTail, TakeHead, SayInserting
      <4>2. head # Stub
        BY <4>1 DEF IInv, Deleted
      <4> QED BY <4>1, <4>2, TakeIsGet
    <3> QED BY <3>1, <3>2
  <2>6. CASE UNCHANGED vars
    BY <2>6, QueueStays DEF vars
  <2> QED BY <2>1, <2>2, <2>3, <2>4, <2>5, <2>6 DEF Next, ConsumerStep
<1> QED BY <1>1, <1>2, Invariance, PTL DEF Spec, F!Spec, ImplementsFIFO

(* Pop reports an empty queue (mpsc_queue.cc:35-38) only if it is empty or *)
(* if a Push still has to link its first node, for every number of them.   *)
THEOREM EmptyIsEmpty == Spec => EmptyUnlessInserting
<1>1. ASSUME IInv, [Next]_vars, SaysEmpty
      PROVE  Queue = <<>> \/ Head(Queue) \in Inserting
  <2>1. PopLoads
    BY <1>1 DEF SaysEmpty, Next, ProducerStep, PushBegins, PushExchanges, PushLinks,
      PushCounts, consumerVars, PopBegins, BeginDestroy, ConsumerStep, PopLoadsAgain,
      PopLoadsTail, PopClearsStub, PopExchanges, PopLinks, PopLoadsLast, PopCounts, PopFrees, vars
  <2>2. head = Stub /\ next[head] = Null /\ consumer = "load"
    BY <1>1, <2>1 DEF SaysEmpty, PopLoads, TakeOrLoadTail, TakeHead
  <2>3. PICK h \in 1..Len(tails) : Chain(h)
    BY <1>1 DEF IInv
  <2>4. /\ Len(tails) \in Nat /\ h \in Nat /\ tails[h] = Stub /\ tails \in Seq(Node)
        /\ \A i \in 1..Len(tails) : tails[i] \in Node
        /\ Null \notin Node
        /\ \A i \in 1..(h - 1) : tails[i] \in Out
    BY <1>1, <2>2, <2>3, Types, OutBefore DEF IInv, Chain, HeadIs
  <2>5. CASE h = Len(tails)
    <3>1. \A i \in 1..Len(tails) : tails[i] \in Out
      <4> SUFFICES ASSUME NEW i \in 1..Len(tails) PROVE tails[i] \in Out
        OBVIOUS
      <4>1. i = h \/ i \in 1..(h - 1)
        BY <2>4, <2>5
      <4> QED BY <2>4, <4>1 DEF Out
    <3>2. Without(tails, Out) = <<>>
      BY <2>4, <3>1, WithoutAll
    <3> QED BY <3>2 DEF Queue, Out
  <2>6. CASE h # Len(tails)
    <3>1. /\ h \in h..(Len(tails) - 1) /\ h + 1 \in 1..Len(tails) /\ h + 1 \in h..Len(tails)
          /\ h \in h..Len(tails) /\ \A i \in h..((h + 1) - 1) : i = h
      BY <2>4, <2>6
    <3>2. next[tails[h]] = IF Pending(h) THEN Null ELSE tails[h + 1]
      BY <2>3, <3>1 DEF Chain, Linked
    <3>3. Pending(h) /\ ~ByConsumer(h)
      BY <2>2, <2>4, <3>1, <3>2 DEF ByConsumer
    <3>4. PICK p \in Producer : ByProducer(p, h)
      BY <3>3 DEF Pending
    <3>5. tails[h + 1] \in Inserting
      BY <3>4 DEF ByProducer, Inserting
    <3>6. tails[h + 1] # Stub
      BY <2>3, <2>4, <3>1 DEF Chain, HeadIs
    <3>7. Head(Queue) = tails[h + 1]
      BY <1>1, <2>3, <2>4, <3>1, <3>6, FirstIs
    <3> QED BY <3>5, <3>7
  <2> QED BY <2>5, <2>6
<1>2. IInv /\ [Next]_vars => [SaysEmpty => Queue = <<>> \/ Head(Queue) \in Inserting]_vars
  BY <1>1
<1> QED BY <1>2, Invariance, PTL DEF Spec, EmptyUnlessInserting
=============================================================================
