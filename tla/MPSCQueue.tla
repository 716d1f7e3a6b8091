----------------------------- MODULE MPSCQueue -----------------------------
(***************************************************************************)
(* ppl::common::MPSCQueue (mpsc_queue.h, mpsc_queue.cc) inside its wrapper *)
(* TypedMPSCQueue (typed_mpsc_queue.h): several producers call Push, one   *)
(* consumer calls Pop.  Every access to an atomic is a step of its own.    *)
(*                                                                         *)
(* A node is the number of the Push that allocated it; its value is not    *)
(* modelled apart from it.  Node numbers are never reused: a freed address *)
(* may be, but MPSCQueue only follows pointers to nodes that are not freed *)
(* (NoUseAfterFree), so it cannot tell.                                    *)
(*                                                                         *)
(* C++ atomics: m_tail is written by exchanges only, so `tails' keeps its  *)
(* whole history, and a load may return any element not older than the     *)
(* newest one the consumer knows of.  It knows of its own exchanges and,   *)
(* as the links are released and acquired, of each node it has reached.    *)
(* An mpsc_next that is loaded too old is null, as if its store were late. *)
(*                                                                         *)
(* Bounds: MaxPushes on the calls of Push; size_ is modulo SizeMod (2^32). *)
(***************************************************************************)
EXTENDS Integers, FiniteSets, SequencesExt

CONSTANTS Producer, MaxPushes, SizeMod, Null

ASSUME MaxPushesAssumption == MaxPushes \in Nat
ASSUME SizeModAssumption == SizeMod \in Nat /\ SizeMod > MaxPushes
ASSUME NullAssumption == Null \notin Nat

Item == 1..MaxPushes
Stub == 0                    \* m_stub
Node == Item \cup {Stub}

VARIABLES
  next,       \* next[n]: n->mpsc_next
  tails,      \* the values of m_tail, newest last
  seen,       \* index in tails of the newest value the consumer knows of
  head,       \* m_head
  pushes,     \* number of nodes allocated
  producer,   \* producer[p]: where p is in Push
  node,       \* node[p]: the argument of Push
  prev,       \* prev[p]: its local variable
  consumer,   \* where the consumer is in Pop
  cprev,      \* prev in the consumer's call Push(&m_stub)
  size,       \* size_
  popped,     \* history: the nodes Pop has taken out
  freed,      \* the nodes that were deleted
  mode        \* "open", "closing" (in the destructor) or "closed"

producerVars == <<pushes, producer, node, prev>>
consumerVars == <<seen, head, consumer, cprev, popped, freed, mode>>
vars == <<next, tails, size, pushes, producer, node, prev,
          seen, head, consumer, cprev, popped, freed, mode>>

ConsumerState == {"idle", "load", "load2", "tail", "stub", "exchange",
                  "link", "load3", "count", "free"}

TypeOK ==
  /\ next \in [Node -> Node \cup {Null}]
  /\ tails \in Seq(Node) /\ seen \in 1..Len(tails)
  /\ head \in Node
  /\ pushes \in 0..MaxPushes
  /\ producer \in [Producer -> {"idle", "exchange", "link", "count"}]
  /\ node \in [Producer -> Node] /\ prev \in [Producer -> Node]
  /\ consumer \in ConsumerState
  /\ cprev \in Node
  /\ size \in 0..(SizeMod - 1)
  /\ popped \in Seq(Item)
  /\ freed \in SUBSET ToSet(popped)
  /\ mode \in {"open", "closing", "closed"}

Init ==
  /\ next = [n \in Node |-> Null]
  /\ tails = <<Stub>> /\ seen = 1
  /\ head = Stub
  /\ pushes = 0
  /\ producer = [p \in Producer |-> "idle"]
  /\ node = [p \in Producer |-> Stub] /\ prev = [p \in Producer |-> Stub]
  /\ consumer = "idle"
  /\ cprev = Stub
  /\ size = 0
  /\ popped = <<>>
  /\ freed = {}
  /\ mode = "open"

tail == Last(tails)

-----------------------------------------------------------------------------
(* The producers: TypedMPSCQueue::Push *)

(* Allocate the item, store null into its mpsc_next. *)
PushBegins(p) ==
  /\ producer[p] = "idle"
  /\ mode = "open"
  /\ pushes < MaxPushes
  /\ pushes' = pushes + 1
  /\ node' = [node EXCEPT ![p] = pushes + 1]
  /\ next' = [next EXCEPT ![pushes + 1] = Null]
  /\ producer' = [producer EXCEPT ![p] = "exchange"]
  /\ UNCHANGED <<tails, size, prev, consumerVars>>

PushExchanges(p) ==
  /\ producer[p] = "exchange"
  /\ prev' = [prev EXCEPT ![p] = tail]
  /\ tails' = Append(tails, node[p])
  /\ producer' = [producer EXCEPT ![p] = "link"]
  /\ UNCHANGED <<next, size, pushes, node, consumerVars>>

\* Mutants of Link: the node is linked to the newest one there is, or only
\* to the stub.
LinkToTail(from, to) == next' = [next EXCEPT ![tail] = to]
LinkToStub(from, to) ==
  next' = IF from = Stub THEN [next EXCEPT ![from] = to] ELSE next

Link(from, to) == next' = [next EXCEPT ![from] = to]

PushLinks(p) ==
  /\ producer[p] = "link"
  /\ Link(prev[p], node[p])
  /\ producer' = [producer EXCEPT ![p] = "count"]
  /\ UNCHANGED <<tails, size, pushes, node, prev, consumerVars>>

\* A mutant of SizePlus: a signed counter.
SizePlusSigned(d) == size + d

(* size_.fetch_add and fetch_sub *)
SizePlus(d) == (size + d) % SizeMod

PushCounts(p) ==
  /\ producer[p] = "count"
  /\ size' = SizePlus(1)
  /\ producer' = [producer EXCEPT ![p] = "idle"]
  /\ UNCHANGED <<next, tails, pushes, node, prev, consumerVars>>

-----------------------------------------------------------------------------
(* The consumer: TypedMPSCQueue::Pop and the destructor *)

PopBegins ==
  /\ consumer = "idle"
  /\ mode # "closed"
  /\ consumer' = "load"
  /\ UNCHANGED <<next, tails, size, seen, head, cprev, popped, freed,
                 mode, producerVars>>

(* The destructor is called when no Push is under way. *)
BeginDestroy ==
  /\ mode = "open"
  /\ consumer = "idle"
  /\ \A p \in Producer : producer[p] = "idle"
  /\ mode' = "closing"
  /\ consumer' = "load"
  /\ seen' = Len(tails)
  /\ UNCHANGED <<next, tails, size, head, cprev, popped, freed,
                 producerVars>>

(* MPSCQueue::Pop says that it is empty: Pop returns false. *)
SayEmpty ==
  /\ consumer' = "idle"
  /\ mode' = IF mode = "closing" THEN "closed" ELSE mode
  /\ UNCHANGED <<head, popped>>

(* It returns null because of an insertion: Pop tries again. *)
SayInserting ==
  /\ consumer' = IF mode = "closing" THEN "idle" ELSE "load"
  /\ mode' = IF mode = "closing" THEN "closed" ELSE mode
  /\ UNCHANGED <<head, popped>>

(* It moves m_head on to n and returns the old m_head. *)
TakeHead(n) ==
  /\ head' = n
  /\ popped' = Append(popped, head)
  /\ consumer' = "count"
  /\ UNCHANGED mode

(* What the consumer knows of m_tail once it has reached n by a link. *)
Known(n) ==
  IF n \in Item /\ n \notin ToSet(SubSeq(tails, 1, seen))
    THEN CHOOSE i \in DOMAIN tails : tails[i] = n
    ELSE seen

(* With a node in m_head: take it if it has a successor. *)
TakeOrLoadTail ==
  IF next[head] # Null
    THEN TakeHead(next[head])
    ELSE consumer' = "tail" /\ UNCHANGED <<head, popped, mode>>

(* Load m_head, which only the consumer uses, and its mpsc_next. *)
PopLoads ==
  /\ consumer = "load"
  /\ seen' = Known(next[head])
  /\ \/ head = Stub /\ next[head] = Null /\ SayEmpty
     \/ /\ head = Stub /\ next[head] # Null
        /\ head' = next[head]
        /\ consumer' = "load2"
        /\ UNCHANGED <<popped, mode>>
     \/ head # Stub /\ TakeOrLoadTail
  /\ UNCHANGED <<next, tails, size, cprev, freed, producerVars>>

(* The stub was skipped: load mpsc_next of the node after it. *)
PopLoadsAgain ==
  /\ consumer = "load2"
  /\ seen' = Known(next[head])
  /\ TakeOrLoadTail
  /\ UNCHANGED <<next, tails, size, cprev, freed, producerVars>>

(* The head is the last node: it can be taken once the stub follows it. *)
InsertStub == consumer' = "stub" /\ UNCHANGED <<head, popped, mode>>

(* Load m_tail: unless it is the head, somebody is inserting behind it. *)
PopLoadsTail ==
  /\ consumer = "tail"
  /\ \E i \in seen..Len(tails) :
       /\ seen' = i
       /\ IF head = tails[i] THEN InsertStub ELSE SayInserting
  /\ UNCHANGED <<next, tails, size, cprev, freed, producerVars>>

(* Push(&m_stub), the same three steps as in a producer *)
PopClearsStub ==
  /\ consumer = "stub"
  /\ next' = [next EXCEPT ![Stub] = Null]
  /\ consumer' = "exchange"
  /\ UNCHANGED <<tails, size, seen, head, cprev, popped, freed, mode,
                 producerVars>>

PopExchanges ==
  /\ consumer = "exchange"
  /\ cprev' = tail
  /\ tails' = Append(tails, Stub)
  /\ seen' = Len(tails) + 1
  /\ consumer' = "link"
  /\ UNCHANGED <<next, size, head, popped, freed, mode, producerVars>>

PopLinks ==
  /\ consumer = "link"
  /\ Link(cprev, Stub)
  /\ consumer' = "load3"
  /\ UNCHANGED <<tails, size, seen, head, cprev, popped, freed, mode,
                 producerVars>>

\* A mutant of AfterHead: what follows the head is taken to be the stub.
AfterHeadIsStub == Stub

AfterHead == next[head]

PopLoadsLast ==
  /\ consumer = "load3"
  /\ IF AfterHead # Null THEN TakeHead(AfterHead) ELSE SayInserting
  /\ UNCHANGED <<next, tails, size, seen, cprev, freed, producerVars>>

(* The destructor does not count. *)
PopCounts ==
  /\ consumer = "count"
  /\ size' = IF mode = "closing" THEN size ELSE SizePlus(-1)
  /\ consumer' = "free"
  /\ UNCHANGED <<next, tails, seen, head, cprev, popped, freed, mode,
                 producerVars>>

(* Move the value out and delete the item; the destructor goes on. *)
PopFrees ==
  /\ consumer = "free"
  /\ freed' = freed \cup {Last(popped)}
  /\ consumer' = IF mode = "closing" THEN "load" ELSE "idle"
  /\ UNCHANGED <<next, tails, size, seen, head, cprev, popped, mode,
                 producerVars>>

-----------------------------------------------------------------------------
ProducerStep(p) ==
  PushBegins(p) \/ PushExchanges(p) \/ PushLinks(p) \/ PushCounts(p)

ConsumerStep ==
  \/ PopLoads \/ PopLoadsAgain \/ PopLoadsTail
  \/ PopClearsStub \/ PopExchanges \/ PopLinks \/ PopLoadsLast
  \/ PopCounts \/ PopFrees

Next ==
  \/ \E p \in Producer : ProducerStep(p)
  \/ PopBegins \/ BeginDestroy \/ ConsumerStep

Spec == Init /\ [][Next]_vars

(***************************************************************************)
(* A Push or Pop under way goes on, and the consumer keeps calling Pop.    *)
(***************************************************************************)
Fairness ==
  /\ \A p \in Producer :
       WF_vars(PushExchanges(p) \/ PushLinks(p) \/ PushCounts(p))
  /\ WF_vars(PopBegins \/ ConsumerStep)

FairSpec == Spec /\ Fairness

-----------------------------------------------------------------------------
(* A sequence without the elements that are in a set *)
Without(s, out) ==
  LET kept[i \in 0..Len(s)] ==
        IF i = 0 THEN <<>>
        ELSE IF s[i] \in out THEN kept[i - 1] ELSE Append(kept[i - 1], s[i])
  IN  kept[Len(s)]

(* The queue as its users see it: a node is in from the exchange on. *)
Queue == Without(tails, ToSet(popped) \cup {Stub})

F == INSTANCE FIFOQueue WITH queue <- Queue

(***************************************************************************)
(* The queue implements a FIFO queue: the exchange (mpsc_queue.cc:25) is   *)
(* the put, the store to m_head that leaves a node behind (46, 61) the     *)
(* get, in whatever order the producers link their nodes.                  *)
(***************************************************************************)
ImplementsFIFO == F!Spec

(***************************************************************************)
(* A node is deleted (typed_mpsc_queue.h:76) only when no producer will    *)
(* link to it any more (mpsc_queue.cc:26) and the consumer has left it.    *)
(***************************************************************************)
NoUseAfterFree ==
  /\ \A p \in Producer : producer[p] = "link" => prev[p] \notin freed
  /\ head \notin freed
  /\ consumer = "link" => cprev \notin freed

(* MPSCQueue::Pop returns with is_empty = true. *)
SaysEmpty == consumer = "load" /\ consumer' = "idle"

(* Nodes that Push is still about to link. *)
Inserting == {node[p] : p \in {q \in Producer : producer[q] = "link"}}

(***************************************************************************)
(* Pop reports an empty queue (mpsc_queue.cc:35-38) only if it is empty or *)
(* if its first node is just being inserted.                               *)
(***************************************************************************)
EmptyUnlessInserting ==
  [][SaysEmpty => Queue = <<>> \/ Head(Queue) \in Inserting]_vars

(* Nodes whose Push has returned. *)
Completed == ToSet(Queue) \ {node[p] : p \in {q \in Producer : producer[q] # "idle"}}

(***************************************************************************)
(* The parameter is_empty "indicates whether the queue is empty or not"    *)
(* (mpsc_queue.h:46): it is not set while there is a node whose Push has   *)
(* returned.                                                               *)
(***************************************************************************)
EmptyMeansEmpty == [][SaysEmpty => Completed = {}]_vars

(***************************************************************************)
(* The destructor (typed_mpsc_queue.h:34-45), which stops at the first     *)
(* null, has deleted all nodes that were pushed and not popped.            *)
(***************************************************************************)
DestroyFreesAll == mode = "closed" => freed = 1..pushes

(***************************************************************************)
(* Pop waits for an insertion to end (typed_mpsc_queue.h:64-66) but never  *)
(* for ever.                                                               *)
(***************************************************************************)
PopReturns == (consumer = "load") ~> (consumer = "idle")
=============================================================================
