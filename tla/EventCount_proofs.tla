-------------------------- MODULE EventCount_proofs --------------------------
(***************************************************************************)
(* EventCount loses no wakeup, for all finite sets of waiters and of       *)
(* notifiers.  NoLostWakeup is not inductive: it says nothing of a waiter  *)
(* that has tested the predicate in vain and is about to sleep, and it     *)
(* counts notifiers that will wake a sleeper who did not need it.  The     *)
(* invariant below tells the two kinds of sleepers apart by their keys.    *)
(***************************************************************************)
EXTENDS EventCount, FiniteSetTheorems, TLAPS

(* Notifiers that have not yet changed the epoch *)
Announcing == {n \in Notifier : notifier[n] \in {"one", "all"}}

(* Sleepers with an old key, and waiters that saw no token in this epoch *)
Behind == {w \in sleeping : key[w] # epoch}
Current == {w \in Waiter : waiter[w] \in {"commit", "futex"} /\ key[w] = epoch}

(* Each notification that was announced is a new epoch or will be one, so  *)
(* the epoch does not wrap, and no key is of an epoch to come.             *)
EpochsCounted ==
  /\ epoch + Cardinality(Announcing) = produced
  /\ \A w \in Waiter : key[w] <= epoch

(* A waiter with the key of this epoch has seen that there was no token:   *)
(* those that are there now come from notifiers that are to change it.     *)
CurrentCovered == Current # {} => tokens <= Cardinality(Announcing)

BehindCovered == Behind # {} => tokens <= Cardinality(Awake) + Cardinality(Notifying)

Counted == TypeOK /\ WaitersCounted
Covered == CurrentCovered /\ BehindCovered
IInv == Counted /\ EpochsCounted /\ Covered

-----------------------------------------------------------------------------
(* Cardinalities of sets that differ by at most one element *)

LEMMA CardSubset ==
  ASSUME NEW B, IsFiniteSet(B), NEW A \in SUBSET B
  PROVE  IsFiniteSet(A) /\ Cardinality(A) \in Nat /\ Cardinality(B) \in Nat
         /\ Cardinality(A) <= Cardinality(B)
BY FS_Subset, FS_CardinalityType

LEMMA CardWithout ==
  ASSUME NEW B, IsFiniteSet(B), NEW A, NEW x, IsFiniteSet(A), A \ {x} \subseteq B
  PROVE  Cardinality(A) <= Cardinality(B) + 1
<1>1. Cardinality(A \ {x}) <= Cardinality(B)
  BY CardSubset
<1>2. Cardinality(A \ {x}) = IF x \in A THEN Cardinality(A) - 1 ELSE Cardinality(A)
  BY FS_RemoveElement
<1>3. Cardinality(A) \in Nat /\ Cardinality(B) \in Nat
  BY FS_CardinalityType
<1> QED BY <1>1, <1>2, <1>3

LEMMA CardMore ==
  ASSUME NEW B, IsFiniteSet(B), NEW A \in SUBSET B, NEW x \in B, x \notin A
  PROVE  Cardinality(A) + 1 <= Cardinality(B)
<1>1. IsFiniteSet(A) /\ Cardinality(A \cup {x}) = Cardinality(A) + 1
  BY CardSubset, FS_AddElement
<1> QED BY <1>1, CardSubset, A \cup {x} \in SUBSET B

-----------------------------------------------------------------------------
(* Types and the number of waiters *)

LEMMA InitCounted == Init => IInv
<1> SUFFICES ASSUME Init PROVE IInv
  OBVIOUS
<1>1. Registered = {} /\ Announcing = {} /\ Behind = {} /\ Current = {}
  BY DEF Init, Registered, Announcing, Behind, Current
<1>2. Cardinality(Waiter) \in Nat /\ Cardinality({}) = 0
  BY WaiterAssumption, FS_CardinalityType, FS_EmptySet
<1>3. TypeOK
  BY <1>2, TokensAssumption, EpochModAssumption
     DEF Init, TypeOK, WaiterState, NotifierState, Epoch
<1> QED
  BY <1>1, <1>2, <1>3
     DEF Init, IInv, Counted, Covered, WaitersCounted, EpochsCounted, CurrentCovered, BehindCovered

LEMMA RegisteredFinite ==
  IsFiniteSet(Registered) /\ Cardinality(Registered) \in 0..Cardinality(Waiter)
BY WaiterAssumption, CardSubset, Registered \in SUBSET Waiter DEF Registered

(* PrepareWait counts a waiter in, CancelWait and the end of CommitWait    *)
(* count it out, and nothing else changes the count or the set.            *)
LEMMA CountedKept == Counted /\ [Next]_vars => Counted'
<1> SUFFICES ASSUME TypeOK, WaitersCounted, [Next]_vars
             PROVE  TypeOK' /\ WaitersCounted'
  BY DEF Counted
<1> USE DEF TypeOK, WaiterState, NotifierState
<1>0. /\ IsFiniteSet(Registered) /\ Cardinality(Registered) \in 0..Cardinality(Waiter)
      /\ Cardinality(Waiter) \in Nat
  BY RegisteredFinite, WaiterAssumption, FS_CardinalityType
<1>1. ASSUME NEW w \in Waiter, CallWait(w) PROVE TypeOK' /\ WaitersCounted'
  <2>1. Registered' = Registered
    BY <1>1 DEF CallWait, Goto, Registered
  <2> QED BY <1>1, <2>1 DEF CallWait, Goto, WaitersCounted
<1>2. ASSUME NEW w \in Waiter, FirstTest(w) \/ Retest(w) PROVE TypeOK' /\ WaitersCounted'
  <2>1. Registered' = Registered
    BY <1>2 DEF FirstTest, Retest, Pred, Goto, Registered
  <2>2. tokens' \in 0..tokens
    BY <1>2, TokensAssumption DEF FirstTest, Retest, Pred
  <2> QED BY <1>2, <2>1, <2>2, TokensAssumption DEF FirstTest, Retest, Pred, Goto, WaitersCounted
<1>3. ASSUME NEW w \in Waiter, PrepareWait(w) PROVE TypeOK' /\ WaitersCounted'
  <2>1. Registered' = Registered \cup {w} /\ w \notin Registered
    BY <1>3 DEF PrepareWait, Goto, Registered
  <2>2. Cardinality(Registered') = Cardinality(Registered) + 1
    BY <2>1, <1>0, FS_AddElement
  <2>3. Registered' \in SUBSET Waiter
    BY DEF Registered
  <2>4. Cardinality(Registered') <= Cardinality(Waiter)
    BY <2>3, WaiterAssumption, CardSubset
  <2> QED BY <1>0, <1>3, <2>2, <2>4 DEF PrepareWait, Register, Goto, WaitersCounted
<1>4. ASSUME NEW w \in Waiter, CancelWait(w) \/ CommitLeaves(w) PROVE TypeOK' /\ WaitersCounted'
  <2>1. Registered' = Registered \ {w} /\ w \in Registered
    BY <1>4 DEF CancelWait, CommitLeaves, Goto, Registered
  <2>2. /\ Cardinality(Registered') = Cardinality(Registered) - 1
        /\ Cardinality(Registered') \in Nat
    BY <2>1, <1>0, FS_RemoveElement, FS_CardinalityType
  <2> QED BY <1>0, <1>4, <2>2, EpochModAssumption
          DEF CancelWait, CommitLeaves, Unregister, Goto, WaitersCounted, Epoch
<1>5. ASSUME NEW w \in Waiter, CommitTests(w) PROVE TypeOK' /\ WaitersCounted'
  <2>1. Registered' = Registered
    BY <1>5 DEF CommitTests, Goto, Registered
  <2> QED BY <1>5, <2>1 DEF CommitTests, Goto, WaitersCounted
<1>6. ASSUME NEW w \in Waiter, FutexWait(w) PROVE TypeOK' /\ WaitersCounted'
  <2>1. Registered' = Registered
    BY <1>6 DEF FutexWait, Registered
  <2> QED BY <1>6, <2>1 DEF FutexWait, WaitersCounted
<1>7. ASSUME NEW woken \in SUBSET sleeping, Wake(woken),
             UNCHANGED <<epoch, waiters, key, tokens, produced>>,
             notifier' \in [Notifier -> NotifierState]
      PROVE  TypeOK' /\ WaitersCounted'
  <2>1. Registered' = Registered
    BY <1>7 DEF Wake, Registered
  <2> QED BY <1>7, <2>1 DEF Wake, WaitersCounted
<1>8. ASSUME NEW w \in Waiter, WakeSpuriously(w) PROVE TypeOK' /\ WaitersCounted'
  BY <1>7, <1>8 DEF WakeSpuriously
<1>9. ASSUME NEW n \in Notifier, FutexWake(n) PROVE TypeOK' /\ WaitersCounted'
  BY <1>7, <1>9 DEF FutexWake
<1>10. ASSUME NEW n \in Notifier, Produce(n) PROVE TypeOK' /\ WaitersCounted'
  <2>1. Registered' = Registered
    BY <1>10 DEF Produce, waiterVars, Registered
  <2> QED BY <1>10, <2>1, TokensAssumption DEF Produce, waiterVars, WaitersCounted
<1>11. ASSUME NEW n \in Notifier, Notify(n) PROVE TypeOK' /\ WaitersCounted'
  <2>1. Registered' = Registered
    BY <1>11 DEF Notify, waiterVars, Registered
  <2>2. epoch' \in Epoch
    BY <1>11, EpochModAssumption DEF Notify, NextEpoch, Epoch
  <2> QED BY <1>11, <2>1, <2>2 DEF Notify, waiterVars, WaitersCounted
<1>12. CASE UNCHANGED vars
  BY <1>12 DEF vars, WaitersCounted, Registered
<1> QED
  BY <1>1, <1>2, <1>3, <1>4, <1>5, <1>6, <1>8, <1>9, <1>10, <1>11, <1>12 DEF Next, WaiterStep

-----------------------------------------------------------------------------
(* Epochs and keys *)

LEMMA EpochSucceeds ==
  ASSUME Counted, EpochsCounted, NEW n \in Announcing
  PROVE  /\ NextEpoch = epoch + 1
         /\ \A w \in Waiter : key[w] # NextEpoch
<1>1. IsFiniteSet(Announcing) /\ Announcing # {}
  BY NotifierAssumption, CardSubset, Announcing \in SUBSET Notifier DEF Announcing
<1>2. Cardinality(Announcing) \in Nat \ {0}
  BY <1>1, FS_CardinalityType, FS_EmptySet
<1>3. epoch \in Nat /\ epoch + 1 <= produced /\ produced <= MaxTokens /\ produced \in Nat
  BY <1>2, TokensAssumption, EpochModAssumption DEF Counted, TypeOK, EpochsCounted, Epoch
<1>4. NextEpoch = epoch + 1
  BY <1>3, TokensAssumption, EpochModAssumption DEF NextEpoch
<1>5. \A w \in Waiter : key[w] \in Nat /\ key[w] <= epoch
  BY EpochModAssumption DEF Counted, TypeOK, EpochsCounted, Epoch
<1> QED BY <1>3, <1>4, <1>5

LEMMA EpochsKept == Counted /\ EpochsCounted /\ [Next]_vars => EpochsCounted'
<1> SUFFICES ASSUME Counted, EpochsCounted, [Next]_vars
             PROVE  EpochsCounted'
  OBVIOUS
<1>0. IsFiniteSet(Announcing) /\ Cardinality(Announcing) \in Nat
  BY NotifierAssumption, CardSubset, Announcing \in SUBSET Notifier DEF Announcing
<1>1. ASSUME NEW n \in Notifier, Produce(n) PROVE EpochsCounted'
  <2>1. Announcing' = Announcing \cup {n} /\ n \notin Announcing
    BY <1>1 DEF Produce, Announcing, Counted, TypeOK
  <2>2. Cardinality(Announcing') = Cardinality(Announcing) + 1
    BY <1>0, <2>1, FS_AddElement
  <2> QED BY <1>0, <1>1, <2>2, EpochModAssumption, TokensAssumption
          DEF Produce, waiterVars, EpochsCounted, Counted, TypeOK, Epoch
<1>2. ASSUME NEW n \in Notifier, Notify(n) PROVE EpochsCounted'
  <2>1. Announcing' = Announcing \ {n} /\ n \in Announcing
    BY <1>2 DEF Notify, Announcing, Counted, TypeOK
  <2>2. Cardinality(Announcing') = Cardinality(Announcing) - 1
    BY <1>0, <2>1, FS_RemoveElement
  <2>3. epoch' = epoch + 1
    BY <1>2, <2>1, EpochSucceeds DEF Notify
  <2> QED BY <1>0, <1>2, <2>2, <2>3, EpochModAssumption, TokensAssumption
          DEF Notify, waiterVars, EpochsCounted, Counted, TypeOK, Epoch
<1>3. ASSUME UNCHANGED <<epoch, produced>>, Announcing' = Announcing,
             \A w \in Waiter : key'[w] \in {key[w], epoch, 0}
      PROVE  EpochsCounted'
  BY <1>3, EpochModAssumption DEF EpochsCounted, Counted, TypeOK, Epoch
<1>4. ASSUME NEW w \in Waiter, PrepareWait(w) \/ CancelWait(w) \/ CommitLeaves(w)
      PROVE  EpochsCounted'
  BY <1>3, <1>4 DEF PrepareWait, CancelWait, CommitLeaves, Announcing, Counted, TypeOK
<1>5. ASSUME NEW w \in Waiter, CallWait(w) \/ FirstTest(w) \/ Retest(w) \/ CommitTests(w)
                               \/ FutexWait(w) \/ WakeSpuriously(w)
      PROVE  EpochsCounted'
  BY <1>3, <1>5 DEF CallWait, FirstTest, Retest, Pred, CommitTests, FutexWait, WakeSpuriously, Announcing
<1>6. ASSUME NEW n \in Notifier, FutexWake(n) PROVE EpochsCounted'
  BY <1>3, <1>6 DEF FutexWake, Announcing, Counted, TypeOK
<1>7. CASE UNCHANGED vars
  BY <1>3, <1>7 DEF vars, Announcing
<1> QED BY <1>1, <1>2, <1>4, <1>5, <1>6, <1>7 DEF Next, WaiterStep

-----------------------------------------------------------------------------
(* Sleepers are covered. *)

LEMMA ActorsFinite ==
  /\ IsFiniteSet(Awake) /\ Cardinality(Awake) \in Nat
  /\ IsFiniteSet(Notifying) /\ Cardinality(Notifying) \in Nat
  /\ IsFiniteSet(Announcing) /\ Cardinality(Announcing) \in Nat
  /\ Cardinality(Announcing) <= Cardinality(Notifying)
<1>1. Awake \in SUBSET Waiter /\ Notifying \in SUBSET Notifier /\ Announcing \in SUBSET Notifying
  BY DEF Awake, Notifying, Announcing
<1>2. IsFiniteSet(Awake) /\ IsFiniteSet(Notifying)
  BY <1>1, WaiterAssumption, NotifierAssumption, CardSubset
<1> QED BY <1>1, <1>2, CardSubset

(* A step that disturbs nobody but one waiter that goes on without a token *)
LEMMA SameCover ==
  ASSUME TypeOK, Covered, UNCHANGED <<epoch, tokens, notifier>>,
         Awake \subseteq Awake', Current' \subseteq Current, Behind' \subseteq Behind
  PROVE  Covered'
<1>1. Announcing' = Announcing /\ Notifying' = Notifying
  BY DEF Announcing, Notifying
<1>2. Awake' \in SUBSET Waiter
  BY DEF Awake
<1>3. /\ Cardinality(Awake) <= Cardinality(Awake')
      /\ Cardinality(Awake) \in Nat /\ Cardinality(Awake') \in Nat
  BY <1>2, WaiterAssumption, CardSubset, Awake \in SUBSET Awake'
<1> QED
  BY <1>1, <1>3, ActorsFinite, TokensAssumption
     DEF Covered, CurrentCovered, BehindCovered, TypeOK

(* Waking sleepers makes those that are behind go round once more.         *)
LEMMA WokenCover ==
  ASSUME TypeOK, Covered, NEW woken \in SUBSET sleeping, Wake(woken),
         UNCHANGED <<epoch, waiters, key, tokens, produced>>
  PROVE  /\ Awake \subseteq Awake' /\ Current' \subseteq Current /\ Behind' = Behind \ woken
         /\ \A w \in woken \cap Behind : w \in Awake' \ Awake
         /\ IsFiniteSet(Awake')
<1>1. IsFiniteSet(Awake')
  BY WaiterAssumption, CardSubset, Awake' \in SUBSET Waiter DEF Awake
<1> QED BY <1>1 DEF Wake, Awake, Current, Behind, TypeOK, WaiterState

LEMMA CoveredKept == Counted /\ EpochsCounted /\ Covered /\ [Next]_vars => Covered'
<1> SUFFICES ASSUME Counted, EpochsCounted, Covered, [Next]_vars
             PROVE  Covered'
  OBVIOUS
<1>0. TypeOK
  BY DEF Counted
<1>1. ASSUME NEW w \in Waiter,
             CallWait(w) \/ PrepareWait(w) \/ CancelWait(w) \/ CommitLeaves(w)
               \/ CommitTests(w) \/ FutexWait(w)
      PROVE  Covered'
  <2>1. UNCHANGED <<epoch, tokens, notifier>>
    BY <1>1 DEF CallWait, PrepareWait, CancelWait, CommitLeaves, CommitTests, FutexWait
  <2>2. Awake \subseteq Awake' /\ Current' \subseteq Current /\ Behind' \subseteq Behind
    <3>1. CASE CallWait(w) \/ PrepareWait(w) \/ CancelWait(w) \/ CommitLeaves(w)
      BY <1>0, <3>1 DEF CallWait, PrepareWait, CancelWait, CommitLeaves, Goto,
                        Awake, Current, Behind, TypeOK, WaiterState
    <3>2. CASE CommitTests(w)
      BY <1>0, <3>2 DEF CommitTests, Goto, Awake, Current, Behind, TypeOK, WaiterState
    <3>3. CASE FutexWait(w)
      BY <1>0, <3>3 DEF FutexWait, MaySleep, Awake, Current, Behind, TypeOK, WaiterState
    <3> QED BY <1>1, <3>1, <3>2, <3>3
  <2> QED BY <1>0, <2>1, <2>2, SameCover
<1>2. ASSUME NEW w \in Waiter, FirstTest(w) \/ Retest(w) PROVE Covered'
  <2>1. UNCHANGED <<epoch, notifier, sleeping, key>>
    BY <1>2 DEF FirstTest, Retest, Pred
  <2>2. Announcing' = Announcing /\ Notifying' = Notifying /\ Behind' = Behind
    BY <2>1 DEF Announcing, Notifying, Behind
  <2>3. CASE tokens = 0
    <3>1. tokens' = 0
      BY <1>2, <2>3 DEF FirstTest, Retest, Pred
    <3>2. IsFiniteSet(Awake')
      BY WaiterAssumption, CardSubset, Awake' \in SUBSET Waiter DEF Awake
    <3> QED BY <2>2, <3>1, <3>2, ActorsFinite, FS_CardinalityType
            DEF Covered, CurrentCovered, BehindCovered
  <2>4. CASE tokens > 0
    <3>1. tokens' = tokens - 1 /\ tokens \in Nat
      BY <1>0, <1>2, <2>4, TokensAssumption DEF FirstTest, Retest, Pred, TypeOK
    <3>2. Awake \ {w} \subseteq Awake' /\ Current' = Current
      BY <1>0, <1>2, <2>4 DEF FirstTest, Retest, Pred, Goto, Awake, Current, TypeOK, WaiterState
    <3>3. IsFiniteSet(Awake') /\ Cardinality(Awake') \in Nat
      BY WaiterAssumption, CardSubset, Awake' \in SUBSET Waiter DEF Awake
    <3>4. Cardinality(Awake) <= Cardinality(Awake') + 1
      BY <3>2, <3>3, ActorsFinite, CardWithout
    <3> QED BY <2>2, <3>1, <3>2, <3>3, <3>4, ActorsFinite
            DEF Covered, CurrentCovered, BehindCovered
  <2> QED BY <1>0, <2>3, <2>4, TokensAssumption DEF TypeOK
<1>3. ASSUME NEW w \in Waiter, WakeSpuriously(w) PROVE Covered'
  <2>1. /\ Wake({w}) /\ {w} \in SUBSET sleeping
        /\ UNCHANGED <<epoch, waiters, key, notifier, tokens, produced>>
    BY <1>3 DEF WakeSpuriously
  <2>2. Awake \subseteq Awake' /\ Current' \subseteq Current /\ Behind' \subseteq Behind
    BY <1>0, <2>1, WokenCover
  <2> QED BY <1>0, <2>1, <2>2, SameCover
<1>4. ASSUME NEW n \in Notifier, Produce(n) PROVE Covered'
  <2>1. /\ UNCHANGED <<epoch, waiter, sleeping, key>> /\ tokens' = tokens + 1
        /\ Awake' = Awake /\ Current' = Current /\ Behind' = Behind
        /\ Announcing' = Announcing \cup {n} /\ n \notin Announcing
        /\ Notifying' = Notifying \cup {n} /\ n \notin Notifying
    BY <1>0, <1>4 DEF Produce, waiterVars, Awake, Current, Behind, Announcing, Notifying, TypeOK
  <2>2. /\ Cardinality(Announcing') = Cardinality(Announcing) + 1
        /\ Cardinality(Notifying') = Cardinality(Notifying) + 1
    BY <2>1, ActorsFinite, FS_AddElement
  <2> QED BY <1>0, <2>1, <2>2, ActorsFinite, TokensAssumption
          DEF Covered, CurrentCovered, BehindCovered, TypeOK
<1>5. ASSUME NEW n \in Notifier, Notify(n) PROVE Covered'
  <2>1. n \in Announcing /\ UNCHANGED <<sleeping, waiter, key, tokens>> /\ epoch' = NextEpoch
    BY <1>5 DEF Notify, waiterVars, Announcing
  <2>2. \A w \in Waiter : key[w] # epoch'
    BY <2>1, EpochSucceeds
  <2>3. Current' = {} /\ Behind' = sleeping /\ Awake \subseteq Awake'
    BY <1>0, <2>1, <2>2 DEF Current, Behind, Awake, TypeOK
  <2>4. CASE waiters = 0
    <3>1. Registered = {}
      BY <2>4, RegisteredFinite, FS_EmptySet DEF Counted, WaitersCounted
    <3>2. sleeping = {}
      BY <1>0, <3>1 DEF Registered, TypeOK
    <3> QED BY <2>3, <3>2 DEF Covered, CurrentCovered, BehindCovered
  <2>5. CASE waiters # 0
    <3>1. Notifying' = Notifying
      BY <1>0, <1>5, <2>5 DEF Notify, Notifying, TypeOK
    <3>2. /\ Cardinality(Awake) <= Cardinality(Awake')
          /\ Cardinality(Awake) \in Nat /\ Cardinality(Awake') \in Nat
      <4>1. Awake' \in SUBSET Waiter
        BY DEF Awake
      <4> QED BY <2>3, <4>1, WaiterAssumption, CardSubset
    <3>3. sleeping # {} => Current # {} \/ Behind # {}
      BY <1>0 DEF Current, Behind, TypeOK
    <3> QED BY <1>0, <2>1, <2>3, <3>1, <3>2, <3>3, ActorsFinite, TokensAssumption
            DEF Covered, CurrentCovered, BehindCovered, TypeOK
  <2> QED BY <2>4, <2>5
<1>6. ASSUME NEW n \in Notifier, FutexWake(n) PROVE Covered'
  <2>1. PICK woken \in SUBSET sleeping :
          /\ Wake(woken)
          /\ woken = sleeping \/ \E w \in sleeping : woken = {w}
    BY <1>6 DEF FutexWake
  <2>2. /\ UNCHANGED <<epoch, waiters, key, tokens, produced>>
        /\ Announcing' = Announcing /\ Notifying \ {n} \subseteq Notifying'
        /\ IsFiniteSet(Notifying')
    <3>1. IsFiniteSet(Notifying')
      BY NotifierAssumption, CardSubset, Notifying' \in SUBSET Notifier DEF Notifying
    <3> QED BY <1>0, <1>6, <3>1 DEF FutexWake, Announcing, Notifying, TypeOK
  <2>3. /\ Awake \subseteq Awake' /\ Current' \subseteq Current /\ Behind' = Behind \ woken
        /\ \A w \in woken \cap Behind : w \in Awake' \ Awake
        /\ IsFiniteSet(Awake')
    BY <1>0, <2>1, <2>2, WokenCover
  <2>4. Cardinality(Notifying) <= Cardinality(Notifying') + 1 /\ Cardinality(Notifying') \in Nat
    BY <2>2, ActorsFinite, CardWithout, FS_CardinalityType
  <2>5. Cardinality(Awake) <= Cardinality(Awake') /\ Cardinality(Awake') \in Nat
    BY <2>3, CardSubset, Awake \in SUBSET Awake'
  <2>6. CurrentCovered'
    BY <2>2, <2>3 DEF Covered, CurrentCovered
  <2>7. BehindCovered'
    <3> SUFFICES ASSUME Behind' # {}
                 PROVE  tokens' <= Cardinality(Awake') + Cardinality(Notifying')
      BY DEF BehindCovered
    <3>1. PICK w \in sleeping : woken = {w}
      BY <2>1, <2>3 DEF Behind
    <3>2. tokens <= Cardinality(Awake) + Cardinality(Notifying) /\ tokens \in Nat
      BY <1>0, <2>3, TokensAssumption DEF Covered, BehindCovered, TypeOK
    <3>3. CASE w \in Behind
      <4>1. Cardinality(Awake) + 1 <= Cardinality(Awake')
        BY <2>3, <3>1, <3>3, CardMore
      <4> QED BY <2>2, <2>4, <2>5, <3>2, <4>1, ActorsFinite
    <3>4. CASE w \notin Behind
      <4>1. w \in Current
        BY <1>0, <3>4 DEF Behind, Current, TypeOK
      <4>2. tokens <= Cardinality(Announcing')
        BY <2>2, <4>1 DEF Covered, CurrentCovered
      <4>3. Cardinality(Announcing') <= Cardinality(Notifying')
        BY <2>2, CardSubset, Announcing' \in SUBSET Notifying' DEF Announcing, Notifying
      <4> QED BY <2>2, <2>4, <2>5, <3>2, <4>2, <4>3, ActorsFinite
    <3> QED BY <3>3, <3>4
  <2> QED BY <2>6, <2>7 DEF Covered
<1>7. CASE UNCHANGED vars
  BY <1>7 DEF vars, Covered, CurrentCovered, BehindCovered, Current, Behind, Awake,
              Announcing, Notifying
<1> QED BY <1>1, <1>2, <1>3, <1>4, <1>5, <1>6, <1>7 DEF Next, WaiterStep

-----------------------------------------------------------------------------
(* val_'s halves and the threads' variables keep their types (event_count.h:60). *)
THEOREM TypeCorrect == Spec => []TypeOK
<1>1. Init => Counted
  BY InitCounted DEF IInv
<1>2. Counted => TypeOK
  BY DEF Counted
<1> QED BY <1>1, <1>2, CountedKept, PTL DEF Spec

(***************************************************************************)
(* The number of waiters in val_ is right, whatever the interleaving and   *)
(* the returns of the futex.                                               *)
(***************************************************************************)
THEOREM CountRight == Spec => []WaitersCounted
<1>1. Init => Counted
  BY InitCounted DEF IInv
<1>2. Counted => WaitersCounted
  BY DEF Counted
<1> QED BY <1>1, <1>2, CountedKept, PTL DEF Spec

(***************************************************************************)
(* No wakeup is lost: while a waiter sleeps there are no more tokens than  *)
(* waiters that will still test and notifiers that will still wake.        *)
(***************************************************************************)
THEOREM WakeupsKept == Spec => []NoLostWakeup
<1>1. IInv /\ [Next]_vars => IInv'
  BY CountedKept, EpochsKept, CoveredKept DEF IInv
<1>2. IInv => NoLostWakeup
  <2> SUFFICES ASSUME IInv, sleeping # {}
               PROVE  tokens <= Cardinality(Awake) + Cardinality(Notifying)
    BY DEF NoLostWakeup
  <2>1. Current # {} \/ Behind # {}
    BY DEF IInv, Counted, TypeOK, Current, Behind
  <2>2. tokens \in Nat
    BY TokensAssumption DEF IInv, Counted, TypeOK
  <2> QED BY <2>1, <2>2, ActorsFinite DEF IInv, Covered, CurrentCovered, BehindCovered
<1> QED BY <1>1, <1>2, InitCounted, PTL DEF Spec
=============================================================================
