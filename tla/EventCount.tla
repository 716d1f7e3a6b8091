----------------------------- MODULE EventCount -----------------------------
(***************************************************************************)
(* ppl::common::EventCount (event_count.h, event_count.cc) over a futex    *)
(* (futex_wrapper.cc).  Waiters call Wait(pred), where pred takes a token  *)
(* if there is one; notifiers add a token and call NotifyOne or NotifyAll. *)
(*                                                                         *)
(* val_ holds the epoch in its upper and the number of waiters in its      *)
(* lower half.  All changes of val_ are read-modify-writes; a waiter whose *)
(* fetch_add comes after a notifier's sees its token, in the other order   *)
(* the notifier sees the waiter.  The plain read of the epoch in           *)
(* CommitWait may be too old, but the kernel compares again.               *)
(*                                                                         *)
(* Bounds: MaxTokens on the notifications; the epoch is modulo EpochMod    *)
(* (2^32), and the model has fewer notifications than that.                *)
(***************************************************************************)
EXTENDS Naturals, FiniteSets

CONSTANTS Waiter, Notifier, MaxTokens, EpochMod

ASSUME WaiterAssumption == IsFiniteSet(Waiter)
ASSUME NotifierAssumption == IsFiniteSet(Notifier)
ASSUME TokensAssumption == MaxTokens \in Nat
ASSUME EpochModAssumption == EpochMod \in Nat /\ EpochMod > MaxTokens

VARIABLES
  epoch, waiters,    \* the two halves of val_
  sleeping,          \* the threads asleep in the futex
  waiter,            \* waiter[w]: where w is in Wait
  key,               \* key[w]: its local variable key, 0 out of scope
  notifier,          \* notifier[n]: where n is
  tokens,            \* what the predicate tests
  produced           \* number of tokens so far

waiterVars == <<sleeping, waiter, key>>
vars == <<epoch, waiters, sleeping, waiter, key, notifier, tokens, produced>>

WaiterState == {"idle", "test", "prepare", "retest", "cancel", "commit",
                "futex", "leave"}
NotifierState == {"idle", "one", "all", "wakeone", "wakeall"}
Epoch == 0..(EpochMod - 1)

TypeOK ==
  /\ epoch \in Epoch
  /\ waiters \in 0..Cardinality(Waiter)
  /\ sleeping \in SUBSET {w \in Waiter : waiter[w] = "futex"}
  /\ waiter \in [Waiter -> WaiterState]
  /\ key \in [Waiter -> Epoch]
  /\ notifier \in [Notifier -> NotifierState]
  /\ tokens \in 0..MaxTokens
  /\ produced \in tokens..MaxTokens

Init ==
  /\ epoch = 0 /\ waiters = 0
  /\ sleeping = {}
  /\ waiter = [w \in Waiter |-> "idle"]
  /\ key = [w \in Waiter |-> 0]
  /\ notifier = [n \in Notifier |-> "idle"]
  /\ tokens = 0 /\ produced = 0

-----------------------------------------------------------------------------
(* A waiter: Wait(pred) *)

Goto(w, from, to) == waiter[w] = from /\ waiter' = [waiter EXCEPT ![w] = to]

CallWait(w) ==
  /\ Goto(w, "idle", "test")
  /\ UNCHANGED <<epoch, waiters, sleeping, key, notifier, tokens, produced>>

(* pred takes a token if it can; w goes on at yes or at no. *)
Pred(w, from, yes, no) ==
  /\ Goto(w, from, IF tokens > 0 THEN yes ELSE no)
  /\ tokens' = IF tokens > 0 THEN tokens - 1 ELSE 0
  /\ UNCHANGED <<epoch, waiters, sleeping, key, notifier, produced>>

FirstTest(w) == Pred(w, "test", "idle", "prepare")
Retest(w) == Pred(w, "retest", "cancel", "commit")

\* A mutant of Register: the waiter is not counted.
RegisterSilently == UNCHANGED waiters

Register == waiters' = waiters + 1

PrepareWait(w) ==
  /\ Goto(w, "prepare", "retest")
  /\ Register
  /\ key' = [key EXCEPT ![w] = epoch]
  /\ UNCHANGED <<epoch, sleeping, notifier, tokens, produced>>

\* A mutant of Unregister: the waiter stays counted.
UnregisterForgotten == UNCHANGED waiters

(* fetch_sub at the end of CancelWait and of CommitWait *)
Unregister == waiters' = waiters - 1

CancelWait(w) ==
  /\ Goto(w, "cancel", "idle")
  /\ Unregister
  /\ key' = [key EXCEPT ![w] = 0]
  /\ UNCHANGED <<epoch, sleeping, notifier, tokens, produced>>

(* CommitWait reads the epoch; it may still see the one of its key. *)
CommitTests(w) ==
  /\ \/ Goto(w, "commit", "futex")
     \/ epoch # key[w] /\ Goto(w, "commit", "leave")
  /\ UNCHANGED <<epoch, waiters, sleeping, key, notifier, tokens, produced>>

\* A mutant of MaySleep: the kernel does not compare.
MaySleepAlways(w) == TRUE

MaySleep(w) == epoch = key[w]

(* FUTEX_WAIT compares and sleeps in one step, or returns at once. *)
FutexWait(w) ==
  /\ waiter[w] = "futex"
  /\ w \notin sleeping
  /\ IF MaySleep(w)
       THEN sleeping' = sleeping \cup {w} /\ UNCHANGED waiter
       ELSE waiter' = [waiter EXCEPT ![w] = "commit"] /\ UNCHANGED sleeping
  /\ UNCHANGED <<epoch, waiters, key, notifier, tokens, produced>>

(* Threads in the set woken return from FUTEX_WAIT. *)
Wake(woken) ==
  /\ sleeping' = sleeping \ woken
  /\ waiter' = [w \in Waiter |-> IF w \in woken THEN "commit" ELSE waiter[w]]

(* FUTEX_WAIT may return although nobody called FUTEX_WAKE. *)
WakeSpuriously(w) ==
  /\ w \in sleeping
  /\ Wake({w})
  /\ UNCHANGED <<epoch, waiters, key, notifier, tokens, produced>>

CommitLeaves(w) ==
  /\ Goto(w, "leave", "prepare")
  /\ Unregister
  /\ key' = [key EXCEPT ![w] = 0]
  /\ UNCHANGED <<epoch, sleeping, notifier, tokens, produced>>

-----------------------------------------------------------------------------
(* A notifier *)

(* It makes the predicate true, then calls NotifyOne or NotifyAll. *)
Produce(n) ==
  /\ notifier[n] = "idle"
  /\ produced < MaxTokens
  /\ produced' = produced + 1
  /\ tokens' = tokens + 1
  /\ \E which \in {"one", "all"} : notifier' = [notifier EXCEPT ![n] = which]
  /\ UNCHANGED <<epoch, waiters, waiterVars>>

\* A mutant of NextEpoch: the epoch stays.
NextEpochSame == epoch

NextEpoch == (epoch + 1) % EpochMod

(* fetch_add of ONE_EPOCH: without waiters there is nobody to wake. *)
Notify(n) ==
  /\ notifier[n] \in {"one", "all"}
  /\ epoch' = NextEpoch
  /\ notifier' = [notifier EXCEPT ![n] =
                    IF waiters = 0 THEN "idle"
                    ELSE IF notifier[n] = "one" THEN "wakeone" ELSE "wakeall"]
  /\ UNCHANGED <<waiters, waiterVars, tokens, produced>>

(* FUTEX_WAKE of one sleeper, or of all. *)
FutexWake(n) ==
  /\ \/ notifier[n] = "wakeone" /\ sleeping # {} /\ \E w \in sleeping : Wake({w})
     \/ /\ notifier[n] = "wakeall" \/ (notifier[n] = "wakeone" /\ sleeping = {})
        /\ Wake(sleeping)
  /\ notifier' = [notifier EXCEPT ![n] = "idle"]
  /\ UNCHANGED <<epoch, waiters, key, tokens, produced>>

-----------------------------------------------------------------------------
WaiterStep(w) ==
  \/ FirstTest(w) \/ PrepareWait(w) \/ Retest(w) \/ CancelWait(w)
  \/ CommitTests(w) \/ FutexWait(w) \/ CommitLeaves(w)

Next ==
  \/ \E w \in Waiter : CallWait(w) \/ WaiterStep(w) \/ WakeSpuriously(w)
  \/ \E n \in Notifier : Produce(n) \/ Notify(n) \/ FutexWake(n)

Spec == Init /\ [][Next]_vars

(***************************************************************************)
(* A thread inside Wait goes on unless it sleeps, and a notifier finishes  *)
(* its call.  The read in CommitWait does not see the old epoch for ever.  *)
(***************************************************************************)
Fairness ==
  /\ \A w \in Waiter :
       /\ WF_vars(WaiterStep(w))
       /\ SF_vars(CommitTests(w) /\ waiter'[w] = "leave")
  /\ \A n \in Notifier : WF_vars(Notify(n) \/ FutexWake(n))

FairSpec == Spec /\ Fairness

-----------------------------------------------------------------------------
(* The waiters that were counted in (event_count.cc:43-46) and not yet out. *)
Registered ==
  {w \in Waiter : waiter[w] \in {"retest", "cancel", "commit", "futex", "leave"}}

(***************************************************************************)
(* The lower half of val_ is the number of registered waiters, so a        *)
(* notifier never skips its FUTEX_WAKE while one may sleep (70, 77).       *)
(***************************************************************************)
WaitersCounted == waiters = Cardinality(Registered)

(* Waiters that will test the predicate before they can sleep. *)
Awake ==
  {w \in Waiter : waiter[w] \in {"test", "prepare", "retest", "leave"}}
    \cup {w \in Waiter : waiter[w] \in {"commit", "futex"} /\ key[w] # epoch
                         /\ w \notin sleeping}

(* Notifiers that will still change the epoch or wake a sleeper. *)
Notifying == {n \in Notifier : notifier[n] # "idle"}

(***************************************************************************)
(* No wakeup is lost: while a waiter sleeps or is about to, each token     *)
(* will be seen by a waiter that is awake, or a notifier is still to       *)
(* notify (event_count.cc:68-73).                                          *)
(***************************************************************************)
NoLostWakeup ==
  sleeping # {} => tokens <= Cardinality(Awake) + Cardinality(Notifying)

(***************************************************************************)
(* A token is taken if somebody waits: no waiter sleeps for ever beside it *)
(* (event_count.h:43-57).                                                  *)
(***************************************************************************)
TokensTaken ==
  (\E w \in Waiter : waiter[w] # "idle") /\ tokens > 0
    ~> (tokens = 0 \/ \A w \in Waiter : waiter[w] = "idle")
=============================================================================
