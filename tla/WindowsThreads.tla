--------------------------- MODULE WindowsThreads ---------------------------
(***************************************************************************)
(* The wrappers that give Windows a part of pthread (windows/pthread.h and *)
(* windows/pthread.cc): pthread_create, _join, _detach and _once.  The     *)
(* routine of every thread calls pthread_once, and so does the client      *)
(* "main", which creates the threads.  A client joins or detaches a thread *)
(* once, with the handle from pthread_create.  The wrappers of mutexes and *)
(* conditions forward to the system's, which are external.                 *)
(***************************************************************************)
EXTENDS Naturals, FiniteSets

CONSTANTS Worker

VARIABLES
  params,      \* the workers whose ThreadParam is allocated
  life,        \* life[t]: "none", "created", "running" or "ended"
  handles,     \* the workers whose thread handle is open
  once_ctrl,
  pc,          \* pc[t]: where t is in pthread_once
  begun,       \* history: how often the function of pthread_once was begun
  ended        \* history: whether it has returned

vars == <<params, life, handles, once_ctrl, pc, begun, ended>>
onceVars == <<once_ctrl, pc, begun, ended>>
threadVars == <<params, life, handles>>

Caller == Worker \cup {"main"}

TypeOK ==
  /\ params \subseteq Worker /\ handles \subseteq Worker
  /\ life \in [Worker -> {"none", "created", "running", "ended"}]
  /\ once_ctrl \in 0..Cardinality(Caller)
  /\ pc \in [Caller -> {"before", "increment", "call", "within", "decrement", "after"}]
  /\ begun \in Nat /\ ended \in BOOLEAN

Init ==
  /\ params = {} /\ handles = {}
  /\ life = [t \in Worker |-> "none"]
  /\ once_ctrl = 0
  /\ pc = [t \in Caller |-> "before"]
  /\ begun = 0 /\ ended = FALSE

-----------------------------------------------------------------------------
(* pthread_create; when it fails it has freed the ThreadParam.             *)
Create(t) ==
  /\ life[t] = "none"
  /\ life' = [life EXCEPT ![t] = "created"]
  /\ params' = params \cup {t}
  /\ handles' = handles \cup {t}
  /\ UNCHANGED onceVars

(* thread_wrapper up to the call of the routine *)
Begin(t) ==
  /\ life[t] = "created"
  /\ life' = [life EXCEPT ![t] = "running"]
  /\ params' = params \ {t}
  /\ UNCHANGED <<handles, onceVars>>

End(t) ==
  /\ life[t] = "running" /\ pc[t] = "after"
  /\ life' = [life EXCEPT ![t] = "ended"]
  /\ UNCHANGED <<params, handles, onceVars>>

CloseHandle(t) ==
  /\ t \in handles
  /\ handles' = handles \ {t}
  /\ UNCHANGED <<params, life, onceVars>>

Join(t) == life[t] = "ended" /\ CloseHandle(t)
Detach(t) == CloseHandle(t)

-----------------------------------------------------------------------------
(* pthread_once *)

Goes(t, to) == pc' = [pc EXCEPT ![t] = to] /\ UNCHANGED threadVars

Read(t) ==
  /\ pc[t] = "before"
  /\ t \in Worker => life[t] = "running"
  /\ Goes(t, IF once_ctrl = 0 THEN "increment" ELSE "after")
  /\ UNCHANGED <<once_ctrl, begun, ended>>

\* A mutant of Incremented: the value that was read, and one.
IncrementedRead == 0 + 1

(* InterlockedIncrement *)
Incremented == once_ctrl + 1

Increment(t) ==
  /\ pc[t] = "increment"
  /\ once_ctrl' = Incremented
  /\ Goes(t, IF once_ctrl' = 1 THEN "call" ELSE "decrement")
  /\ UNCHANGED <<begun, ended>>

Call(t) ==
  \/ /\ pc[t] = "call" /\ Goes(t, "within")
     /\ begun' = begun + 1
     /\ UNCHANGED <<once_ctrl, ended>>
  \/ /\ pc[t] = "within" /\ Goes(t, "after")
     /\ ended' = TRUE
     /\ UNCHANGED <<once_ctrl, begun>>

Decrement(t) ==
  /\ pc[t] = "decrement"
  /\ once_ctrl' = once_ctrl - 1
  /\ Goes(t, "after")
  /\ UNCHANGED <<begun, ended>>

Next ==
  \/ \E t \in Worker : Create(t) \/ Begin(t) \/ End(t) \/ Join(t) \/ Detach(t)
  \/ \E t \in Caller : Read(t) \/ Increment(t) \/ Call(t) \/ Decrement(t)

Spec == Init /\ [][Next]_vars

-----------------------------------------------------------------------------
(***************************************************************************)
(* However the calls of pthread_once overlap (windows/pthread.cc:78-89),   *)
(* the function is begun at most once, and when a caller has returned and  *)
(* nobody is on the way any more, it was run and no later caller will run  *)
(* it again.  It is not said that it has returned when a caller has.  No   *)
(* thread loses its parameters or frees them twice (95-128).               *)
(***************************************************************************)
OnceRun ==
  /\ begun <= 1
  /\ (\E t \in Caller : pc[t] = "after") =>
       \/ \E t \in Caller : pc[t] \notin {"before", "after"}
       \/ ended /\ once_ctrl = 1
  /\ params = {t \in Worker : life[t] = "created"}
=============================================================================
