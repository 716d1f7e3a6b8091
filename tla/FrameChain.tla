----------------------------- MODULE FrameChain -----------------------------
(***************************************************************************)
(* The OpenCL objects of a frame chain (ocl/framechain.h/.cc): those that  *)
(* it makes itself or gets with a client's queue, those that               *)
(* get_extention_info makes for its tests and gives back on each of its    *)
(* paths, and the events of the kernels (ocl/runkernel.cc:265-349).        *)
(*                                                                         *)
(* The OpenCL runtime is external: any of its calls may fail, a failed     *)
(* creation gives a null handle, and a call with a null handle fails and   *)
(* does nothing.  A client's queue is not null, and with it the client     *)
(* gives away its references to the queue and the context, which the       *)
(* destructor releases; it keeps the one to a context that the chain could *)
(* not ask for.  Releasing what exists does not fail.                      *)
(*                                                                         *)
(* Bounds: at most MaxEvents events exist and MaxListed are listed.        *)
(***************************************************************************)
EXTENDS Integers, Sequences, Functions

CONSTANTS MaxEvents, MaxListed

Handle == {"context", "queue", "tuning"}
Temporary == {"context", "queue", "buffer", "program", "kernel"}

VARIABLES
  pc,          \* "none", or where the constructor is, or "open"
  todo,        \* the calls of get_extention_info that are left
  chain,       \* context_, queue_ and tuning_queue_: those that are not null
  kind,        \* the constructor, profiling_ and the tests there will be
  events,      \* event_list; 0 is a null event
  refs,        \* the objects to which there is a reference to be released
  temps,       \* the temporary objects that exist
  live,        \* the events that exist
  lost,        \* history: those of them that nobody will release
  unset,       \* history: an event that was never set was put in a list
  dead         \* history: what did not exist was released

vars == <<pc, todo, chain, kind, events, refs, temps, live, lost, unset, dead>>
eventVars == <<events, live, lost, unset>>

Kind == [queue : BOOLEAN, profiling : BOOLEAN, mobile : BOOLEAN]

(* The calls of get_extention_info that need objects, on mobile GPUs (ARM  *)
(* and Qualcomm) and on others                                             *)
Tests(k) ==
  IF k.mobile THEN <<"program", "build", "kernel", "query">>
  ELSE <<"context", "queue", "buffer", "program", "build", "kernel", "args", "enqueue", "read">>

TypeOK ==
  /\ pc \in {"none", "test", "make queue", "open"}
  /\ kind \in Kind
  /\ chain \subseteq Handle /\ refs \subseteq Handle /\ temps \subseteq Temporary
  /\ \E i \in 1..10 : i <= Len(Tests(kind)) + 1 /\ todo = SubSeq(Tests(kind), i, Len(Tests(kind)))
  /\ events \in Seq(0..MaxEvents) /\ Len(events) <= MaxListed
  /\ live \subseteq 1..MaxEvents /\ lost \subseteq 1..MaxEvents
  /\ unset \in BOOLEAN /\ dead \in BOOLEAN

Init ==
  /\ pc = "none" /\ todo = <<>>
  /\ kind = [queue |-> FALSE, profiling |-> FALSE, mobile |-> FALSE]
  /\ chain = {} /\ refs = {} /\ temps = {}
  /\ events = <<>> /\ live = {} /\ lost = {}
  /\ unset = FALSE /\ dead = FALSE

-----------------------------------------------------------------------------
(* The constructors *)

Begins(k, at, handles, references) ==
  /\ pc = "none" /\ pc' = at
  /\ kind' = k /\ todo' = IF at = "test" THEN Tests(k) ELSE <<>>
  /\ chain' = handles /\ refs' = references
  /\ UNCHANGED <<temps, eventVars, dead>>

(* createDefaultOclFrame: without a context it stops, and profiling_ is    *)
(* not set.                                                                *)
CreateDefault ==
  \E k \in Kind :
    /\ ~k.queue
    /\ \/ Begins(k, "test", {"context"}, {"context"})
       \/ ~k.profiling /\ Begins(k, "open", {}, {})

(* FrameChain(queue): whether it is profiling is what queryProfiling makes *)
(* of the queue; then it asks for the context, the device and the          *)
(* platform.                                                               *)
CreateFromQueue ==
  \E k \in Kind :
    /\ k.queue
    /\ \/ Begins(k, "open", {"queue"}, {"queue"})
       \/ \E at \in {"test", "open"} :
            Begins(k, at, {"queue", "context"}, {"queue", "context"})

(* The queue of the chain, created after the tests *)
MakeQueue ==
  /\ pc = "make queue" /\ pc' = "open"
  /\ \/ UNCHANGED <<chain, refs>>
     \/ chain' = chain \cup {"queue"} /\ refs' = refs \cup {"queue"}
  /\ UNCHANGED <<todo, kind, temps, eventVars, dead>>

-----------------------------------------------------------------------------
(* get_extention_info *)

(* The temporary objects without which a call fails *)
Needs(c) ==
  CASE c \in {"queue", "buffer"} -> {"context"}
    [] c = "program" -> IF kind.mobile THEN {} ELSE {"context"}
    [] c \in {"build", "kernel"} -> {"program"}
    [] c \in {"args", "query"} -> {"kernel"}
    [] c = "enqueue" -> {"queue", "kernel"}
    [] c = "read" -> {"queue", "buffer"}
    [] OTHER -> {}

(* On other GPUs a failed creation shows only when the object is used.     *)
Checked(c) == kind.mobile \/ c \notin Temporary

\* A mutant of GivenBack: a program that does not build is forgotten.
GivenBackOnceBuilt(c) ==
  IF c = "build" THEN Temporary \ {"program", "kernel"} ELSE Temporary

(* What is released when this call is the last; a null handle has no       *)
(* effect.                                                                 *)
GivenBack(c) ==
  CASE kind.mobile /\ c \in {"program", "build"} -> {"program"}
    [] kind.mobile -> {"kernel", "program"}
    [] c = "build" -> Temporary \ {"kernel"}
    [] OTHER -> Temporary

EndTests(c) ==
  /\ temps' = temps \ GivenBack(c)
  /\ todo' = <<>>
  /\ pc' = IF kind.queue THEN "open" ELSE "make queue"

Succeeds(c) ==
  /\ Needs(c) \subseteq temps
  /\ IF Len(todo) = 1 THEN EndTests(c)
     ELSE /\ temps' = temps \cup ({c} \cap Temporary)
          /\ todo' = Tail(todo) /\ pc' = pc

Fails(c) ==
  IF Checked(c) THEN EndTests(c)
  ELSE temps' = temps /\ todo' = Tail(todo) /\ pc' = pc

Test ==
  /\ pc = "test"
  /\ Succeeds(Head(todo)) \/ Fails(Head(todo))
  /\ UNCHANGED <<chain, kind, refs, eventVars, dead>>

-----------------------------------------------------------------------------
(* The open chain *)

(* getTuningQueue: made when it is first asked for, or later if that fails *)
GetTuningQueue ==
  /\ pc = "open"
  /\ "tuning" \notin chain /\ "context" \in chain
  /\ chain' = chain \cup {"tuning"} /\ refs' = refs \cup {"tuning"}
  /\ UNCHANGED <<pc, todo, kind, temps, eventVars, dead>>

Fresh == CHOOSE e \in 1..MaxEvents : e \notin live

(* enqueueOclKernel with profiling_: the event is listed also if the call  *)
(* failed and did not set it.  It is on the stack then, where an earlier   *)
(* event may have been.                                                    *)
Enqueue ==
  /\ pc = "open" /\ kind.profiling /\ Len(events) < MaxListed
  /\ \/ /\ "queue" \in chain /\ live # 1..MaxEvents
        /\ events' = Append(events, Fresh)
        /\ live' = live \cup {Fresh}
        /\ unset' = unset
     \/ \E e \in 0..MaxEvents :
          /\ events' = Append(events, e)
          /\ unset' = (unset \/ e # 0)
          /\ live' = live
  /\ UNCHANGED <<pc, todo, chain, kind, refs, temps, lost, dead>>

(* enqueueOclKernel_tunning, with the queue that getTuningQueue has made.  *)
(* The event of a kernel that flushes, and one for which waiting fails, is *)
(* not released; if it is, nothing has changed.                            *)
EnqueueTuning ==
  /\ pc = "open" /\ "tuning" \in chain
  /\ live # 1..MaxEvents
  /\ live' = live \cup {Fresh} /\ lost' = lost \cup {Fresh}
  /\ UNCHANGED <<pc, todo, chain, kind, events, refs, temps, unset, dead>>

(* clReleaseEvent for every event of the list that is not null             *)
Released == Range(events) \ {0}
ReleasedInVain ==
  \/ ~(Released \subseteq live)
  \/ \E i, j \in DOMAIN events : i # j /\ events[i] = events[j] /\ events[i] # 0

ReleaseEventList ==
  /\ pc = "open" /\ events # <<>>
  /\ events' = <<>>
  /\ live' = live \ Released
  /\ dead' = (dead \/ ReleasedInVain)
  /\ UNCHANGED <<pc, todo, chain, kind, refs, temps, lost, unset>>

\* A mutant of Owned: the tuning queue is not released.
OwnedWithoutTuning == chain \ {"tuning"}

(* What the destructor releases *)
Owned == chain

Destroy ==
  /\ pc = "open" /\ pc' = "none"
  /\ dead' = (dead \/ ~(Owned \subseteq refs) \/ (kind.profiling /\ ReleasedInVain))
  /\ live' = IF kind.profiling THEN live \ Released ELSE live
  /\ refs' = refs \ Owned
  /\ chain' = {} /\ events' = <<>>
  /\ UNCHANGED <<todo, kind, temps, lost, unset>>

Next ==
  \/ CreateDefault \/ CreateFromQueue \/ MakeQueue \/ Test
  \/ GetTuningQueue \/ Enqueue \/ EnqueueTuning \/ ReleaseEventList \/ Destroy

Spec == Init /\ [][Next]_vars

-----------------------------------------------------------------------------
(***************************************************************************)
(* Whatever fails, nothing is released that does not exist, the temporary  *)
(* objects do not outlive the tests, and after the destructor nothing is   *)
(* left but the events of flushing kernels (framechain.cc:189-202,         *)
(* 440-553).  Events that were never set are the exception: after one, no  *)
(* count is right any more.                                                *)
(***************************************************************************)
AllReleased ==
  /\ pc # "test" => temps = {}
  /\ pc = "none" => refs = {}
  /\ ~unset => /\ ~dead
               /\ pc = "none" => live = lost

(***************************************************************************)
(* What an open chain hands out (framechain.h:103-174) and prints          *)
(* (framechain.cc:204-222) exists.                                         *)
(***************************************************************************)
HandedOutExists ==
  pc = "open" =>
    /\ chain \subseteq refs
    /\ ~unset => Released \subseteq live \ lost
=============================================================================
