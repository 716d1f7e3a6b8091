------------------------------- MODULE Logger -------------------------------
(***************************************************************************)
(* The current logger (log.h, log.cc) and the messages that go to it.      *)
(*                                                                         *)
(* g_logger is a static shared pointer with the default logger.  It may be *)
(* constructed before or after the static objects of other source files,   *)
(* which may log (the pool of kernels does so in its destructor), and is   *)
(* destroyed on the other side of them.  SetCurrentLogger assigns another  *)
(* one that stays the client's.  LOG asks for the current logger twice:    *)
(* for the level, and again for the message, which goes to it when the     *)
(* statement ends.  No lock protects any of this, and careless records the *)
(* ways to use it that the code leaves to its clients to avoid.            *)
(***************************************************************************)
EXTENDS Sequences, Functions

CONSTANTS Thread, Custom   \* Custom: the clients' loggers

VARIABLES
  stage,      \* of the program
  statics,    \* the static objects in the order of their construction
  g_logger,   \* the pointer it has
  alive,      \* the loggers that exist
  level_,     \* of each logger
  msg,        \* of each thread: what it is about to log, and where
  careless,   \* history: something was done too early, too late or at once
  wrong       \* history: a message went to no logger, or to another one

vars == <<stage, statics, g_logger, alive, level_, msg, careless, wrong>>

Default == "StdioLogger"
NoLogger == "null"
Levels == {1, 3}   \* LOG_LEVEL_INFO, LOG_LEVEL_ERROR
Static == {"g_logger", "kernel_pool"}
NoMessage == [step |-> "none"]

Init ==
  /\ stage = "start" /\ statics = <<>> /\ g_logger = NoLogger /\ alive = Custom
  /\ level_ = [l \in Custom \cup {Default} |-> 1]
  /\ msg = [t \in Thread |-> NoMessage] /\ careless = FALSE /\ wrong = FALSE

TypeOK ==
  /\ stage \in {"start", "main", "exit"}
  /\ Range(statics) \subseteq Static /\ IsInjective(statics)
  /\ g_logger \in Custom \cup {Default, NoLogger} /\ alive \subseteq Custom \cup {Default}
  /\ level_ \in [Custom \cup {Default} -> Levels]
  /\ careless \in BOOLEAN /\ wrong \in BOOLEAN

(* A static initialiser; main starts when all are done. *)
Construct(s) ==
  /\ stage = "start" /\ s \notin Range(statics)
  /\ statics' = Append(statics, s)
  /\ stage' = IF Len(statics) = 1 THEN "main" ELSE "start"
  /\ IF s = "g_logger" THEN g_logger' = Default /\ alive' = alive \cup {Default}
     ELSE UNCHANGED <<g_logger, alive>>
  /\ UNCHANGED <<level_, msg, careless, wrong>>

(* LOG: the level of the current logger decides; a static object's source *)
(* file may log before g_logger is there, or after.                       *)
Log(t, level) ==
  /\ msg[t] = NoMessage
  /\ wrong' = (wrong \/ g_logger \notin alive)
  /\ careless' = (careless \/ "g_logger" \notin Range(statics))
  /\ IF g_logger \in alive /\ level_[g_logger] <= level
     THEN msg' = [msg EXCEPT ![t] = [step |-> "take", level |-> level, accepted |-> g_logger]]
     ELSE UNCHANGED msg
  /\ UNCHANGED <<stage, statics, g_logger, alive, level_>>

(* LogMessage::LogMessage *)
Take(t) ==
  /\ msg[t] # NoMessage /\ msg[t].step = "take"
  /\ msg' = [msg EXCEPT ![t] = [step |-> "write", level |-> @.level,
                                accepted |-> @.accepted, logger_ |-> g_logger]]
  /\ UNCHANGED <<stage, statics, g_logger, alive, level_, careless, wrong>>

(* LogMessage::~LogMessage *)
Write(t) ==
  /\ msg[t] # NoMessage /\ msg[t].step = "write"
  /\ wrong' = (\/ wrong \/ msg[t].logger_ \notin alive
               \/ msg[t].logger_ # msg[t].accepted \/ level_[msg[t].logger_] > msg[t].level)
  /\ msg' = [msg EXCEPT ![t] = NoMessage]
  /\ UNCHANGED <<stage, statics, g_logger, alive, level_, careless>>

Logging == \E t \in Thread : msg[t] # NoMessage

\* A mutant of Dropped: a client's logger is deleted as well.
DroppedAny(logger) == alive \ {logger}

(* What is left when g_logger lets go: DummyDeleter keeps a client's. *)
Dropped(logger) == alive \ ({logger} \cap {Default})

SetCurrentLogger(logger) ==
  /\ stage = "main" /\ logger \in alive \cap Custom
  /\ g_logger' = logger /\ alive' = Dropped(g_logger)
  /\ careless' = (careless \/ Logging)
  /\ UNCHANGED <<stage, statics, level_, msg, wrong>>

SetLogLevel(logger, level) ==
  /\ logger \in alive
  /\ level_' = [level_ EXCEPT ![logger] = level]
  /\ careless' = (careless \/ Logging)
  /\ UNCHANGED <<stage, statics, g_logger, alive, msg, wrong>>

(* A client deletes a logger of its own; it should not be the current one. *)
Delete(logger) ==
  /\ logger \in alive \cap Custom
  /\ alive' = alive \ {logger}
  /\ careless' = (careless \/ g_logger = logger)
  /\ UNCHANGED <<stage, statics, g_logger, level_, msg, wrong>>

Exit ==
  /\ stage = "main" /\ stage' = "exit"
  /\ careless' = (careless \/ Logging)
  /\ UNCHANGED <<statics, g_logger, alive, level_, msg, wrong>>

(* The pointer itself stays when g_logger is destroyed. *)
Destroy ==
  /\ stage = "exit" /\ statics # <<>>
  /\ statics' = SubSeq(statics, 1, Len(statics) - 1)
  /\ alive' = IF statics[Len(statics)] = "g_logger" THEN Dropped(g_logger) ELSE alive
  /\ careless' = (careless \/ Logging)
  /\ UNCHANGED <<stage, g_logger, level_, msg, wrong>>

Next ==
  \/ \E s \in Static : Construct(s)
  \/ \E t \in Thread : (\E level \in Levels : Log(t, level)) \/ Take(t) \/ Write(t)
  \/ \E l \in Custom : SetCurrentLogger(l) \/ Delete(l)
  \/ \E l \in Custom \cup {Default}, level \in Levels : SetLogLevel(l, level)
  \/ Exit \/ Destroy

(***************************************************************************)
(* Every message goes to the logger whose level let it pass, which is      *)
(* there, unless somebody logs before g_logger is constructed or after it  *)
(* is destroyed, or changes or deletes a logger under a message.  The      *)
(* default logger lives as long as it is the current one (log.cc:131-145,  *)
(* log.h:104-110).                                                         *)
(***************************************************************************)
MessagesKept ==
  /\ wrong => careless
  /\ Default \in alive <=> "g_logger" \in Range(statics) /\ g_logger = Default
=============================================================================
