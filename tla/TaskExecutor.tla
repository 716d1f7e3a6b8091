---------------------------- MODULE TaskExecutor ----------------------------
(***************************************************************************)
(* What a ThreadPool promises about tasks (threadpool.h:30-109), without   *)
(* its threads and queues.  A task accepted while the pool is up is run to *)
(* its end exactly once, and Destroy returns only after that; a task that  *)
(* a running task hands over while Destroy is already stopping the workers *)
(* may be run or may be dropped.  No task is running when the pool is      *)
(* down.                                                                   *)
(***************************************************************************)
CONSTANT Task

VARIABLES phase,     \* "down", "up" or "closing"
          status     \* status[t], one of the values of Status

Status == {"new", "accepted", "late", "running", "done", "dropped"}

TypeOK ==
  /\ phase \in {"down", "up", "closing"}
  /\ status \in [Task -> Status]

Init == phase = "down" /\ status = [t \in Task |-> "new"]

Open == phase = "down" /\ phase' = "up" /\ UNCHANGED status

\* A task is handed over: by a client, or by a running task.
Submit(t) ==
  /\ status[t] = "new"
  /\ \/ phase = "up" /\ status' = [status EXCEPT ![t] = "accepted"]
     \/ phase = "closing" /\ status' = [status EXCEPT ![t] = "late"]
  /\ UNCHANGED phase

Start(t) ==
  /\ status[t] \in {"accepted", "late"}
  /\ status' = [status EXCEPT ![t] = "running"]
  /\ UNCHANGED phase

Finish(t) ==
  /\ status[t] = "running"
  /\ status' = [status EXCEPT ![t] = "done"]
  /\ UNCHANGED phase

\* The running task t ends and returns the task to run right after it.
FinishInto(t, u) ==
  /\ status[t] = "running"
  /\ status[u] = "new"
  /\ status' = [status EXCEPT ![t] = "done", ![u] = "running"]
  /\ UNCHANGED phase

\* The running task t hands over u from its last step, then ends.
FinishSubmitting(t, u) ==
  /\ status[t] = "running"
  /\ status[u] = "new"
  /\ \E s \in {"accepted", "late"} :
       /\ (s = "accepted") <=> (phase = "up")
       /\ status' = [status EXCEPT ![t] = "done", ![u] = s]
  /\ UNCHANGED phase

Close == phase = "up" /\ phase' = "closing" /\ UNCHANGED status

Down ==
  /\ phase = "closing"
  /\ \A t \in Task : status[t] \notin {"accepted", "running"}
  /\ phase' = "down"
  /\ status' = [t \in Task |->
                  IF status[t] = "late" THEN "dropped" ELSE status[t]]

Next ==
  \/ Open \/ Close \/ Down
  \/ \E t \in Task : Submit(t) \/ Start(t) \/ Finish(t)
  \/ \E t, u \in Task : FinishInto(t, u) \/ FinishSubmitting(t, u)

Spec == Init /\ [][Next]_<<phase, status>>
=============================================================================
