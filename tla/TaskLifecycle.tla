--------------------------- MODULE TaskLifecycle ---------------------------
(* What the task table promises to everybody who only reads its rows: the   *)
(* status of a task follows one fixed state machine, a result is final, and *)
(* the queue re-runs a task at most MaxRetries times on its own.  The        *)
(* renderer's task monitors and the batch orchestrator are written against   *)
(* this.  TaskQueue is shown to implement it when nobody cancels.            *)
EXTENDS Naturals

CONSTANTS Tasks,       \* the ids a task may have
          MaxRetries   \* the maxRetries column of every task, a natural number

VARIABLES status,      \* the status column; "none" before the row exists
          retryCount   \* the retryCount column

lifecycleVars == <<status, retryCount>>

Terminal == {"completed", "failed", "cancelled"}

Statuses == {"none", "pending", "running", "deleted"} \cup Terminal

LifecycleInit == /\ status = [t \in Tasks |-> "none"]
                 /\ retryCount = [t \in Tasks |-> 0]

Move(t, from, to) == /\ status[t] \in from
                     /\ status' = [status EXCEPT ![t] = to]

\* repo.create, the 'running' update, the three final updates, the deletion
\* of the row, and the reset of an interrupted task at start-up.
Created(t)     == Move(t, {"none"}, "pending")    /\ UNCHANGED retryCount
Started(t)     == Move(t, {"pending"}, "running") /\ UNCHANGED retryCount
Ended(t)       == /\ \E s \in Terminal : Move(t, {"running"}, s)
                  /\ UNCHANGED retryCount
Deleted(t)     == /\ Move(t, Statuses \ {"none", "deleted"}, "deleted")
                  /\ UNCHANGED retryCount
Interrupted(t) == Move(t, {"running"}, "pending") /\ UNCHANGED retryCount

\* The queue's own retry of a failed attempt.
Requeued(t) == /\ Move(t, {"running"}, "pending")
               /\ retryCount[t] < MaxRetries
               /\ retryCount' = [retryCount EXCEPT ![t] = @ + 1]

LifecycleNext ==
  \E t \in Tasks : \/ Created(t) \/ Started(t) \/ Ended(t)
                   \/ Deleted(t) \/ Interrupted(t) \/ Requeued(t)

LifecycleSpec == LifecycleInit /\ [][LifecycleNext]_lifecycleVars
=============================================================================
