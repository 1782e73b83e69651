------------------------------ MODULE TaskQueue ------------------------------
(* The task queue of the main process (services/task-queue/queue.ts) with    *)
(* the rows it keeps in SQLite (db/repositories/task-repo.ts).               *)
(*                                                                            *)
(* Everything runs on one thread; between two awaits a function is atomic.   *)
(* A run <<t, k>> is one call of execute(t, ...): its pc names the database  *)
(* operation or the executor it awaits.  One action is the effect of that    *)
(* awaited operation and the code up to the next await.                      *)
EXTENDS Integers, Sequences, FiniteSets

CONSTANTS Tasks,           \* task ids
          Calls,           \* names for the execute() calls on one task
          Registered,      \* tasks with an executor registered at start-up
          MaxConcurrency,  \* DEFAULT_MAX_CONCURRENCY in the code
          MaxRetries,      \* the maxRetries column of every task
          NoRun,
          MaxCancels, MaxDeletes, MaxManualRetries, MaxRestarts \* TLC bounds

Runs == Tasks \X Calls

ASSUME QueueAssumption ==
  /\ IsFiniteSet(Tasks) /\ IsFiniteSet(Calls)
  /\ Registered \subseteq Tasks
  /\ MaxConcurrency \in Nat \ {0}
  /\ MaxRetries \in Nat
  /\ NoRun \notin Runs
  /\ {MaxCancels, MaxDeletes, MaxManualRetries, MaxRestarts} \subseteq Nat

VARIABLES
  status, retryCount,        \* the tasks table
  executors,                 \* tasks with an entry in this.executors
  activeCount,               \* this.activeCount
  controllers,               \* this.controllers: task -> the run whose controller it is
  timeoutTimers,             \* this.timeoutTimers: task -> the run whose timer it is
  pendingQueue,              \* this.pendingQueue
  pendingCallbacks,          \* this._pendingCallbacks: task -> the caller to settle
  pc,                        \* where each run is
  sig,                       \* its AbortSignal: "none", "user" or "timeout"
  armed,                     \* runs whose timeout timer is still set
  waits,                     \* the caller each run settles when it ends
  promise,                   \* the promise execute() returned to the caller
  seen,                      \* the retryCount a run read before it writes it
  cancelPc,                  \* the cancel() call on a task
  interrupted,               \* rows recoverPendingTasks has still to handle
  budget                     \* what is left of the TLC bounds

rows    == <<status, retryCount>>
queueVars == <<pendingQueue, pendingCallbacks>>
runVars == <<sig, armed, seen>>
vars == <<status, retryCount, executors, activeCount, controllers,
          timeoutTimers, pendingQueue, pendingCallbacks, pc, sig, armed,
          waits, promise, seen, cancelPc, interrupted, budget>>

Terminal == {"completed", "failed", "cancelled"}
Statuses == {"none", "pending", "running", "deleted"} \cup Terminal

\* The places where a run holds one unit of activeCount ...
Holding == {"starting", "executing", "completing", "writeTimedOut",
            "writeCancelled", "checkRetry", "writeRetry", "reread",
            "writeFailed"}
\* ... and the others.
Places == Holding \cup {"idle", "calling", "retrying", "finding", "queued",
                        "dequeued", "ended"}

TaskOf(r) == r[1]
Exists(t) == status[t] \notin {"none", "deleted"}
Ready     == interrupted = {}    \* IPC handlers are registered after recovery

InQueue == {pendingQueue[i] : i \in 1..Len(pendingQueue)}

-----------------------------------------------------------------------------
Init ==
  /\ status = [t \in Tasks |-> "none"]
  /\ retryCount = [t \in Tasks |-> 0]
  /\ executors = {}
  /\ activeCount = 0
  /\ controllers = [t \in Tasks |-> NoRun]
  /\ timeoutTimers = [t \in Tasks |-> NoRun]
  /\ pendingQueue = <<>>
  /\ pendingCallbacks = [t \in Tasks |-> NoRun]
  /\ pc = [r \in Runs |-> "idle"]
  /\ sig = [r \in Runs |-> "none"]
  /\ armed = {}
  /\ waits = [r \in Runs |-> NoRun]
  /\ promise = [r \in Runs |-> "none"]
  /\ seen = [r \in Runs |-> 0]
  /\ cancelPc = [t \in Tasks |-> "idle"]
  /\ interrupted = {}
  /\ budget = [cancel |-> MaxCancels, delete |-> MaxDeletes,
               retry |-> MaxManualRetries, restart |-> MaxRestarts]

Goto(r, place) == pc' = [pc EXCEPT ![r] = place]

\* A call of execute(): issues the findById.
CallExecute(r) ==
  /\ Goto(r, "finding")
  /\ promise' = [promise EXCEPT ![r] = "waiting"]
  /\ waits' = [waits EXCEPT ![r] = r]

\* enqueue; its caller holds the id it returns and passes it to execute.
Enqueue(r) ==
  /\ Ready /\ status[TaskOf(r)] = "none" /\ pc[r] = "idle"
  /\ status' = [status EXCEPT ![TaskOf(r)] = "pending"]
  /\ Goto(r, "calling")
  /\ UNCHANGED <<retryCount, executors, activeCount, controllers,
                 timeoutTimers, queueVars, runVars, waits, promise,
                 cancelPc, interrupted, budget>>

Execute(r) ==
  /\ pc[r] = "calling"
  /\ CallExecute(r)
  /\ UNCHANGED <<rows, executors, activeCount, controllers, timeoutTimers,
                 queueVars, runVars, cancelPc, interrupted, budget>>

-----------------------------------------------------------------------------
(* Operators named ...Mutant are not part of the system: each is a plausible  *)
(* mistake in the definition after it that some property must catch.          *)

\* The synchronous head of _executeTask.
ExecuteTask(r) ==
  LET t == TaskOf(r) IN
  /\ activeCount' = activeCount + 1
  /\ controllers' = [controllers EXCEPT ![t] = r]
  /\ timeoutTimers' = [timeoutTimers EXCEPT ![t] = r]
  /\ sig' = [sig EXCEPT ![r] = "none"]
  /\ armed' = armed \cup {r}
  /\ Goto(r, "starting")

Settle(caller, outcome) ==
  promise' = IF caller = NoRun THEN promise
             ELSE [promise EXCEPT ![caller] = outcome]

\* _processQueue, with n slots taken, when run r moves to `place`: activeCount
\* does not move inside the loop, so one free slot empties the whole queue.
ProcessQueue(n, r, place) ==
  LET served == {TaskOf(q) : q \in InQueue}
      First(q) == \E i \in 1..Len(pendingQueue) :
                     /\ pendingQueue[i] = q
                     /\ \A j \in 1..(i - 1) : TaskOf(pendingQueue[j]) # TaskOf(q)
  IN IF n < MaxConcurrency
     THEN /\ pendingQueue' = <<>>
          /\ pendingCallbacks' = [t \in Tasks |->
                IF t \in served THEN NoRun ELSE pendingCallbacks[t]]
          /\ waits' = [q \in Runs |->
                IF q \in InQueue
                THEN IF First(q) THEN pendingCallbacks[TaskOf(q)] ELSE NoRun
                ELSE waits[q]]
          /\ pc' = [q \in Runs |-> IF q = r THEN place
                                   ELSE IF q \in InQueue THEN "dequeued"
                                   ELSE pc[q]]
     ELSE Goto(r, place) /\ UNCHANGED <<queueVars, waits>>

\* The entries the finally block deletes are looked up by task id.
FinallyTail(r) ==
  LET t == TaskOf(r) IN
  /\ armed' = armed \ {r, timeoutTimers[t]}
  /\ timeoutTimers' = [timeoutTimers EXCEPT ![t] = NoRun]
  /\ controllers' = [controllers EXCEPT ![t] = NoRun]
  /\ sig' = [sig EXCEPT ![r] = "none"]
  /\ seen' = [seen EXCEPT ![r] = 0]

\* The slot is given back only when the signal was not aborted.
FinallyLeakMutant(r) ==
  LET n == IF sig[r] = "none" THEN activeCount - 1 ELSE activeCount IN
  FinallyTail(r) /\ activeCount' = n /\ ProcessQueue(n, r, "ended")

\* The queue is looked at before the slot is given back.
FinallyQueueFirstMutant(r) ==
  /\ FinallyTail(r)
  /\ activeCount' = activeCount - 1
  /\ ProcessQueue(activeCount, r, "ended")

\* The finally block.
Finally(r) ==
  /\ FinallyTail(r)
  /\ activeCount' = activeCount - 1
  /\ ProcessQueue(activeCount - 1, r, "ended")

\* The run returns the row (its status) or throws NotFound to its caller.
End(r, outcome) == Finally(r) /\ Settle(waits[r], outcome)

\* execute, after findById
ExecuteFound(r) ==
  LET t == TaskOf(r) IN
  /\ pc[r] = "finding"
  /\ IF ~Exists(t)
     THEN /\ Goto(r, "ended")
          /\ Settle(waits[r], "rejected")
          /\ UNCHANGED <<executors, activeCount, controllers, timeoutTimers,
                         queueVars, runVars, waits>>
     ELSE /\ executors' = executors \cup {t}
          /\ UNCHANGED <<promise, seen>>
          /\ IF activeCount >= MaxConcurrency
             THEN /\ pendingQueue' = Append(pendingQueue, r)
                  /\ pendingCallbacks' = [pendingCallbacks EXCEPT ![t] = r]
                  /\ waits' = [waits EXCEPT ![r] = NoRun]
                  /\ Goto(r, "queued")
                  /\ UNCHANGED <<activeCount, controllers, timeoutTimers, sig, armed>>
             ELSE ExecuteTask(r) /\ UNCHANGED <<queueVars, waits>>
  /\ UNCHANGED <<rows, cancelPc, interrupted, budget>>

\* _processQueue's findById and what follows it: no second look at the limit.
DequeuedFound(r) ==
  /\ pc[r] = "dequeued"
  /\ IF ~Exists(TaskOf(r))
     THEN /\ Goto(r, "ended")
          /\ Settle(waits[r], "rejected")
          /\ UNCHANGED <<activeCount, controllers, timeoutTimers, sig, armed>>
     ELSE ExecuteTask(r) /\ UNCHANGED promise
  /\ UNCHANGED <<rows, executors, queueVars, seen, waits, cancelPc,
                 interrupted, budget>>

\* Where the catch block goes for what the executor (or a row that is gone)
\* raised: an aborted signal wins over everything else.
CatchPlace(r, raised) ==
  CASE sig[r] = "timeout"      -> "writeTimedOut"
    [] sig[r] = "user"         -> "writeCancelled"
    [] OTHER -> IF raised = "cancelled" THEN "writeCancelled" ELSE "checkRetry"

\* Another word than the table's for a task that runs.
MarkRunningMutant(r) ==
  /\ pc[r] = "starting" /\ Exists(TaskOf(r))
  /\ status' = [status EXCEPT ![TaskOf(r)] = "executing"]
  /\ Goto(r, "executing")
  /\ UNCHANGED <<retryCount, executors, activeCount, controllers,
                 timeoutTimers, queueVars, runVars, waits, promise, cancelPc,
                 interrupted, budget>>

\* repo.update(taskId, { status: 'running' }), then the executor is called.
MarkRunning(r) ==
  LET t == TaskOf(r) IN
  /\ pc[r] = "starting"
  /\ IF Exists(t)
     THEN /\ status' = [status EXCEPT ![t] = "running"]
          /\ Goto(r, "executing")
     ELSE /\ Goto(r, CatchPlace(r, "error"))
          /\ UNCHANGED status
  /\ UNCHANGED <<retryCount, executors, activeCount, controllers,
                 timeoutTimers, queueVars, runVars, waits, promise, cancelPc,
                 interrupted, budget>>

Outcomes == {"ok", "error", "cancelled"}

\* The executor's promise settles; throwIfAborted looks at the signal.
ExecutorEnds(r, outcome) ==
  /\ pc[r] = "executing"
  /\ Goto(r, IF outcome = "ok" /\ sig[r] = "none" THEN "completing"
             ELSE CatchPlace(r, outcome))
  /\ UNCHANGED <<rows, executors, activeCount, controllers, timeoutTimers,
                 queueVars, runVars, waits, promise, cancelPc, interrupted,
                 budget>>

\* The timeout timer of a run fires.
TimerFires(r) ==
  /\ r \in armed
  /\ armed' = armed \ {r}
  /\ sig' = [sig EXCEPT ![r] = IF @ = "none" THEN "timeout" ELSE @]
  /\ UNCHANGED <<rows, executors, activeCount, controllers, timeoutTimers,
                 queueVars, pc, seen, waits, promise, cancelPc, interrupted,
                 budget>>

\* The final update of a run: to `final` when the row is there, else NotFound.
WriteFinal(r, final) ==
  LET t == TaskOf(r) IN
  /\ IF Exists(t)
     THEN status' = [status EXCEPT ![t] = final] /\ End(r, final)
     ELSE UNCHANGED status /\ End(r, "rejected")
  /\ UNCHANGED <<retryCount, executors, cancelPc, interrupted, budget>>

\* The 'completed' update is inside the try: a missing row goes to the catch.
WriteCompleted(r) ==
  /\ pc[r] = "completing"
  /\ \/ Exists(TaskOf(r)) /\ WriteFinal(r, "completed")
     \/ /\ ~Exists(TaskOf(r))
        /\ Goto(r, CatchPlace(r, "error"))
        /\ UNCHANGED <<rows, executors, activeCount, controllers,
                       timeoutTimers, queueVars, runVars, waits, promise,
                       cancelPc, interrupted, budget>>

WriteTimedOut(r)  == pc[r] = "writeTimedOut"  /\ WriteFinal(r, "failed")
WriteCancelled(r) == pc[r] = "writeCancelled" /\ WriteFinal(r, "cancelled")
WriteFailed(r)    == pc[r] = "writeFailed"    /\ WriteFinal(r, "failed")

WithRow(r) == Exists(TaskOf(r))

\* The error of the missing row is swallowed.
RowGoneMutant(r) ==
  /\ pc[r] \in {"checkRetry", "writeRetry", "reread"}
  /\ ~WithRow(r)
  /\ Finally(r)
  /\ UNCHANGED <<rows, executors, promise, cancelPc, interrupted, budget>>

\* A step of the retry branch that needs the row: throws out of the catch
\* block when the row is gone.
RowGone(r) ==
  /\ pc[r] \in {"checkRetry", "writeRetry", "reread"}
  /\ ~WithRow(r)
  /\ End(r, "rejected")
  /\ UNCHANGED <<rows, executors, cancelPc, interrupted, budget>>

\* One retry too many.
CheckRetryMutant(r) ==
  /\ pc[r] = "checkRetry" /\ WithRow(r)
  /\ seen' = [seen EXCEPT ![r] = retryCount[TaskOf(r)]]
  /\ Goto(r, IF retryCount[TaskOf(r)] <= MaxRetries THEN "writeRetry"
             ELSE "writeFailed")
  /\ UNCHANGED <<rows, executors, activeCount, controllers, timeoutTimers,
                 queueVars, sig, armed, waits, promise, cancelPc, interrupted,
                 budget>>

CheckRetry(r) ==
  /\ pc[r] = "checkRetry" /\ WithRow(r)
  /\ seen' = [seen EXCEPT ![r] = retryCount[TaskOf(r)]]
  /\ Goto(r, IF retryCount[TaskOf(r)] < MaxRetries THEN "writeRetry"
             ELSE "writeFailed")
  /\ UNCHANGED <<rows, executors, activeCount, controllers, timeoutTimers,
                 queueVars, sig, armed, waits, promise, cancelPc, interrupted,
                 budget>>

WriteRetry(r) ==
  LET t == TaskOf(r) IN
  /\ pc[r] = "writeRetry" /\ WithRow(r)
  /\ status' = [status EXCEPT ![t] = "pending"]
  /\ retryCount' = [retryCount EXCEPT ![t] = seen[r] + 1]
  /\ Goto(r, "reread")
  /\ UNCHANGED <<executors, activeCount, controllers, timeoutTimers,
                 queueVars, runVars, waits, promise, cancelPc, interrupted,
                 budget>>

\* The `return` before this._executeTask is missing: the caller gets its
\* answer while the next attempt begins.
RetryAttemptMutant(r) ==
  LET t == TaskOf(r) IN
  /\ pc[r] = "reread" /\ WithRow(r)
  /\ sig' = [sig EXCEPT ![r] = "none"]
  /\ seen' = [seen EXCEPT ![r] = 0]
  /\ armed' = armed \ {r}
  /\ controllers' = [controllers EXCEPT ![t] = NoRun]
  /\ timeoutTimers' = [timeoutTimers EXCEPT ![t] = NoRun]
  /\ Settle(waits[r], "failed")
  /\ ProcessQueue(activeCount, r, "starting")
  /\ UNCHANGED <<rows, executors, activeCount, cancelPc, interrupted, budget>>

\* `return this._executeTask(...)` is not awaited inside the try statement:
\* the new attempt registers its controller and timer and takes a slot, and
\* at once the finally block of the old attempt removes the controller and
\* the timer it finds under the task id - the new attempt's - and gives one
\* slot back before it looks at the queue.
RetryAttempt(r) ==
  LET t == TaskOf(r) IN
  /\ pc[r] = "reread" /\ WithRow(r)
  /\ sig' = [sig EXCEPT ![r] = "none"]
  /\ seen' = [seen EXCEPT ![r] = 0]
  /\ armed' = armed \ {r}
  /\ controllers' = [controllers EXCEPT ![t] = NoRun]
  /\ timeoutTimers' = [timeoutTimers EXCEPT ![t] = NoRun]
  /\ ProcessQueue(activeCount, r, "starting")
  /\ UNCHANGED <<rows, executors, activeCount, promise, cancelPc, interrupted,
                 budget>>

-----------------------------------------------------------------------------
Spend(what) == /\ budget[what] > 0
               /\ budget' = [budget EXCEPT ![what] = @ - 1]

\* cancel: findById; a missing row or a final status throws.
CancelRead(t) ==
  /\ Ready /\ cancelPc[t] = "idle"
  /\ status[t] \in {"pending", "running"}
  /\ Spend("cancel")
  /\ cancelPc' = [cancelPc EXCEPT ![t] = "read"]
  /\ UNCHANGED <<rows, executors, activeCount, controllers, timeoutTimers,
                 queueVars, pc, runVars, waits, promise, interrupted>>

\* A controller under the task id is aborted and that is all; without one the
\* task counts as not yet running.
CancelDecide(t) ==
  LET r == controllers[t] IN
  /\ cancelPc[t] = "read"
  /\ IF r # NoRun
     THEN /\ sig' = [sig EXCEPT ![r] = IF @ = "none" THEN "user" ELSE @]
          /\ cancelPc' = [cancelPc EXCEPT ![t] = "idle"]
     ELSE /\ cancelPc' = [cancelPc EXCEPT ![t] = "write"]
          /\ UNCHANGED sig
  /\ UNCHANGED <<rows, executors, activeCount, controllers, timeoutTimers,
                 queueVars, pc, armed, seen, waits, promise, interrupted,
                 budget>>

CancelWrite(t) ==
  /\ cancelPc[t] = "write"
  /\ IF Exists(t)
     THEN /\ status' = [status EXCEPT ![t] = "cancelled"]
          /\ cancelPc' = [cancelPc EXCEPT ![t] = "reread"]
     ELSE /\ cancelPc' = [cancelPc EXCEPT ![t] = "idle"]
          /\ UNCHANGED status
  /\ UNCHANGED <<retryCount, executors, activeCount, controllers,
                 timeoutTimers, queueVars, pc, runVars, waits, promise,
                 interrupted, budget>>

\* The entry goes and nobody tells its caller.
CancelRemoveSilentMutant(t) ==
  /\ cancelPc[t] = "reread"
  /\ cancelPc' = [cancelPc EXCEPT ![t] = "idle"]
  /\ pc' = [q \in Runs |-> IF q \in InQueue /\ TaskOf(q) = t THEN "ended" ELSE pc[q]]
  /\ pendingQueue' = SelectSeq(pendingQueue, LAMBDA q : TaskOf(q) # t)
  /\ pendingCallbacks' = [pendingCallbacks EXCEPT ![t] = NoRun]
  /\ UNCHANGED <<rows, executors, activeCount, controllers, timeoutTimers,
                 promise, runVars, waits, interrupted, budget>>

\* The second findById, then the first entry of the task leaves the queue.
CancelRemove(t) ==
  LET At == {i \in 1..Len(pendingQueue) : TaskOf(pendingQueue[i]) = t} IN
  /\ cancelPc[t] = "reread"
  /\ cancelPc' = [cancelPc EXCEPT ![t] = "idle"]
  /\ \/ /\ Exists(t)
        /\ \E i \in At :
             /\ \A j \in At : i <= j
             /\ pendingQueue' = SubSeq(pendingQueue, 1, i - 1)
                                \o SubSeq(pendingQueue, i + 1, Len(pendingQueue))
             /\ Goto(pendingQueue[i], "ended")
        /\ pendingCallbacks' = [pendingCallbacks EXCEPT ![t] = NoRun]
        /\ Settle(pendingCallbacks[t], status[t])
     \/ /\ ~Exists(t) \/ At = {}
        /\ UNCHANGED <<queueVars, pc, promise>>
  /\ UNCHANGED <<rows, executors, activeCount, controllers, timeoutTimers,
                 runVars, waits, interrupted, budget>>

\* retry: findById and the look-up of an executor, then the update and a new
\* call of execute.  The status the row has is not looked at.
Retry(r) ==
  LET t == TaskOf(r) IN
  /\ Ready /\ pc[r] = "idle" /\ Exists(t)
  /\ t \in executors \cup Registered
  /\ Spend("retry")
  /\ executors' = executors \cup {t}
  /\ seen' = [seen EXCEPT ![r] = retryCount[t]]
  /\ Goto(r, "retrying")
  /\ UNCHANGED <<rows, activeCount, controllers, timeoutTimers, queueVars,
                 sig, armed, waits, promise, cancelPc, interrupted>>

RetryWrite(r) ==
  LET t == TaskOf(r) IN
  /\ pc[r] = "retrying"
  /\ seen' = [seen EXCEPT ![r] = 0]
  /\ IF Exists(t)
     THEN /\ status' = [status EXCEPT ![t] = "pending"]
          /\ retryCount' = [retryCount EXCEPT ![t] = seen[r] + 1]
          /\ CallExecute(r)
     ELSE /\ Goto(r, "ended")
          /\ UNCHANGED <<rows, promise, waits>>
  /\ UNCHANGED <<executors, activeCount, controllers, timeoutTimers,
                 queueVars, sig, armed, cancelPc, interrupted, budget>>

\* delete: only the row and the executor go; a run of the task goes on.
Delete(t) ==
  /\ Ready /\ Exists(t)
  /\ Spend("delete")
  /\ status' = [status EXCEPT ![t] = "deleted"]
  /\ executors' = executors \ {t}
  /\ UNCHANGED <<retryCount, activeCount, controllers, timeoutTimers,
                 queueVars, pc, runVars, waits, promise, cancelPc, interrupted>>

-----------------------------------------------------------------------------
\* findPending returns the rows left 'running' only.
RestartMutant ==
  /\ Spend("restart")
  /\ interrupted' = {t \in Tasks : status[t] = "running"}
  /\ executors' = {} /\ activeCount' = 0 /\ armed' = {} /\ pendingQueue' = <<>>
  /\ controllers' = [t \in Tasks |-> NoRun]
  /\ timeoutTimers' = [t \in Tasks |-> NoRun]
  /\ pendingCallbacks' = [t \in Tasks |-> NoRun]
  /\ pc' = [r \in Runs |-> "idle"]
  /\ sig' = [r \in Runs |-> "none"]
  /\ waits' = [r \in Runs |-> NoRun]
  /\ promise' = [r \in Runs |-> "none"]
  /\ seen' = [r \in Runs |-> 0]
  /\ cancelPc' = [t \in Tasks |-> "idle"]
  /\ UNCHANGED rows

\* The application ends, in whatever way, and starts again: only the rows
\* survive.  recoverPendingTasks begins with findPending.
Restart ==
  /\ Spend("restart")
  /\ interrupted' = {t \in Tasks : status[t] \in {"pending", "running"}}
  /\ executors' = {}
  /\ activeCount' = 0
  /\ controllers' = [t \in Tasks |-> NoRun]
  /\ timeoutTimers' = [t \in Tasks |-> NoRun]
  /\ pendingQueue' = <<>>
  /\ pendingCallbacks' = [t \in Tasks |-> NoRun]
  /\ pc' = [r \in Runs |-> "idle"]
  /\ sig' = [r \in Runs |-> "none"]
  /\ armed' = {}
  /\ waits' = [r \in Runs |-> NoRun]
  /\ promise' = [r \in Runs |-> "none"]
  /\ seen' = [r \in Runs |-> 0]
  /\ cancelPc' = [t \in Tasks |-> "idle"]
  /\ UNCHANGED rows

\* One round of the loop of recoverPendingTasks: a row left 'running' goes
\* back to 'pending', and the task is executed again if its category has a
\* registered executor.
Recover(r) ==
  LET t == TaskOf(r) IN
  /\ t \in interrupted /\ pc[r] = "idle"
  /\ interrupted' = interrupted \ {t}
  /\ status' = [status EXCEPT ![t] = "pending"]
  /\ IF t \in Registered
     THEN executors' = executors \cup {t} /\ CallExecute(r)
     ELSE UNCHANGED <<executors, pc, promise, waits>>
  /\ UNCHANGED <<retryCount, activeCount, controllers, timeoutTimers,
                 queueVars, runVars, cancelPc, budget>>

-----------------------------------------------------------------------------
\* What a run does on its own, once called.
RunStep(r) ==
  \/ Execute(r) \/ ExecuteFound(r) \/ DequeuedFound(r) \/ MarkRunning(r)
  \/ WriteCompleted(r) \/ WriteTimedOut(r) \/ WriteCancelled(r)
  \/ WriteFailed(r) \/ RowGone(r) \/ CheckRetry(r) \/ WriteRetry(r)
  \/ RetryAttempt(r) \/ RetryWrite(r) \/ Recover(r)

ExecutorStep(r) == \E outcome \in Outcomes : ExecutorEnds(r, outcome)

CancelStep(t) == CancelDecide(t) \/ CancelWrite(t) \/ CancelRemove(t)

Next ==
  \/ \E r \in Runs : \/ RunStep(r) \/ ExecutorStep(r) \/ TimerFires(r)
                     \/ Enqueue(r) \/ Retry(r)
  \/ \E t \in Tasks : CancelStep(t) \/ CancelRead(t) \/ Delete(t)
  \/ Restart

\* The event loop resumes every function whose await is over and fires every
\* timer, and an executor whose signal is aborted gives up.
Fairness ==
  /\ \A r \in Runs : /\ WF_vars(RunStep(r))
                     /\ WF_vars(TimerFires(r))
                     /\ WF_vars(sig[r] # "none" /\ ExecutorStep(r))
  /\ \A t \in Tasks : WF_vars(CancelStep(t))

Spec == Init /\ [][Next]_vars

FairSpec == Spec /\ Fairness

\* In addition every executor ends by itself.
EndingSpec == FairSpec /\ \A r \in Runs : WF_vars(ExecutorStep(r))

-----------------------------------------------------------------------------
\* Every variable keeps its type.
TypeOK ==
  /\ status \in [Tasks -> Statuses]
  /\ retryCount \in [Tasks -> Nat]
  /\ executors \subseteq Tasks
  /\ activeCount \in Int
  /\ controllers \in [Tasks -> Runs \cup {NoRun}]
  /\ timeoutTimers \in [Tasks -> Runs \cup {NoRun}]
  /\ pendingQueue \in Seq(Runs)
  /\ pendingCallbacks \in [Tasks -> Runs \cup {NoRun}]
  /\ pc \in [Runs -> Places]
  /\ sig \in [Runs -> {"none", "user", "timeout"}]
  /\ armed \subseteq Runs
  /\ waits \in [Runs -> Runs \cup {NoRun}]
  /\ promise \in [Runs -> {"none", "waiting", "rejected"} \cup Statuses]
  /\ seen \in [Runs -> Nat]
  /\ cancelPc \in [Tasks -> {"idle", "read", "write", "reread"}]
  /\ interrupted \subseteq Tasks
  /\ budget \in [{"cancel", "delete", "retry", "restart"} -> Nat]

Holders == {r \in Runs : pc[r] \in Holding}

\* Slot accounting: activeCount is exactly the number of runs between the head
\* of _executeTask and its finally block, over every error path, automatic
\* retry, cancellation and deletion.  A path that leaks or returns a slot twice
\* starves or floods the queue for the rest of the process's life.
SlotsAccounted == activeCount = Cardinality(Holders)

\* No lost wake-up: a task waits in pendingQueue only while every slot is
\* taken, so the end of some run will look at the queue.
QueuedOnlyWhenFull == pendingQueue # <<>> => activeCount >= MaxConcurrency

\* An entry of pendingQueue is a run that waits for a slot, and it is there once.
QueueOfWaiting ==
  /\ \A q \in InQueue : pc[q] = "queued"
  /\ \A i, j \in 1..Len(pendingQueue) :
       pendingQueue[i] = pendingQueue[j] => i = j

\* Nobody who awaits execute() is forgotten: as long as the promise is open,
\* some run that has not ended will settle it, or its callbacks are filed
\* under a task that is still in the queue.
NobodyForgotten ==
  \A r \in Runs : promise[r] = "waiting" =>
    \/ \E q \in Runs : waits[q] = r /\ pc[q] \in Holding \cup {"finding", "dequeued"}
    \/ /\ pendingCallbacks[TaskOf(r)] = r
       /\ \E q \in InQueue : TaskOf(q) = TaskOf(r)

\* Nobody waits for something that will not come: a queued task only while the
\* slots are taken, so that the end of some run will look at the queue
\* (_executeTask and its finally block), and a caller of execute() only while
\* some run or some entry of the queue will settle its promise.
NobodyWaitsInVain == QueuedOnlyWhenFull /\ NobodyForgotten

\* What execute() reports is what the row says: batch orchestration acts on
\* the promise, the renderer's monitors on the row.
ReportMatchesRow ==
  \A r \in Runs : promise[r] \in Terminal =>
                    status[TaskOf(r)] \in {promise[r], "deleted"}

\* cancel() and the timeout reach the executor of a task that was not retried:
\* its controller is the one filed under the task id, and its timer is set
\* until the signal is aborted.
FirstAttemptAbortable ==
  \A r \in Runs : pc[r] = "executing" /\ retryCount[TaskOf(r)] = 0 =>
    /\ controllers[TaskOf(r)] = r
    /\ sig[r] = "none" => r \in armed

\* The same for every executor that is running.
RunningIsAbortable ==
  \A r \in Runs : pc[r] = "executing" =>
    /\ controllers[TaskOf(r)] = r
    /\ sig[r] = "none" => r \in armed

\* At most MaxConcurrency tasks are being executed.
ConcurrencyLimit == activeCount <= MaxConcurrency

\* The rows follow the state machine the readers of the table rely on.
Lifecycle == INSTANCE TaskLifecycle WITH
               Tasks <- Tasks, MaxRetries <- MaxRetries,
               status <- status, retryCount <- retryCount
ImplementsLifecycle == Lifecycle!LifecycleSpec

\* Every call of execute() is answered, also when the row is deleted under it.
CallsAnswered ==
  \A r \in Runs : promise[r] = "waiting" ~> promise[r] # "waiting"

\* A task an agent is registered for reaches a final status, across restarts.
RegisteredTasksFinish ==
  \A t \in Registered : status[t] \in {"pending", "running"}
                          ~> status[t] \in Terminal \cup {"deleted"}
=============================================================================
