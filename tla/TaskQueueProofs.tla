--------------------------- MODULE TaskQueueProofs ---------------------------
(* Proofs about TaskQueue, for every number of tasks, every limit and any     *)
(* number of cancellations, deletions, manual retries and restarts, and that  *)
(* it implements TaskLifecycle.                                               *)
EXTENDS TaskQueue, FiniteSetTheorems, SequenceTheorems, TLAPS

\* A run is a call on a task.
LEMMA TaskOfRun == ASSUME NEW r \in Runs PROVE TaskOf(r) \in Tasks
BY DEF Runs, TaskOf

\* Removing one entry of a queue leaves a queue.
LEMMA RemovalIsQueue ==
  ASSUME NEW S, NEW s \in Seq(S), NEW i \in 1..Len(s)
  PROVE  SubSeq(s, 1, i - 1) \o SubSeq(s, i + 1, Len(s)) \in Seq(S)
OBVIOUS

LEMMA InitTypeOK == Init => TypeOK
BY QueueAssumption DEF Init, TypeOK, Statuses, Terminal, Places, Holding

-----------------------------------------------------------------------------
\* Two steps many actions end with keep the types.
LEMMA ProcessQueueType ==
  ASSUME TypeOK, NEW r \in Runs, NEW n \in Int, NEW place \in Places,
         ProcessQueue(n, r, place)
  PROVE  /\ pendingQueue' \in Seq(Runs)
         /\ pendingCallbacks' \in [Tasks -> Runs \cup {NoRun}]
         /\ waits' \in [Runs -> Runs \cup {NoRun}]
         /\ pc' \in [Runs -> Places]
<1>1. \A q \in Runs : TaskOf(q) \in Tasks
  BY TaskOfRun
<1>2. CASE n < MaxConcurrency
  <2>1. pendingQueue' \in Seq(Runs)
    BY <1>2 DEF ProcessQueue
  <2>2. pendingCallbacks' \in [Tasks -> Runs \cup {NoRun}]
    BY <1>2 DEF ProcessQueue, TypeOK
  <2>3. waits' \in [Runs -> Runs \cup {NoRun}]
    <3>1. ASSUME NEW q \in Runs
          PROVE  {pendingCallbacks[TaskOf(q)], NoRun, waits[q]}
                   \subseteq Runs \cup {NoRun}
      BY <1>1 DEF TypeOK
    <3>2. \E P \in [Runs -> BOOLEAN] :
            waits' = [q \in Runs |-> IF q \in InQueue
                                    THEN IF P[q] THEN pendingCallbacks[TaskOf(q)]
                                         ELSE NoRun
                                    ELSE waits[q]]
      <4> DEFINE P == [q \in Runs |-> \E i \in 1..Len(pendingQueue) :
                        /\ pendingQueue[i] = q
                        /\ \A j \in 1..(i - 1) : TaskOf(pendingQueue[j]) # TaskOf(q)]
      <4>1. P \in [Runs -> BOOLEAN]
        OBVIOUS
      <4>2. waits' = [q \in Runs |-> IF q \in InQueue
                                    THEN IF P[q] THEN pendingCallbacks[TaskOf(q)]
                                         ELSE NoRun
                                    ELSE waits[q]]
        BY <1>2, Zenon DEF ProcessQueue
      <4> QED BY <4>1, <4>2
    <3> QED BY <3>1, <3>2
  <2>4. pc' \in [Runs -> Places]
    BY <1>2 DEF ProcessQueue, TypeOK, Places
  <2> QED BY <2>1, <2>2, <2>3, <2>4
<1>3. CASE ~ (n < MaxConcurrency)
  BY <1>3 DEF TypeOK, ProcessQueue, Goto, queueVars
<1> QED BY <1>2, <1>3

LEMMA ExecuteTaskType ==
  ASSUME TypeOK, NEW r \in Runs, ExecuteTask(r)
  PROVE  /\ activeCount' \in Int
         /\ controllers' \in [Tasks -> Runs \cup {NoRun}]
         /\ timeoutTimers' \in [Tasks -> Runs \cup {NoRun}]
         /\ sig' \in [Runs -> {"none", "user", "timeout"}]
         /\ armed' \subseteq Runs
         /\ pc' \in [Runs -> Places]
<1>1. activeCount' = activeCount + 1 /\ activeCount \in Int
  BY DEF ExecuteTask, TypeOK
<1>2. /\ controllers' \in [Tasks -> Runs \cup {NoRun}]
      /\ timeoutTimers' \in [Tasks -> Runs \cup {NoRun}]
  BY DEF ExecuteTask, TypeOK
<1>3. /\ sig' \in [Runs -> {"none", "user", "timeout"}]
      /\ armed' \subseteq Runs
  BY DEF ExecuteTask, TypeOK
<1>4. pc' \in [Runs -> Places]
  BY DEF ExecuteTask, Goto, TypeOK, Places, Holding
<1> QED BY <1>1, <1>2, <1>3, <1>4

LEMMA EndType ==
  ASSUME TypeOK, NEW r \in Runs,
         NEW outcome \in {"rejected"} \cup Statuses, End(r, outcome)
  PROVE  /\ activeCount' \in Int
         /\ controllers' \in [Tasks -> Runs \cup {NoRun}]
         /\ timeoutTimers' \in [Tasks -> Runs \cup {NoRun}]
         /\ pendingQueue' \in Seq(Runs)
         /\ pendingCallbacks' \in [Tasks -> Runs \cup {NoRun}]
         /\ pc' \in [Runs -> Places]
         /\ sig' \in [Runs -> {"none", "user", "timeout"}]
         /\ armed' \subseteq Runs
         /\ waits' \in [Runs -> Runs \cup {NoRun}]
         /\ promise' \in [Runs -> {"none", "waiting", "rejected"} \cup Statuses]
         /\ seen' \in [Runs -> Nat]
<1>1. activeCount - 1 \in Int /\ "ended" \in Places
  BY DEF TypeOK, Places
<1>2. ProcessQueue(activeCount - 1, r, "ended")
  BY DEF End, Finally
<1>3. /\ pendingQueue' \in Seq(Runs)
      /\ pendingCallbacks' \in [Tasks -> Runs \cup {NoRun}]
      /\ waits' \in [Runs -> Runs \cup {NoRun}]
      /\ pc' \in [Runs -> Places]
  BY <1>1, <1>2, ProcessQueueType
<1>4. promise' \in [Runs -> {"none", "waiting", "rejected"} \cup Statuses]
  BY DEF End, Settle, TypeOK
<1>5. /\ activeCount' \in Int
      /\ controllers' \in [Tasks -> Runs \cup {NoRun}]
      /\ timeoutTimers' \in [Tasks -> Runs \cup {NoRun}]
      /\ sig' \in [Runs -> {"none", "user", "timeout"}]
      /\ armed' \subseteq Runs
      /\ seen' \in [Runs -> Nat]
  <2>1. activeCount' = activeCount - 1 /\ activeCount \in Int
    BY DEF End, Finally, FinallyTail, TypeOK
  <2>2. controllers' \in [Tasks -> Runs \cup {NoRun}]
    BY DEF End, Finally, FinallyTail, TypeOK
  <2>3. timeoutTimers' \in [Tasks -> Runs \cup {NoRun}]
    BY DEF End, Finally, FinallyTail, TypeOK
  <2>4. sig' \in [Runs -> {"none", "user", "timeout"}]
    BY DEF End, Finally, FinallyTail, TypeOK
  <2>5. armed' \subseteq Runs /\ seen' \in [Runs -> Nat]
    BY DEF End, Finally, FinallyTail, TypeOK
  <2> QED BY <2>1, <2>2, <2>3, <2>4, <2>5
<1> QED BY <1>3, <1>4, <1>5

LEMMA CallExecuteType ==
  ASSUME TypeOK, NEW r \in Runs, CallExecute(r)
  PROVE  /\ pc' \in [Runs -> Places]
         /\ promise' \in [Runs -> {"none", "waiting", "rejected"} \cup Statuses]
         /\ waits' \in [Runs -> Runs \cup {NoRun}]
BY DEF CallExecute, Goto, TypeOK, Places

LEMMA CatchPlaceType ==
  ASSUME NEW r, NEW raised PROVE CatchPlace(r, raised) \in Holding
BY DEF CatchPlace, Holding

LEMMA RunStepType ==
  ASSUME TypeOK, NEW r \in Runs, RunStep(r) PROVE TypeOK'
<1>t. TaskOf(r) \in Tasks
  BY TaskOfRun
<1>s. {"pending", "running", "completed", "failed", "cancelled"} \subseteq Statuses
  BY DEF Statuses, Terminal
<1>p. Holding \subseteq Places
  BY DEF Places
<1> USE <1>t
<1>1. CASE Execute(r)
  BY <1>1 DEF Execute, CallExecute, Goto, TypeOK, Places, rows, queueVars, runVars
<1>2. CASE ExecuteFound(r)
  <2>1. CASE ~Exists(TaskOf(r))
    BY <1>2, <2>1 DEF ExecuteFound, Settle, Goto, TypeOK, Places, rows,
       queueVars, runVars
  <2>2. CASE Exists(TaskOf(r)) /\ activeCount >= MaxConcurrency
    <3>1. /\ pendingQueue' = Append(pendingQueue, r)
          /\ pendingCallbacks' = [pendingCallbacks EXCEPT ![TaskOf(r)] = r]
          /\ waits' = [waits EXCEPT ![r] = NoRun]
          /\ pc' = [pc EXCEPT ![r] = "queued"]
          /\ executors' = executors \cup {TaskOf(r)}
      BY <1>2, <2>2 DEF ExecuteFound, Goto
    <3>2. pendingQueue' \in Seq(Runs)
      BY <3>1 DEF TypeOK
    <3>3. /\ pendingCallbacks' \in [Tasks -> Runs \cup {NoRun}]
          /\ waits' \in [Runs -> Runs \cup {NoRun}]
          /\ pc' \in [Runs -> Places]
      BY <3>1 DEF TypeOK, Places
    <3>4. UNCHANGED <<promise, seen, activeCount, controllers, timeoutTimers,
                      sig, armed, rows, cancelPc, interrupted, budget>>
      BY <1>2, <2>2 DEF ExecuteFound
    <3> QED BY <3>1, <3>2, <3>3, <3>4 DEF TypeOK, rows
  <2>3. CASE Exists(TaskOf(r)) /\ ~ (activeCount >= MaxConcurrency)
    <3>1. ExecuteTask(r)
      BY <1>2, <2>3 DEF ExecuteFound
    <3> QED BY <1>2, <2>3, <3>1, ExecuteTaskType
            DEF ExecuteFound, TypeOK, rows, queueVars
  <2> QED BY <2>1, <2>2, <2>3
<1>3. CASE DequeuedFound(r)
  <2>1. CASE ~Exists(TaskOf(r))
    BY <1>3, <2>1 DEF DequeuedFound, Settle, Goto, TypeOK, Places, rows, queueVars
  <2>2. CASE Exists(TaskOf(r))
    BY <1>3, <2>2, ExecuteTaskType DEF DequeuedFound, TypeOK, rows, queueVars
  <2> QED BY <2>1, <2>2
<1>4. CASE MarkRunning(r)
  <2>1. pc' \in [Runs -> Places]
    <3>1. CatchPlace(r, "error") \in Places /\ "executing" \in Places
      BY <1>p, CatchPlaceType DEF Holding
    <3>2. \E place \in Places : pc' = [pc EXCEPT ![r] = place]
      BY <1>4, <3>1 DEF MarkRunning, Goto
    <3> QED BY <3>2 DEF TypeOK
  <2> QED BY <1>4, <1>s, <2>1 DEF MarkRunning, TypeOK, rows, queueVars, runVars
<1>5. CASE WriteCompleted(r)
  <2>1. CASE Exists(TaskOf(r)) /\ WriteFinal(r, "completed")
    BY <1>s, <2>1, EndType DEF WriteFinal, TypeOK
  <2>2. CASE ~Exists(TaskOf(r)) /\ Goto(r, CatchPlace(r, "error"))
    <3>1. pc' \in [Runs -> Places]
      BY <2>2, <1>p, CatchPlaceType DEF Goto, TypeOK
    <3> QED BY <1>5, <2>2, <3>1 DEF WriteCompleted, WriteFinal, TypeOK, rows, queueVars, runVars
  <2> QED BY <1>5, <2>1, <2>2 DEF WriteCompleted
<1>6. CASE WriteTimedOut(r) \/ WriteCancelled(r) \/ WriteFailed(r)
  BY <1>6, <1>s, EndType DEF WriteTimedOut, WriteCancelled, WriteFailed, WriteFinal, TypeOK
<1>7. CASE RowGone(r)
  BY <1>7, EndType DEF RowGone, TypeOK, rows
<1>8. CASE CheckRetry(r)
  BY <1>8 DEF CheckRetry, Goto, TypeOK, Places, Holding, rows, queueVars
<1>9. CASE WriteRetry(r)
  BY <1>9, <1>s DEF WriteRetry, Goto, TypeOK, Places, Holding, queueVars, runVars
<1>10. CASE RetryAttempt(r)
  <2>1. /\ pendingQueue' \in Seq(Runs)
        /\ pendingCallbacks' \in [Tasks -> Runs \cup {NoRun}]
        /\ waits' \in [Runs -> Runs \cup {NoRun}]
        /\ pc' \in [Runs -> Places]
    <3>1. "starting" \in Places /\ activeCount \in Int
      BY DEF TypeOK, Places, Holding
    <3> QED BY <1>10, <3>1, ProcessQueueType DEF RetryAttempt
  <2> QED BY <1>10, <2>1 DEF RetryAttempt, TypeOK, rows
<1>11. CASE RetryWrite(r)
  <2>1. CASE Exists(TaskOf(r))
    <3>1. seen[r] + 1 \in Nat /\ "pending" \in Statuses /\ "finding" \in Places
      BY <1>s DEF TypeOK, Places
    <3>2. /\ status' \in [Tasks -> Statuses] /\ retryCount' \in [Tasks -> Nat]
          /\ seen' \in [Runs -> Nat]
      BY <1>11, <2>1, <3>1 DEF RetryWrite, TypeOK
    <3>3. CallExecute(r)
      BY <1>11, <2>1 DEF RetryWrite
    <3> QED BY <1>11, <3>2, <3>3, CallExecuteType DEF RetryWrite, TypeOK, queueVars
  <2>2. CASE ~Exists(TaskOf(r))
    BY <1>11, <2>2 DEF RetryWrite, Goto, TypeOK, Places, rows, queueVars
  <2> QED BY <2>1, <2>2
<1>12. CASE Recover(r)
  <2>1. CASE TaskOf(r) \in Registered
    <3>1. CallExecute(r)
      BY <1>12, <2>1 DEF Recover
    <3>2. status' \in [Tasks -> Statuses]
      BY <1>12, <1>s DEF Recover, TypeOK
    <3> QED BY <1>12, <2>1, <3>1, <3>2, CallExecuteType
            DEF Recover, TypeOK, queueVars, runVars
  <2>2. CASE TaskOf(r) \notin Registered
    BY <1>12, <1>s, <2>2 DEF Recover, TypeOK, queueVars, runVars
  <2> QED BY <2>1, <2>2
<1> QED BY <1>1, <1>2, <1>3, <1>4, <1>5, <1>6, <1>7, <1>8, <1>9, <1>10, <1>11,
           <1>12 DEF RunStep

LEMMA CancelRemoveType ==
  ASSUME TypeOK, NEW t \in Tasks, CancelRemove(t) PROVE TypeOK'
<1> DEFINE At == {i \in 1..Len(pendingQueue) : TaskOf(pendingQueue[i]) = t}
<1>1. CASE Exists(t) /\ At # {}
  <2>0. Len(pendingQueue) \in Nat /\ pendingQueue \in Seq(Runs)
    BY DEF TypeOK
  <2>1. PICK i \in 1..Len(pendingQueue) :
          /\ pendingQueue' = SubSeq(pendingQueue, 1, i - 1)
                             \o SubSeq(pendingQueue, i + 1, Len(pendingQueue))
          /\ pc' = [pc EXCEPT ![pendingQueue[i]] = "ended"]
    BY <1>1 DEF CancelRemove, Goto
  <2>2. pendingQueue' \in Seq(Runs)
    BY <2>0, <2>1, RemovalIsQueue
  <2>3. pc' \in [Runs -> Places]
    BY <2>1 DEF TypeOK, Places
  <2>4. /\ pendingCallbacks' \in [Tasks -> Runs \cup {NoRun}]
        /\ promise' \in [Runs -> {"none", "waiting", "rejected"} \cup Statuses]
    BY <1>1 DEF CancelRemove, Settle, TypeOK
  <2> QED BY <2>2, <2>3, <2>4 DEF CancelRemove, TypeOK, rows, runVars
<1>2. CASE ~Exists(t) \/ At = {}
  BY <1>2 DEF CancelRemove, TypeOK, rows, queueVars, runVars
<1> QED BY <1>1, <1>2

LEMMA TypePreserved == TypeOK /\ [Next]_vars => TypeOK'
<1> SUFFICES ASSUME TypeOK, [Next]_vars PROVE TypeOK'
  OBVIOUS
<1>s. {"pending", "cancelled", "deleted"} \subseteq Statuses
  BY DEF Statuses, Terminal
<1>1. ASSUME NEW r \in Runs, RunStep(r) PROVE TypeOK'
  BY <1>1, RunStepType
<1>2. ASSUME NEW r \in Runs, ExecutorStep(r) PROVE TypeOK'
  <2>1. PICK outcome \in Outcomes : ExecutorEnds(r, outcome)
    BY <1>2 DEF ExecutorStep
  <2>2. pc' \in [Runs -> Places]
    BY <2>1, CatchPlaceType DEF ExecutorEnds, Goto, TypeOK, Places, Holding
  <2> QED BY <2>1, <2>2 DEF ExecutorEnds, TypeOK, rows, queueVars, runVars
<1>3. ASSUME NEW r \in Runs, TimerFires(r) PROVE TypeOK'
  BY <1>3 DEF TimerFires, TypeOK, rows, queueVars
<1>4. ASSUME NEW r \in Runs, Enqueue(r) PROVE TypeOK'
  BY <1>4, <1>s, TaskOfRun DEF Enqueue, Goto, TypeOK, Places, queueVars, runVars
<1>5. ASSUME NEW r \in Runs, Retry(r) PROVE TypeOK'
  BY <1>5, TaskOfRun DEF Retry, Spend, Goto, TypeOK, Places, rows, queueVars
<1>6. ASSUME NEW t \in Tasks, CancelDecide(t) PROVE TypeOK'
  <2>1. CASE controllers[t] # NoRun
    <3>1. /\ controllers[t] \in Runs
          /\ sig' = [sig EXCEPT ![controllers[t]] = IF @ = "none" THEN "user" ELSE @]
      BY <1>6, <2>1 DEF CancelDecide, TypeOK
    <3>2. sig' \in [Runs -> {"none", "user", "timeout"}]
      BY <3>1 DEF TypeOK
    <3>3. cancelPc' = [cancelPc EXCEPT ![t] = "idle"]
      BY <1>6, <2>1 DEF CancelDecide
    <3> QED BY <1>6, <3>2, <3>3 DEF CancelDecide, TypeOK, rows, queueVars
  <2>2. CASE controllers[t] = NoRun
    BY <1>6, <2>2 DEF CancelDecide, TypeOK, rows, queueVars
  <2> QED BY <2>1, <2>2
<1>7. ASSUME NEW t \in Tasks, CancelWrite(t) PROVE TypeOK'
  <2>1. CASE Exists(t)
    <3>1. /\ status' = [status EXCEPT ![t] = "cancelled"]
          /\ cancelPc' = [cancelPc EXCEPT ![t] = "reread"]
      BY <1>7, <2>1 DEF CancelWrite
    <3> QED BY <1>7, <1>s, <3>1 DEF CancelWrite, TypeOK, queueVars, runVars
  <2>2. CASE ~Exists(t)
    BY <1>7, <2>2 DEF CancelWrite, TypeOK, queueVars, runVars
  <2> QED BY <2>1, <2>2
<1>8. ASSUME NEW t \in Tasks, CancelRemove(t) PROVE TypeOK'
  BY <1>8, CancelRemoveType
<1>9. ASSUME NEW t \in Tasks, CancelRead(t) PROVE TypeOK'
  BY <1>9 DEF CancelRead, Spend, TypeOK, rows, queueVars, runVars
<1>10. ASSUME NEW t \in Tasks, Delete(t) PROVE TypeOK'
  BY <1>10, <1>s DEF Delete, Spend, TypeOK, queueVars, runVars
<1>11. CASE Restart
  BY <1>11 DEF Restart, Spend, TypeOK, rows, Places, Holding
<1>12. CASE UNCHANGED vars
  BY <1>12 DEF vars, TypeOK
<1> QED BY <1>1, <1>2, <1>3, <1>4, <1>5, <1>6, <1>7, <1>8, <1>9, <1>10, <1>11,
           <1>12 DEF Next, CancelStep

\* The variables of the queue keep their types, whatever the callers do.
THEOREM TypeCorrect == Spec => []TypeOK
BY InitTypeOK, TypePreserved, PTL DEF Spec

-----------------------------------------------------------------------------
\* The three facts about slots and the queue that hold together: none of them
\* is inductive alone, since a served queue must not contain a slot holder.
SlotInv == SlotsAccounted /\ QueuedOnlyWhenFull /\ QueueOfWaiting

LEMMA RunsFinite == IsFiniteSet(Runs)
BY QueueAssumption, FS_Product DEF Runs

LEMMA HoldersFinite == IsFiniteSet(Holders) /\ Cardinality(Holders) \in Nat
BY RunsFinite, FS_Subset, FS_CardinalityType, Holders \subseteq Runs DEF Holders

LEMMA InitSlotInv == Init => SlotInv
<1> SUFFICES ASSUME Init PROVE SlotInv
  OBVIOUS
<1>1. Holders = {}
  BY DEF Init, Holders, Holding
<1>2. SlotsAccounted
  BY <1>1, FS_EmptySet DEF Init, SlotsAccounted
<1> QED BY <1>2 DEF Init, SlotInv, QueuedOnlyWhenFull, QueueOfWaiting, InQueue

\* A run moves between two places that both hold a slot, or both do not.
LEMMA MoveKeeps ==
  ASSUME TypeOK, SlotInv, NEW r \in Runs, NEW place,
         pc[r] # "queued",
         pc' = [pc EXCEPT ![r] = place],
         pc[r] \in Holding <=> place \in Holding,
         activeCount' = activeCount, pendingQueue' = pendingQueue
  PROVE  SlotInv'
<1>1. Holders' = Holders
  BY DEF Holders, TypeOK
<1>2. InQueue' = InQueue /\ r \notin InQueue /\ InQueue \subseteq Runs
  BY DEF InQueue, SlotInv, QueueOfWaiting, TypeOK
<1>3. QueueOfWaiting'
  BY <1>2 DEF SlotInv, QueueOfWaiting, TypeOK
<1> QED BY <1>1, <1>3 DEF SlotInv, SlotsAccounted, QueuedOnlyWhenFull

\* Nothing about runs, slots or the queue changes.
LEMMA StutterKeeps ==
  ASSUME SlotInv, UNCHANGED <<pc, activeCount, pendingQueue>>
  PROVE  SlotInv'
BY DEF SlotInv, SlotsAccounted, QueuedOnlyWhenFull, QueueOfWaiting, Holders, InQueue

\* A run takes a slot.
LEMMA TakeKeeps ==
  ASSUME TypeOK, SlotInv, NEW r \in Runs,
         pc[r] \in {"finding", "dequeued"},
         ExecuteTask(r), pendingQueue' = pendingQueue
  PROVE  SlotInv'
<1>1. pc' = [pc EXCEPT ![r] = "starting"] /\ activeCount' = activeCount + 1
  BY DEF ExecuteTask, Goto
<1>2. r \notin Holders /\ Holders' = Holders \cup {r}
  BY <1>1 DEF Holders, Holding, TypeOK
<1>3. Cardinality(Holders') = Cardinality(Holders) + 1
  BY <1>2, HoldersFinite, FS_AddElement
<1>4. InQueue' = InQueue /\ r \notin InQueue /\ InQueue \subseteq Runs
  BY DEF InQueue, SlotInv, QueueOfWaiting, TypeOK
<1>5. QueueOfWaiting'
  BY <1>1, <1>4 DEF SlotInv, QueueOfWaiting, TypeOK
<1>6. QueuedOnlyWhenFull'
  BY <1>1, QueueAssumption DEF SlotInv, QueuedOnlyWhenFull, TypeOK
<1>7. SlotsAccounted'
  BY <1>1, <1>3 DEF SlotInv, SlotsAccounted
<1> QED BY <1>5, <1>6, <1>7 DEF SlotInv

\* _processQueue moves nobody who holds a slot but r itself.
LEMMA ProcessQueueKeeps ==
  ASSUME TypeOK, SlotInv, NEW r \in Runs, NEW n \in Int, NEW place,
         pc[r] # "queued", ProcessQueue(n, r, place)
  PROVE  /\ \A q \in Runs \ {r} : pc'[q] \in Holding <=> pc[q] \in Holding
         /\ pc'[r] = place
         /\ pendingQueue' # <<>> => n >= MaxConcurrency
         /\ QueueOfWaiting'
<1>0. r \notin InQueue /\ InQueue \subseteq Runs
  BY DEF InQueue, SlotInv, QueueOfWaiting, TypeOK
<1>1. CASE n < MaxConcurrency
  <2>1. /\ pendingQueue' = <<>>
        /\ pc' = [q \in Runs |-> IF q = r THEN place
                                 ELSE IF q \in InQueue THEN "dequeued"
                                 ELSE pc[q]]
    BY <1>1, Zenon DEF ProcessQueue
  <2>2. \A q \in InQueue : pc[q] \notin Holding
    BY DEF SlotInv, QueueOfWaiting, Holding
  <2>3. \A q \in Runs \ {r} : pc'[q] \in Holding <=> pc[q] \in Holding
    BY <2>1, <2>2 DEF Holding
  <2>4. QueueOfWaiting'
    BY <2>1 DEF QueueOfWaiting, InQueue
  <2> QED BY <2>1, <2>3, <2>4
<1>2. CASE ~ (n < MaxConcurrency)
  <2>1. pc' = [pc EXCEPT ![r] = place] /\ pendingQueue' = pendingQueue
    BY <1>2 DEF ProcessQueue, Goto, queueVars
  <2>2. QueueOfWaiting'
    <3>1. InQueue' = InQueue
      BY <2>1 DEF InQueue
    <3>2. \A q \in InQueue : pc'[q] = pc[q]
      BY <1>0, <2>1 DEF TypeOK
    <3> QED BY <2>1, <3>1, <3>2 DEF SlotInv, QueueOfWaiting
  <2>3. n >= MaxConcurrency
    BY <1>2, QueueAssumption
  <2> QED BY <2>1, <2>2, <2>3 DEF TypeOK
<1> QED BY <1>1, <1>2, QueueAssumption

\* A run gives its slot back.
LEMMA GiveKeeps ==
  ASSUME TypeOK, SlotInv, NEW r \in Runs, NEW outcome,
         pc[r] \in Holding, End(r, outcome)
  PROVE  SlotInv'
<1>1. /\ activeCount' = activeCount - 1 /\ activeCount - 1 \in Int
      /\ ProcessQueue(activeCount - 1, r, "ended")
  BY DEF End, Finally, FinallyTail, TypeOK
<1>2. pc[r] # "queued"
  BY DEF Holding
<1>3. /\ \A q \in Runs \ {r} : pc'[q] \in Holding <=> pc[q] \in Holding
      /\ pc'[r] = "ended"
      /\ pendingQueue' # <<>> => activeCount - 1 >= MaxConcurrency
      /\ QueueOfWaiting'
  BY <1>1, <1>2, ProcessQueueKeeps
<1>4. r \in Holders /\ Holders' = Holders \ {r}
  BY <1>3 DEF Holders, Holding
<1>5. Cardinality(Holders') = Cardinality(Holders) - 1
  BY <1>4, HoldersFinite, FS_RemoveElement
<1> QED BY <1>1, <1>3, <1>5 DEF SlotInv, SlotsAccounted, QueuedOnlyWhenFull

\* A run without a free slot goes to the end of the queue.
LEMMA AppendKeeps ==
  ASSUME TypeOK, SlotInv, NEW r \in Runs,
         pc[r] = "finding", activeCount >= MaxConcurrency,
         pendingQueue' = Append(pendingQueue, r),
         pc' = [pc EXCEPT ![r] = "queued"],
         activeCount' = activeCount
  PROVE  SlotInv'
<1>0. r \notin InQueue /\ InQueue \subseteq Runs /\ pendingQueue \in Seq(Runs)
  <2>1. pendingQueue \in Seq(Runs)
    BY DEF TypeOK
  <2>2. InQueue \subseteq Runs
    BY <2>1, ElementOfSeq DEF InQueue
  <2> QED BY <2>1, <2>2 DEF SlotInv, QueueOfWaiting
<1>1. Holders' = Holders
  BY DEF Holders, Holding, TypeOK
<1>2. /\ Len(pendingQueue') = Len(pendingQueue) + 1
      /\ \A i \in 1..Len(pendingQueue') :
           pendingQueue'[i] = IF i = Len(pendingQueue) + 1 THEN r
                              ELSE pendingQueue[i]
  BY <1>0
<1>3. InQueue' = InQueue \cup {r}
  BY <1>0, <1>2 DEF InQueue
<1>4. \A i, j \in 1..Len(pendingQueue') :
        pendingQueue'[i] = pendingQueue'[j] => i = j
  <2>1. \A i \in 1..Len(pendingQueue) : pendingQueue[i] # r
    BY <1>0 DEF InQueue
  <2> QED BY <1>0, <1>2, <2>1 DEF SlotInv, QueueOfWaiting
<1>5. \A q \in InQueue' : pc'[q] = "queued"
  BY <1>0, <1>3 DEF SlotInv, QueueOfWaiting, TypeOK
<1> QED BY <1>1, <1>4, <1>5
        DEF SlotInv, SlotsAccounted, QueuedOnlyWhenFull, QueueOfWaiting

\* What is left of a sequence when entry i is removed ...
LEMMA RemovalShape ==
  ASSUME NEW S, NEW s \in Seq(S), NEW i \in 1..Len(s)
  PROVE  LET u == SubSeq(s, 1, i - 1) \o SubSeq(s, i + 1, Len(s))
         IN  /\ Len(u) = Len(s) - 1
             /\ \A k \in 1..(Len(s) - 1) : u[k] = IF k < i THEN s[k] ELSE s[k + 1]
<1> DEFINE a == SubSeq(s, 1, i - 1)
           b == SubSeq(s, i + 1, Len(s))
<1>0. Len(s) \in Nat /\ i \in Nat /\ i <= Len(s)
  OBVIOUS
<1>1. a \in Seq(S) /\ Len(a) = i - 1 /\ \A k \in 1..(i - 1) : a[k] = s[k]
  OBVIOUS
<1>2. b \in Seq(S) /\ Len(b) = Len(s) - i
  OBVIOUS
<1>3. \A k \in 1..(Len(s) - i) : b[k] = s[i + k]
  OBVIOUS
<1> SUFFICES /\ Len(a \o b) = Len(s) - 1
             /\ \A k \in 1..(Len(s) - 1) : (a \o b)[k] = IF k < i THEN s[k] ELSE s[k + 1]
  OBVIOUS
<1> HIDE DEF a, b
<1>4. Len(a \o b) = Len(s) - 1
  BY <1>0, <1>1, <1>2
<1>5. ASSUME NEW k \in 1..(Len(s) - 1)
      PROVE  (a \o b)[k] = IF k < i THEN s[k] ELSE s[k + 1]
  <2>0. k \in Nat /\ k \in 1..(Len(a) + Len(b))
    BY <1>0, <1>1, <1>2
  <2>1. CASE k < i
    <3>1. (a \o b)[k] = a[k]
      BY <1>0, <1>1, <1>2, <2>0, <2>1
    <3> QED BY <1>0, <1>1, <2>0, <2>1, <3>1
  <2>2. CASE ~ (k < i)
    <3>1. (a \o b)[k] = b[k - Len(a)]
      BY <1>0, <1>1, <1>2, <2>0, <2>2
    <3>2. k - Len(a) \in 1..(Len(s) - i) /\ i + (k - Len(a)) = k + 1
      BY <1>0, <1>1, <1>2, <2>0, <2>2
    <3> QED BY <1>3, <2>2, <3>1, <3>2
  <2> QED BY <2>1, <2>2
<1> QED BY <1>4, <1>5

LEMMA RemovalKeeps ==
  ASSUME TypeOK, SlotInv, NEW i \in 1..Len(pendingQueue),
         pendingQueue' = SubSeq(pendingQueue, 1, i - 1)
                         \o SubSeq(pendingQueue, i + 1, Len(pendingQueue)),
         pc' = [pc EXCEPT ![pendingQueue[i]] = "ended"],
         activeCount' = activeCount
  PROVE  SlotInv'
<1> DEFINE r == pendingQueue[i]
<1>0. /\ pendingQueue \in Seq(Runs)
      /\ \A j, k \in 1..Len(pendingQueue) :
           pendingQueue[j] = pendingQueue[k] => j = k
      /\ \A q \in InQueue : pc[q] = "queued"
      /\ InQueue \subseteq Runs
      /\ pendingQueue # <<>>
  <2>1. pendingQueue \in Seq(Runs) /\ pendingQueue # <<>>
    BY DEF TypeOK
  <2>2. InQueue \subseteq Runs
    BY <2>1, ElementOfSeq DEF InQueue
  <2> QED BY <2>1, <2>2 DEF SlotInv, QueueOfWaiting
<1>1. r \in InQueue /\ r \in Runs /\ pc[r] = "queued"
  BY <1>0 DEF InQueue
<1>2. /\ \A k \in 1..Len(pendingQueue') : \E m \in 1..Len(pendingQueue) :
           m # i /\ pendingQueue'[k] = pendingQueue[m]
      /\ \A j, k \in 1..Len(pendingQueue') :
           pendingQueue'[j] = pendingQueue'[k] => j = k
  <2>0. Len(pendingQueue) \in Nat /\ i \in Nat /\ i <= Len(pendingQueue)
    BY <1>0
  <2> DEFINE s == pendingQueue
  <2>1. PICK u : u = pendingQueue'
    OBVIOUS
  <2>2. /\ Len(u) = Len(s) - 1
        /\ \A k \in 1..(Len(s) - 1) : u[k] = IF k < i THEN s[k] ELSE s[k + 1]
    BY <1>0, <2>1, RemovalShape
  <2>3. ASSUME NEW k \in 1..(Len(s) - 1)
        PROVE  \E m \in 1..Len(s) : m # i /\ u[k] = s[m]
    <3>1. CASE k < i
      <4>1. k \in 1..Len(s) /\ k # i
        BY <2>0, <3>1
      <4>2. u[k] = s[k]
        BY <2>2, <3>1
      <4> QED BY <4>1, <4>2
    <3>2. CASE ~ (k < i)
      <4>1. k + 1 \in 1..Len(s) /\ k + 1 # i
        BY <2>0, <3>2
      <4>2. u[k] = s[k + 1]
        BY <2>2, <3>2
      <4> QED BY <4>1, <4>2
    <3> QED BY <3>1, <3>2
  <2>4. ASSUME NEW j \in 1..(Len(s) - 1), NEW k \in 1..(Len(s) - 1), u[j] = u[k]
        PROVE  j = k
    <3> DEFINE old(m) == IF m < i THEN m ELSE m + 1
    <3>1. old(j) \in 1..Len(s) /\ old(k) \in 1..Len(s)
      BY <2>0
    <3>2. u[j] = s[old(j)] /\ u[k] = s[old(k)]
      BY <2>2
    <3>3. old(j) = old(k)
      <4> HIDE DEF old
      <4> QED BY <1>0, <2>4, <3>1, <3>2
    <3> QED BY <2>0, <3>3
  <2> QED BY <2>1, <2>2, <2>3, <2>4
<1>3. \A m \in 1..Len(pendingQueue) : m # i => pendingQueue[m] # r
  BY <1>0
<1>4. \A q \in InQueue' : q \in InQueue /\ q # r
  <2> SUFFICES ASSUME NEW k \in 1..Len(pendingQueue')
               PROVE  pendingQueue'[k] \in InQueue /\ pendingQueue'[k] # r
    BY DEF InQueue
  <2>1. PICK m \in 1..Len(pendingQueue) :
          m # i /\ pendingQueue'[k] = pendingQueue[m]
    BY <1>2
  <2> QED BY <1>3, <2>1 DEF InQueue
<1>5. pc' = [pc EXCEPT ![r] = "ended"] /\ pc \in [Runs -> Places]
  BY DEF TypeOK
<1> HIDE DEF r
<1>6. \A q \in InQueue' : pc'[q] = "queued"
  BY <1>0, <1>4, <1>5
<1>7. Holders' = Holders
  BY <1>1, <1>5 DEF Holders, Holding
<1> QED BY <1>0, <1>2, <1>6, <1>7
        DEF SlotInv, SlotsAccounted, QueuedOnlyWhenFull, QueueOfWaiting

-----------------------------------------------------------------------------
LEMMA ExecuteFoundKeeps ==
  ASSUME TypeOK, SlotInv, NEW r \in Runs, ExecuteFound(r) PROVE SlotInv'
<1>0. pc[r] = "finding"
  BY DEF ExecuteFound
<1>1. CASE ~Exists(TaskOf(r))
  <2>1. /\ pc' = [pc EXCEPT ![r] = "ended"]
        /\ activeCount' = activeCount /\ pendingQueue' = pendingQueue
    BY <1>1 DEF ExecuteFound, Goto, queueVars
  <2> QED BY <1>0, <2>1, MoveKeeps DEF Holding
<1>2. CASE Exists(TaskOf(r)) /\ activeCount >= MaxConcurrency
  <2>1. /\ pendingQueue' = Append(pendingQueue, r)
        /\ pc' = [pc EXCEPT ![r] = "queued"]
        /\ activeCount' = activeCount
    BY <1>2 DEF ExecuteFound, Goto
  <2> QED BY <1>0, <1>2, <2>1, AppendKeeps
<1>3. CASE Exists(TaskOf(r)) /\ ~ (activeCount >= MaxConcurrency)
  BY <1>0, <1>3, TakeKeeps DEF ExecuteFound, queueVars
<1> QED BY <1>1, <1>2, <1>3

LEMMA DequeuedFoundKeeps ==
  ASSUME TypeOK, SlotInv, NEW r \in Runs, DequeuedFound(r) PROVE SlotInv'
<1>0. pc[r] = "dequeued" /\ pendingQueue' = pendingQueue
  BY DEF DequeuedFound, queueVars
<1>1. CASE ~Exists(TaskOf(r))
  <2>1. pc' = [pc EXCEPT ![r] = "ended"] /\ activeCount' = activeCount
    BY <1>1 DEF DequeuedFound, Goto
  <2> QED BY <1>0, <2>1, MoveKeeps DEF Holding
<1>2. CASE Exists(TaskOf(r))
  BY <1>0, <1>2, TakeKeeps DEF DequeuedFound
<1> QED BY <1>1, <1>2

\* The finally block of the old attempt runs after the new one has begun: the
\* run keeps its slot and the queue is looked at.
LEMMA RetryAttemptKeeps ==
  ASSUME TypeOK, SlotInv, NEW r \in Runs, RetryAttempt(r) PROVE SlotInv'
<1>1. /\ pc[r] = "reread" /\ activeCount' = activeCount /\ activeCount \in Int
      /\ ProcessQueue(activeCount, r, "starting")
  BY DEF RetryAttempt, TypeOK
<1>2. pc[r] \in Holding /\ pc[r] # "queued"
  BY <1>1 DEF Holding
<1>3. /\ \A q \in Runs \ {r} : pc'[q] \in Holding <=> pc[q] \in Holding
      /\ pc'[r] = "starting"
      /\ pendingQueue' # <<>> => activeCount >= MaxConcurrency
      /\ QueueOfWaiting'
  BY <1>1, <1>2, ProcessQueueKeeps
<1>4. Holders' = Holders
  BY <1>2, <1>3 DEF Holders, Holding
<1> QED BY <1>1, <1>3, <1>4 DEF SlotInv, SlotsAccounted, QueuedOnlyWhenFull

LEMMA RunStepKeeps ==
  ASSUME TypeOK, SlotInv, NEW r \in Runs, RunStep(r) PROVE SlotInv'
<1>c. CatchPlace(r, "error") \in Holding
  BY CatchPlaceType
<1>1. CASE Execute(r)
  BY <1>1, MoveKeeps DEF Execute, CallExecute, Goto, Holding, queueVars
<1>2. CASE ExecuteFound(r)
  BY <1>2, ExecuteFoundKeeps
<1>3. CASE DequeuedFound(r)
  BY <1>3, DequeuedFoundKeeps
<1>4. CASE MarkRunning(r)
  <2>1. \E place \in Holding : pc' = [pc EXCEPT ![r] = place]
    BY <1>4, <1>c DEF MarkRunning, Goto, Holding
  <2> QED BY <1>4, <2>1, MoveKeeps DEF MarkRunning, Holding, queueVars
<1>5. CASE WriteCompleted(r)
  <2>0. pc[r] = "completing" /\ pc[r] \in Holding
    BY <1>5 DEF WriteCompleted, Holding
  <2>1. CASE Exists(TaskOf(r)) /\ WriteFinal(r, "completed")
    BY <2>0, <2>1, GiveKeeps DEF WriteFinal
  <2>2. CASE ~Exists(TaskOf(r))
    <3>1. /\ pc' = [pc EXCEPT ![r] = CatchPlace(r, "error")]
          /\ activeCount' = activeCount /\ pendingQueue' = pendingQueue
      BY <1>5, <2>2 DEF WriteCompleted, Goto, queueVars
    <3> QED BY <1>c, <2>0, <3>1, MoveKeeps
  <2> QED BY <1>5, <2>1, <2>2 DEF WriteCompleted
<1>6. CASE WriteTimedOut(r) \/ WriteCancelled(r) \/ WriteFailed(r)
  <2>1. pc[r] \in Holding /\ \E outcome : End(r, outcome)
    BY <1>6 DEF WriteTimedOut, WriteCancelled, WriteFailed, WriteFinal, Holding
  <2> QED BY <2>1, GiveKeeps
<1>7. CASE RowGone(r)
  BY <1>7, GiveKeeps DEF RowGone, Holding
<1>8. CASE CheckRetry(r)
  <2>1. \E place \in Holding : pc' = [pc EXCEPT ![r] = place]
    BY <1>8 DEF CheckRetry, Goto, Holding
  <2> QED BY <1>8, <2>1, MoveKeeps DEF CheckRetry, Holding, queueVars
<1>9. CASE WriteRetry(r)
  BY <1>9, MoveKeeps DEF WriteRetry, Goto, Holding, queueVars
<1>10. CASE RetryAttempt(r)
  BY <1>10, RetryAttemptKeeps
<1>11. CASE RetryWrite(r)
  <2>1. \E place \in {"finding", "ended"} : pc' = [pc EXCEPT ![r] = place]
    BY <1>11 DEF RetryWrite, CallExecute, Goto
  <2> QED BY <1>11, <2>1, MoveKeeps DEF RetryWrite, Holding, queueVars
<1>12. CASE Recover(r)
  <2>0. activeCount' = activeCount /\ pendingQueue' = pendingQueue /\ pc[r] = "idle"
    BY <1>12 DEF Recover, queueVars
  <2>1. CASE TaskOf(r) \in Registered
    <3>1. pc' = [pc EXCEPT ![r] = "finding"]
      BY <1>12, <2>1 DEF Recover, CallExecute, Goto
    <3> QED BY <2>0, <3>1, MoveKeeps DEF Holding
  <2>2. CASE TaskOf(r) \notin Registered
    BY <1>12, <2>0, <2>2, StutterKeeps DEF Recover
  <2> QED BY <2>1, <2>2
<1> QED BY <1>1, <1>2, <1>3, <1>4, <1>5, <1>6, <1>7, <1>8, <1>9, <1>10, <1>11,
           <1>12 DEF RunStep

LEMMA SlotInvPreserved == TypeOK /\ SlotInv /\ [Next]_vars => SlotInv'
<1> SUFFICES ASSUME TypeOK, SlotInv, [Next]_vars PROVE SlotInv'
  OBVIOUS
<1>1. ASSUME NEW r \in Runs, RunStep(r) PROVE SlotInv'
  BY <1>1, RunStepKeeps
<1>2. ASSUME NEW r \in Runs, ExecutorStep(r) PROVE SlotInv'
  <2>1. PICK outcome \in Outcomes : ExecutorEnds(r, outcome)
    BY <1>2 DEF ExecutorStep
  <2>2. \E place \in Holding : pc' = [pc EXCEPT ![r] = place]
    BY <2>1, CatchPlaceType DEF ExecutorEnds, Goto, Holding
  <2> QED BY <2>1, <2>2, MoveKeeps DEF ExecutorEnds, Holding, queueVars
<1>3. ASSUME NEW r \in Runs, TimerFires(r) PROVE SlotInv'
  BY <1>3, StutterKeeps DEF TimerFires, queueVars
<1>4. ASSUME NEW r \in Runs, Enqueue(r) PROVE SlotInv'
  BY <1>4, MoveKeeps DEF Enqueue, Goto, Holding, queueVars
<1>5. ASSUME NEW r \in Runs, Retry(r) PROVE SlotInv'
  BY <1>5, MoveKeeps DEF Retry, Goto, Holding, queueVars
<1>6. ASSUME NEW t \in Tasks, CancelDecide(t) PROVE SlotInv'
  BY <1>6, StutterKeeps DEF CancelDecide, queueVars
<1>7. ASSUME NEW t \in Tasks, CancelWrite(t) PROVE SlotInv'
  BY <1>7, StutterKeeps DEF CancelWrite, queueVars
<1>8. ASSUME NEW t \in Tasks, CancelRemove(t) PROVE SlotInv'
  <2>0. activeCount' = activeCount
    BY <1>8 DEF CancelRemove
  <2>1. CASE UNCHANGED <<queueVars, pc, promise>>
    BY <2>0, <2>1, StutterKeeps DEF queueVars
  <2>2. CASE ~ UNCHANGED <<queueVars, pc, promise>>
    <3>1. PICK i \in 1..Len(pendingQueue) :
            /\ pendingQueue' = SubSeq(pendingQueue, 1, i - 1)
                               \o SubSeq(pendingQueue, i + 1, Len(pendingQueue))
            /\ pc' = [pc EXCEPT ![pendingQueue[i]] = "ended"]
      BY <1>8, <2>2 DEF CancelRemove, Goto
    <3> QED BY <2>0, <3>1, RemovalKeeps
  <2> QED BY <2>1, <2>2
<1>9. ASSUME NEW t \in Tasks, CancelRead(t) PROVE SlotInv'
  BY <1>9, StutterKeeps DEF CancelRead, queueVars
<1>10. ASSUME NEW t \in Tasks, Delete(t) PROVE SlotInv'
  BY <1>10, StutterKeeps DEF Delete, queueVars
<1>11. CASE Restart
  <2>1. /\ pc' = [r \in Runs |-> "idle"] /\ activeCount' = 0
        /\ pendingQueue' = <<>>
    BY <1>11 DEF Restart
  <2>2. Holders' = {}
    BY <2>1 DEF Holders, Holding
  <2> QED BY <2>1, <2>2, FS_EmptySet DEF SlotInv, SlotsAccounted,
          QueuedOnlyWhenFull, QueueOfWaiting, InQueue
<1>12. CASE UNCHANGED vars
  BY <1>12, StutterKeeps DEF vars
<1> QED BY <1>1, <1>2, <1>3, <1>4, <1>5, <1>6, <1>7, <1>8, <1>9, <1>10, <1>11,
           <1>12 DEF Next, CancelStep

LEMMA SlotInvariant == Spec => []SlotInv
BY InitTypeOK, TypePreserved, InitSlotInv, SlotInvPreserved, PTL DEF Spec

\* activeCount never drifts from the number of runs between the head of
\* _executeTask and its finally block.
THEOREM SlotsAreAccounted == Spec => []SlotsAccounted
<1>1. SlotInv => SlotsAccounted
  BY DEF SlotInv
<1> QED BY <1>1, SlotInvariant, PTL

\* No task waits in the queue while a slot is free.
THEOREM NoLostWakeUp == Spec => []QueuedOnlyWhenFull
<1>1. SlotInv => QueuedOnlyWhenFull
  BY DEF SlotInv
<1> QED BY <1>1, SlotInvariant, PTL

\* The queue holds waiting runs only, each of them once.
THEOREM QueueHoldsWaitingRuns == Spec => []QueueOfWaiting
<1>1. SlotInv => QueueOfWaiting
  BY DEF SlotInv
<1> QED BY <1>1, SlotInvariant, PTL

-----------------------------------------------------------------------------
(* Nobody who awaits execute() is forgotten, as long as a task is not         *)
(* executed again while an execute() of it is under way.                      *)

Live(r) == pc[r] \notin {"idle", "ended"}

\* A task has one run that is under way.
OneRun == \A r, q \in Runs :
            TaskOf(r) = TaskOf(q) /\ Live(r) /\ Live(q) => r = q

\* The caller of run w will hear: its callbacks are filed while w is queued,
\* and w has them itself in every other place.
Answerable(w) ==
  \/ pc[w] = "queued" /\ pendingCallbacks[TaskOf(w)] = w
  \/ pc[w] \in Holding \cup {"finding", "dequeued"} /\ waits[w] = w

QueuedIsThere == \A w \in Runs : pc[w] = "queued" => w \in InQueue

WaitInv == /\ QueuedIsThere
           /\ \A w \in Runs : promise[w] = "waiting" => Answerable(w)

\* What a step of run r means for those who wait: nothing for the others, and
\* r's own caller is still answerable or has been told.
FairToAll(r) ==
  /\ QueuedIsThere'
  /\ \A w \in Runs \ {r} : Answerable(w) => Answerable(w)'
  /\ \A w \in Runs \ {r} : promise'[w] = "waiting" => promise[w] = "waiting"
  /\ promise'[r] = "waiting" => Answerable(r)'

LEMMA FairKeeps ==
  ASSUME WaitInv, NEW r \in Runs, FairToAll(r) PROVE WaitInv'
BY DEF WaitInv, FairToAll

\* Only r moves, and the queue stays as it is.
LEMMA MoveFair ==
  ASSUME TypeOK, WaitInv, NEW r \in Runs, NEW place, place # "queued",
         pc' = [pc EXCEPT ![r] = place],
         UNCHANGED queueVars,
         \A w \in Runs \ {r} : waits'[w] = waits[w]
  PROVE  /\ QueuedIsThere'
         /\ \A w \in Runs \ {r} : Answerable(w) => Answerable(w)'
         /\ pc'[r] = place
<1>1. pc'[r] = place /\ \A w \in Runs \ {r} : pc'[w] = pc[w]
  BY DEF TypeOK
<1>2. QueuedIsThere'
  BY <1>1 DEF WaitInv, QueuedIsThere, InQueue, queueVars
<1>3. \A w \in Runs \ {r} : Answerable(w) => Answerable(w)'
  BY <1>1 DEF Answerable, queueVars, TaskOf
<1> QED BY <1>1, <1>2, <1>3

\* A run moves among the places where it holds its caller.
LEMMA InnerMoveFair ==
  ASSUME TypeOK, WaitInv, NEW r \in Runs,
         NEW place \in Holding,
         pc[r] \in Holding \cup {"finding", "dequeued"},
         pc' = [pc EXCEPT ![r] = place],
         UNCHANGED <<queueVars, waits, promise>>
  PROVE  FairToAll(r)
<1>1. place # "queued" /\ pc[r] # "queued" BY DEF Holding
<1>2. /\ QueuedIsThere'
      /\ \A w \in Runs \ {r} : Answerable(w) => Answerable(w)'
      /\ pc'[r] = place
  BY <1>1, MoveFair
<1>3. promise'[r] = "waiting" => Answerable(r)'
  BY <1>1, <1>2 DEF WaitInv, Answerable
<1> QED BY <1>2, <1>3 DEF FairToAll

\* The first entry of a task in the queue is its only one.
LEMMA OnlyEntry ==
  ASSUME TypeOK, SlotInv, OneRun, NEW q \in InQueue
  PROVE  \E i \in 1..Len(pendingQueue) :
           /\ pendingQueue[i] = q
           /\ \A j \in 1..(i - 1) : TaskOf(pendingQueue[j]) # TaskOf(q)
<1>1. PICK i \in 1..Len(pendingQueue) : pendingQueue[i] = q
  BY DEF InQueue
<1>2. ASSUME NEW j \in 1..(i - 1), TaskOf(pendingQueue[j]) = TaskOf(q)
      PROVE  FALSE
  <2>1. j \in 1..Len(pendingQueue) /\ j # i
    BY DEF TypeOK
  <2>2. pendingQueue[j] \in InQueue /\ pendingQueue[j] \in Runs /\ q \in Runs
    BY <1>1, <2>1 DEF InQueue, TypeOK
  <2>3. pc[pendingQueue[j]] = "queued" /\ pc[q] = "queued"
    BY <2>2 DEF SlotInv, QueueOfWaiting
  <2>4. pendingQueue[j] = q
    BY <1>2, <2>2, <2>3 DEF OneRun, Live
  <2> QED BY <1>1, <2>1, <2>4 DEF SlotInv, QueueOfWaiting
<1> QED BY <1>1, <1>2

\* _processQueue gives every run it takes off the queue its own caller.
LEMMA ProcessQueueFair ==
  ASSUME TypeOK, SlotInv, OneRun, WaitInv, NEW r \in Runs, NEW n \in Int,
         NEW place, pc[r] # "queued", place # "queued",
         ProcessQueue(n, r, place)
  PROVE  /\ QueuedIsThere'
         /\ \A w \in Runs \ {r} : Answerable(w) => Answerable(w)'
         /\ pc'[r] = place /\ waits'[r] = waits[r]
<1>0. r \notin InQueue /\ InQueue \subseteq Runs
  BY DEF InQueue, SlotInv, QueueOfWaiting, TypeOK
<1>1. CASE n < MaxConcurrency
  <2> DEFINE First(q) == \E i \in 1..Len(pendingQueue) :
                           /\ pendingQueue[i] = q
                           /\ \A j \in 1..(i - 1) :
                                TaskOf(pendingQueue[j]) # TaskOf(q)
  <2>1. /\ pendingQueue' = <<>>
        /\ waits' = [q \in Runs |->
                IF q \in InQueue
                THEN IF First(q) THEN pendingCallbacks[TaskOf(q)] ELSE NoRun
                ELSE waits[q]]
        /\ pc' = [q \in Runs |-> IF q = r THEN place
                                 ELSE IF q \in InQueue THEN "dequeued"
                                 ELSE pc[q]]
    BY <1>1, Zenon DEF ProcessQueue
  <2>2. \A q \in InQueue : First(q)
    BY OnlyEntry
  <2>3. \A q \in InQueue : waits'[q] = pendingCallbacks[TaskOf(q)]
    <3> HIDE DEF First
    <3> QED BY <1>0, <2>1, <2>2
  <2>4. \A q \in Runs : q \notin InQueue => waits'[q] = waits[q]
    <3> HIDE DEF First
    <3> QED BY <2>1
  <2>5. \A q \in Runs : pc[q] = "queued" <=> q \in InQueue
    BY DEF SlotInv, QueueOfWaiting, WaitInv, QueuedIsThere
  <2>6. QueuedIsThere'
    BY <2>1, <2>5 DEF QueuedIsThere
  <2>7. ASSUME NEW w \in Runs \ {r}, Answerable(w) PROVE Answerable(w)'
    <3>1. CASE w \in InQueue
      <4>1. pendingCallbacks[TaskOf(w)] = w
        BY <2>5, <2>7, <3>1 DEF Answerable, Holding
      <4>2. pc'[w] = "dequeued" /\ waits'[w] = w
        BY <2>1, <2>3, <3>1, <4>1
      <4> QED BY <4>2 DEF Answerable
    <3>2. CASE w \notin InQueue
      <4>1. pc'[w] = pc[w] /\ waits'[w] = waits[w]
        BY <2>1, <2>4, <3>2
      <4>2. pc[w] # "queued"
        BY <2>5, <3>2
      <4> QED BY <2>7, <4>1, <4>2 DEF Answerable
    <3> QED BY <3>1, <3>2
  <2>8. pc'[r] = place /\ waits'[r] = waits[r]
    BY <1>0, <2>1, <2>4
  <2> QED BY <2>6, <2>7, <2>8
<1>2. CASE ~ (n < MaxConcurrency)
  <2>1. pc' = [pc EXCEPT ![r] = place] /\ UNCHANGED <<queueVars, waits>>
    BY <1>2 DEF ProcessQueue, Goto
  <2> QED BY <2>1, MoveFair
<1> QED BY <1>1, <1>2

\* A run ends with an answer to its caller.
LEMMA EndFair ==
  ASSUME TypeOK, SlotInv, OneRun, WaitInv, NEW r \in Runs,
         NEW outcome, outcome # "waiting",
         pc[r] \in Holding, End(r, outcome)
  PROVE  FairToAll(r)
<1>1. /\ activeCount - 1 \in Int
      /\ ProcessQueue(activeCount - 1, r, "ended")
      /\ pc[r] # "queued"
      /\ promise' = IF waits[r] = NoRun THEN promise
                    ELSE [promise EXCEPT ![waits[r]] = outcome]
  BY DEF End, Finally, FinallyTail, Settle, TypeOK, Holding
<1>2. /\ QueuedIsThere'
      /\ \A w \in Runs \ {r} : Answerable(w) => Answerable(w)'
  BY <1>1, ProcessQueueFair
<1>3. \A w \in Runs : promise'[w] = "waiting" => promise[w] = "waiting"
  BY <1>1 DEF TypeOK
<1>4. promise'[r] # "waiting"
  <2>1. CASE promise[r] = "waiting"
    <3>1. waits[r] = r /\ r # NoRun
      BY <1>1, <2>1, QueueAssumption DEF WaitInv, Answerable
    <3> QED BY <1>1, <3>1 DEF TypeOK
  <2> QED BY <1>3, <2>1
<1> QED BY <1>2, <1>3, <1>4 DEF FairToAll

\* A run is over before it took a slot: its row is gone.
LEMMA RejectFair ==
  ASSUME TypeOK, WaitInv, NEW r \in Runs,
         pc[r] \in {"finding", "dequeued"},
         Goto(r, "ended"), Settle(waits[r], "rejected"),
         UNCHANGED <<queueVars, waits>>
  PROVE  FairToAll(r)
<1>1. /\ QueuedIsThere'
      /\ \A w \in Runs \ {r} : Answerable(w) => Answerable(w)'
  BY MoveFair DEF Goto
<1>2. promise' = IF waits[r] = NoRun THEN promise
                 ELSE [promise EXCEPT ![waits[r]] = "rejected"]
  BY DEF Settle
<1>3. \A w \in Runs : promise'[w] = "waiting" => promise[w] = "waiting"
  BY <1>2 DEF TypeOK
<1>4. promise'[r] # "waiting"
  <2>1. CASE promise[r] = "waiting"
    <3>1. waits[r] = r /\ r # NoRun
      BY <2>1, QueueAssumption DEF WaitInv, Answerable
    <3> QED BY <1>2, <3>1 DEF TypeOK
  <2> QED BY <1>3, <2>1
<1> QED BY <1>1, <1>3, <1>4 DEF FairToAll

\* A call of execute() leaves its caller with the run.
LEMMA CallFair ==
  ASSUME TypeOK, WaitInv, NEW r \in Runs, CallExecute(r),
         UNCHANGED queueVars
  PROVE  FairToAll(r)
<1>1. /\ pc' = [pc EXCEPT ![r] = "finding"]
      /\ promise' = [promise EXCEPT ![r] = "waiting"]
      /\ waits' = [waits EXCEPT ![r] = r]
  BY DEF CallExecute, Goto
<1>2. /\ waits'[r] = r
      /\ \A w \in Runs \ {r} : waits'[w] = waits[w] /\ promise'[w] = promise[w]
  BY <1>1 DEF TypeOK
<1>3. /\ QueuedIsThere'
      /\ \A w \in Runs \ {r} : Answerable(w) => Answerable(w)'
      /\ pc'[r] = "finding"
  BY <1>1, <1>2, MoveFair
<1> QED BY <1>2, <1>3 DEF FairToAll, Answerable
LEMMA ExecuteFoundFair ==
  ASSUME TypeOK, OneRun, WaitInv, NEW r \in Runs, ExecuteFound(r)
  PROVE  FairToAll(r)
<1>0. pc[r] = "finding" BY DEF ExecuteFound
<1>1. CASE ~Exists(TaskOf(r))
  BY <1>0, <1>1, RejectFair DEF ExecuteFound
<1>2. CASE Exists(TaskOf(r)) /\ activeCount >= MaxConcurrency
  <2>1. /\ pendingQueue' = Append(pendingQueue, r)
        /\ pendingCallbacks' = [pendingCallbacks EXCEPT ![TaskOf(r)] = r]
        /\ waits' = [waits EXCEPT ![r] = NoRun]
        /\ pc' = [pc EXCEPT ![r] = "queued"]
        /\ promise' = promise
    BY <1>2 DEF ExecuteFound, Goto
  <2>2. pendingCallbacks'[TaskOf(r)] = r /\ pc'[r] = "queued"
    BY <2>1, TaskOfRun DEF TypeOK
  <2>3. InQueue' = InQueue \cup {r}
    <3>1. pendingQueue \in Seq(Runs) BY DEF TypeOK
    <3>2. /\ Len(pendingQueue') = Len(pendingQueue) + 1
          /\ \A i \in 1..Len(pendingQueue') :
               pendingQueue'[i] = IF i = Len(pendingQueue) + 1 THEN r
                                  ELSE pendingQueue[i]
      BY <2>1, <3>1
    <3> QED BY <3>1, <3>2 DEF InQueue
  <2>4. QueuedIsThere'
    BY <2>1, <2>3 DEF WaitInv, QueuedIsThere, TypeOK
  <2>5. ASSUME NEW w \in Runs \ {r}, Answerable(w) PROVE Answerable(w)'
    <3>1. TaskOf(w) \in Tasks /\ TaskOf(r) \in Tasks BY TaskOfRun
    <3>2. pc'[w] = pc[w] /\ waits'[w] = waits[w] BY <2>1 DEF TypeOK
    <3>3. CASE pc[w] = "queued"
      <4>1. TaskOf(w) # TaskOf(r)
        BY <1>0, <3>3 DEF OneRun, Live
      <4>2. pendingCallbacks'[TaskOf(w)] = pendingCallbacks[TaskOf(w)]
        BY <2>1, <3>1, <4>1 DEF TypeOK
      <4> QED BY <2>5, <3>2, <4>2 DEF Answerable, TaskOf
    <3>4. CASE pc[w] # "queued"
      BY <2>5, <3>2, <3>4 DEF Answerable
    <3> QED BY <3>3, <3>4
  <2> QED BY <2>1, <2>2, <2>4, <2>5 DEF FairToAll, Answerable, TaskOf
<1>3. CASE Exists(TaskOf(r)) /\ ~ (activeCount >= MaxConcurrency)
  <2>1. /\ pc' = [pc EXCEPT ![r] = "starting"]
        /\ UNCHANGED <<queueVars, waits, promise>>
    BY <1>3 DEF ExecuteFound, ExecuteTask, Goto
  <2> QED BY <1>0, <2>1, InnerMoveFair DEF Holding
<1> QED BY <1>1, <1>2, <1>3

LEMMA DequeuedFoundFair ==
  ASSUME TypeOK, WaitInv, NEW r \in Runs, DequeuedFound(r)
  PROVE  FairToAll(r)
<1>0. pc[r] = "dequeued" BY DEF DequeuedFound
<1>1. CASE ~Exists(TaskOf(r))
  BY <1>0, <1>1, RejectFair DEF DequeuedFound
<1>2. CASE Exists(TaskOf(r))
  <2>1. /\ pc' = [pc EXCEPT ![r] = "starting"]
        /\ UNCHANGED <<queueVars, waits, promise>>
    BY <1>2 DEF DequeuedFound, ExecuteTask, Goto
  <2> QED BY <1>0, <2>1, InnerMoveFair DEF Holding
<1> QED BY <1>1, <1>2

LEMMA RetryAttemptFair ==
  ASSUME TypeOK, SlotInv, OneRun, WaitInv, NEW r \in Runs, RetryAttempt(r)
  PROVE  FairToAll(r)
<1>1. /\ pc[r] = "reread" /\ activeCount \in Int /\ promise' = promise
      /\ ProcessQueue(activeCount, r, "starting")
  BY DEF RetryAttempt, TypeOK
<1>2. /\ QueuedIsThere'
      /\ \A w \in Runs \ {r} : Answerable(w) => Answerable(w)'
      /\ pc'[r] = "starting" /\ waits'[r] = waits[r]
  BY <1>1, ProcessQueueFair
<1>3. promise'[r] = "waiting" => Answerable(r)'
  BY <1>1, <1>2 DEF WaitInv, Answerable, Holding
<1> QED BY <1>1, <1>2, <1>3 DEF FairToAll

\* A run that has no caller yet, or none any more, moves.
LEMMA CallerlessFair ==
  ASSUME TypeOK, WaitInv, NEW r \in Runs, NEW place, place # "queued",
         pc[r] \in {"idle", "retrying"},
         pc' = [pc EXCEPT ![r] = place],
         UNCHANGED <<queueVars, waits, promise>>
  PROVE  FairToAll(r)
<1>1. promise[r] # "waiting"
  BY DEF WaitInv, Answerable, Holding
<1> QED BY <1>1, MoveFair DEF FairToAll

LEMMA RunStepFair ==
  ASSUME TypeOK, SlotInv, OneRun, WaitInv, NEW r \in Runs, RunStep(r)
  PROVE  FairToAll(r)
<1>c. CatchPlace(r, "error") \in Holding
  BY CatchPlaceType
<1>f. "rejected" # "waiting" /\ "failed" # "waiting" /\ "cancelled" # "waiting"
  OBVIOUS
<1>1. CASE Execute(r)
  BY <1>1, CallFair DEF Execute
<1>2. CASE ExecuteFound(r)
  BY <1>2, ExecuteFoundFair
<1>3. CASE DequeuedFound(r)
  BY <1>3, DequeuedFoundFair
<1>4. CASE MarkRunning(r)
  <2>1. \E place \in Holding : pc' = [pc EXCEPT ![r] = place]
    BY <1>4, <1>c DEF MarkRunning, Goto, Holding
  <2>2. /\ pc[r] \in Holding \cup {"finding", "dequeued"}
        /\ UNCHANGED <<queueVars, waits, promise>>
    BY <1>4 DEF MarkRunning, Holding
  <2> QED BY <2>1, <2>2, InnerMoveFair
<1>5. CASE WriteCompleted(r)
  <2>0. pc[r] = "completing" /\ pc[r] \in Holding
    BY <1>5 DEF WriteCompleted, Holding
  <2>1. CASE WriteFinal(r, "completed")
    BY <1>f, <2>0, <2>1, EndFair DEF WriteFinal
  <2>2. CASE ~WriteFinal(r, "completed")
    <3>1. /\ pc' = [pc EXCEPT ![r] = CatchPlace(r, "error")]
          /\ UNCHANGED <<queueVars, waits, promise>>
      BY <1>5, <2>2 DEF WriteCompleted, Goto
    <3> QED BY <1>c, <2>0, <3>1, InnerMoveFair
  <2> QED BY <2>1, <2>2
<1>6. CASE WriteTimedOut(r) \/ WriteCancelled(r) \/ WriteFailed(r)
  <2>1. pc[r] \in Holding
    BY <1>6 DEF WriteTimedOut, WriteCancelled, WriteFailed, Holding
  <2>2. \E outcome \in {"failed", "cancelled", "rejected"} : End(r, outcome)
    BY <1>6 DEF WriteTimedOut, WriteCancelled, WriteFailed, WriteFinal
  <2> QED BY <1>f, <2>1, <2>2, EndFair
<1>7. CASE RowGone(r)
  <2>1. pc[r] \in Holding /\ End(r, "rejected")
    BY <1>7 DEF RowGone, Holding
  <2> QED BY <1>f, <2>1, EndFair
<1>8. CASE CheckRetry(r)
  <2>1. \E place \in Holding : pc' = [pc EXCEPT ![r] = place]
    BY <1>8 DEF CheckRetry, Goto, Holding
  <2>2. /\ pc[r] \in Holding \cup {"finding", "dequeued"}
        /\ UNCHANGED <<queueVars, waits, promise>>
    BY <1>8 DEF CheckRetry, Holding
  <2> QED BY <2>1, <2>2, InnerMoveFair
<1>9. CASE WriteRetry(r)
  <2>1. /\ pc[r] \in Holding \cup {"finding", "dequeued"}
        /\ "reread" \in Holding /\ pc' = [pc EXCEPT ![r] = "reread"]
        /\ UNCHANGED <<queueVars, waits, promise>>
    BY <1>9 DEF WriteRetry, Goto, Holding
  <2> QED BY <2>1, InnerMoveFair
<1>10. CASE RetryAttempt(r)
  BY <1>10, RetryAttemptFair
<1>11. CASE RetryWrite(r)
  <2>0. pc[r] = "retrying" /\ UNCHANGED queueVars
    BY <1>11 DEF RetryWrite
  <2>1. CASE CallExecute(r)
    BY <2>0, <2>1, CallFair
  <2>2. CASE ~CallExecute(r)
    <3>1. pc' = [pc EXCEPT ![r] = "ended"] /\ UNCHANGED <<waits, promise>>
      BY <1>11, <2>2 DEF RetryWrite, Goto
    <3> QED BY <2>0, <3>1, CallerlessFair
  <2> QED BY <2>1, <2>2
<1>12. CASE Recover(r)
  <2>0. pc[r] = "idle" /\ UNCHANGED queueVars
    BY <1>12 DEF Recover
  <2>1. CASE CallExecute(r)
    BY <2>0, <2>1, CallFair
  <2>2. CASE ~CallExecute(r)
    <3>1. UNCHANGED <<pc, waits, promise>>
      BY <1>12, <2>2 DEF Recover
    <3>2. pc' = [pc EXCEPT ![r] = "idle"]
      BY <2>0, <3>1 DEF TypeOK
    <3> QED BY <2>0, <3>1, <3>2, CallerlessFair
  <2> QED BY <2>1, <2>2
<1> QED BY <1>1, <1>2, <1>3, <1>4, <1>5, <1>6, <1>7, <1>8, <1>9, <1>10, <1>11,
           <1>12 DEF RunStep

\* Nobody moves.
LEMMA RestFair ==
  ASSUME WaitInv, UNCHANGED <<pc, queueVars, waits, promise>>
  PROVE  WaitInv'
BY DEF WaitInv, QueuedIsThere, Answerable, InQueue, queueVars, TaskOf

\* cancel() tells the caller whose callbacks it drops.
LEMMA CancelRemoveFair ==
  ASSUME TypeOK, SlotInv, OneRun, WaitInv, NEW t \in Tasks, CancelRemove(t)
  PROVE  WaitInv'
<1>0. waits' = waits BY DEF CancelRemove
<1>1. CASE UNCHANGED <<queueVars, pc, promise>>
  BY <1>0, <1>1, RestFair
<1>2. CASE ~ UNCHANGED <<queueVars, pc, promise>>
  <2>1. PICK i \in 1..Len(pendingQueue) :
          /\ TaskOf(pendingQueue[i]) = t
          /\ pendingQueue' = SubSeq(pendingQueue, 1, i - 1)
                             \o SubSeq(pendingQueue, i + 1, Len(pendingQueue))
          /\ pc' = [pc EXCEPT ![pendingQueue[i]] = "ended"]
    BY <1>2 DEF CancelRemove, Goto
  <2>2. /\ Exists(t)
        /\ pendingCallbacks' = [pendingCallbacks EXCEPT ![t] = NoRun]
        /\ promise' = IF pendingCallbacks[t] = NoRun THEN promise
                      ELSE [promise EXCEPT ![pendingCallbacks[t]] = status[t]]
    BY <1>2 DEF CancelRemove, Settle
  <2> DEFINE q == pendingQueue[i]
  <2>3. /\ q \in InQueue /\ q \in Runs /\ pc[q] = "queued" /\ TaskOf(q) = t
    BY <2>1 DEF InQueue, SlotInv, QueueOfWaiting, TypeOK
  <2>4. pc'[q] = "ended" /\ \A w \in Runs \ {q} : pc'[w] = pc[w]
    BY <2>1, <2>3 DEF TypeOK
  <2>5. \A w \in InQueue \ {q} : w \in InQueue'
    <3> SUFFICES ASSUME NEW k \in 1..Len(pendingQueue), pendingQueue[k] # q
                 PROVE  pendingQueue[k] \in InQueue'
      BY DEF InQueue
    <3>1. PICK u : u = pendingQueue'
      OBVIOUS
    <3>2. /\ Len(u) = Len(pendingQueue) - 1
          /\ \A m \in 1..(Len(pendingQueue) - 1) :
               u[m] = IF m < i THEN pendingQueue[m] ELSE pendingQueue[m + 1]
      BY <2>1, <3>1, RemovalShape DEF TypeOK
    <3>3. Len(pendingQueue) \in Nat /\ k \in Nat /\ i \in Nat /\ k # i
          /\ i <= Len(pendingQueue) /\ k <= Len(pendingQueue) /\ i >= 1 /\ k >= 1
      BY DEF TypeOK
    <3>4. \E m \in 1..Len(u) : u[m] = pendingQueue[k]
      <4>1. CASE k < i
        <5>1. k \in 1..(Len(pendingQueue) - 1) BY <3>3, <4>1
        <5> QED BY <3>2, <4>1, <5>1
      <4>2. CASE ~ (k < i)
        <5>1. /\ k - 1 \in 1..(Len(pendingQueue) - 1)
              /\ ~ (k - 1 < i) /\ (k - 1) + 1 = k
          BY <3>3, <4>2
        <5>2. u[k - 1] = pendingQueue[k] BY <3>2, <5>1
        <5> QED BY <3>2, <5>1, <5>2
      <4> QED BY <4>1, <4>2
    <3> QED BY <3>1, <3>4 DEF InQueue
  <2> HIDE DEF q
  <2>6. QueuedIsThere'
    BY <2>4, <2>5 DEF WaitInv, QueuedIsThere
  <2>7. status[t] # "waiting"
    BY DEF TypeOK, Statuses, Terminal
  <2>8. \A w \in Runs : promise'[w] = "waiting" => promise[w] = "waiting"
    BY <2>2, <2>7 DEF TypeOK
  <2>9. ASSUME NEW w \in Runs, promise'[w] = "waiting"
        PROVE  Answerable(w)'
    <3>1. promise[w] = "waiting" /\ Answerable(w)
      BY <2>8, <2>9 DEF WaitInv
    <3>2. CASE w = q
      <4>1. pendingCallbacks[t] = w /\ w # NoRun
        BY <2>3, <3>1, <3>2, QueueAssumption DEF Answerable, Holding
      <4>2. promise'[w] = status[t]
        BY <2>2, <4>1 DEF TypeOK
      <4> QED BY <2>7, <2>9, <4>2
    <3>3. CASE w # q
      <4>1. pc'[w] = pc[w] BY <2>4, <3>3
      <4>2. CASE pc[w] = "queued"
        <5>1. TaskOf(w) # t /\ TaskOf(w) \in Tasks
          BY <2>3, <3>3, <4>2, TaskOfRun DEF OneRun, Live
        <5>2. pendingCallbacks'[TaskOf(w)] = pendingCallbacks[TaskOf(w)]
          BY <2>2, <5>1 DEF TypeOK
        <5> QED BY <3>1, <4>1, <4>2, <5>2 DEF Answerable, Holding, TaskOf
      <4>3. CASE pc[w] # "queued"
        BY <1>0, <3>1, <4>1, <4>3 DEF Answerable
      <4> QED BY <4>2, <4>3
    <3> QED BY <3>2, <3>3
  <2> QED BY <2>6, <2>9 DEF WaitInv
<1> QED BY <1>1, <1>2

LEMMA WaitInvPreserved ==
  TypeOK /\ SlotInv /\ OneRun /\ WaitInv /\ [Next]_vars => WaitInv'
<1> SUFFICES ASSUME TypeOK, SlotInv, OneRun, WaitInv, [Next]_vars PROVE WaitInv'
  OBVIOUS
<1>1. ASSUME NEW r \in Runs, RunStep(r) PROVE WaitInv'
  BY <1>1, RunStepFair, FairKeeps
<1>2. ASSUME NEW r \in Runs, ExecutorStep(r) PROVE WaitInv'
  <2>1. PICK outcome \in Outcomes : ExecutorEnds(r, outcome)
    BY <1>2 DEF ExecutorStep
  <2>2. \E place \in Holding : pc' = [pc EXCEPT ![r] = place]
    BY <2>1, CatchPlaceType DEF ExecutorEnds, Goto, Holding
  <2>3. /\ pc[r] \in Holding \cup {"finding", "dequeued"}
        /\ UNCHANGED <<queueVars, waits, promise>>
    BY <2>1 DEF ExecutorEnds, Holding
  <2> QED BY <2>2, <2>3, InnerMoveFair, FairKeeps
<1>3. ASSUME NEW r \in Runs, TimerFires(r) PROVE WaitInv'
  BY <1>3, RestFair DEF TimerFires
<1>4. ASSUME NEW r \in Runs, Enqueue(r) \/ Retry(r) PROVE WaitInv'
  <2>1. /\ pc[r] = "idle" /\ UNCHANGED <<queueVars, waits, promise>>
        /\ \E place \in {"calling", "retrying"} : pc' = [pc EXCEPT ![r] = place]
    BY <1>4 DEF Enqueue, Retry, Goto
  <2> QED BY <2>1, CallerlessFair, FairKeeps
<1>5. ASSUME NEW t \in Tasks, CancelRemove(t) PROVE WaitInv'
  BY <1>5, CancelRemoveFair
<1>6. ASSUME NEW t \in Tasks,
             CancelDecide(t) \/ CancelWrite(t) \/ CancelRead(t) \/ Delete(t)
      PROVE  WaitInv'
  BY <1>6, RestFair DEF CancelDecide, CancelWrite, CancelRead, Delete
<1>7. CASE Restart
  BY <1>7 DEF Restart, WaitInv, QueuedIsThere
<1>8. CASE UNCHANGED vars
  BY <1>8, RestFair DEF vars, queueVars
<1> QED BY <1>1, <1>2, <1>3, <1>4, <1>5, <1>6, <1>7, <1>8 DEF Next, CancelStep

LEMMA InitWaitInv == Init => WaitInv
BY DEF Init, WaitInv, QueuedIsThere

LEMMA WaitingIsAnswerable ==
  SlotInv /\ WaitInv => NobodyWaitsInVain
<1> SUFFICES ASSUME SlotInv, WaitInv, NEW r \in Runs, promise[r] = "waiting"
             PROVE  \/ \E q \in Runs : /\ waits[q] = r
                                       /\ pc[q] \in Holding \cup {"finding", "dequeued"}
                    \/ /\ pendingCallbacks[TaskOf(r)] = r
                       /\ \E q \in InQueue : TaskOf(q) = TaskOf(r)
  BY DEF NobodyWaitsInVain, NobodyForgotten, SlotInv
<1> QED BY DEF WaitInv, QueuedIsThere, Answerable

\* Nobody waits for something that will not come, whatever is cancelled,
\* deleted, retried or restarted: a queued task only while the slots are taken,
\* a caller of execute() only while some run or some entry of the queue will
\* settle its promise.  The condition is the one the code leaves to its callers:
\* no second execute() of a task while the first is under way.
THEOREM NobodyWaitsInVainOnceCalled ==
  Spec /\ []OneRun => []NobodyWaitsInVain
BY InitWaitInv, WaitInvPreserved, WaitingIsAnswerable, TypeCorrect,
   SlotInvariant, PTL DEF Spec

-----------------------------------------------------------------------------
(* The queue implements TaskLifecycle, a run's report matches its row and a   *)
(* first attempt can be aborted, as long as nobody cancels a task or retries  *)
(* it by hand.                                                                *)

\* The condition of the run Work.
Undisturbed == MaxCancels = 0 /\ MaxManualRetries = 0

\* Where a run is while the row of its task is still, or again, 'pending' ...
Before == {"calling", "finding", "queued", "dequeued", "starting", "reread"}
\* ... and while it is 'running'.
During == {"executing", "completing", "writeTimedOut", "writeCancelled",
           "checkRetry", "writeRetry", "writeFailed"}

NoInterference ==
  /\ budget["cancel"] = 0 /\ budget["retry"] = 0
  /\ \A t \in Tasks : cancelPc[t] = "idle"
  /\ \A r \in Runs : pc[r] # "retrying"

\* The row of a task tells where its run is.
RowFollows ==
  \A r \in Runs :
    LET t == TaskOf(r) IN
    /\ pc[r] \in Before => status[t] \in {"pending", "deleted"}
    /\ pc[r] \in During => status[t] \in {"running", "deleted"}
    /\ status[t] = "none" \/ t \in interrupted => pc[r] = "idle"
    /\ pc[r] = "writeRetry" => seen[r] = retryCount[t] /\ seen[r] < MaxRetries
    /\ pc[r] = "reread" => retryCount[t] > 0

RowsInterrupted == \A t \in interrupted : status[t] \in {"pending", "running"}

\* Callers and timers are filed under the task they belong to.
Filed ==
  /\ \A t \in Tasks : \A r \in Runs :
       pendingCallbacks[t] = r \/ timeoutTimers[t] = r => TaskOf(r) = t
  /\ \A q, r \in Runs : waits[q] = r => TaskOf(r) = TaskOf(q)

\* A reported status is the row's, and then no run of the task is under way.
Reported ==
  \A r \in Runs : promise[r] \in Terminal =>
    /\ status[TaskOf(r)] \in {promise[r], "deleted"}
    /\ TaskOf(r) \notin interrupted
    /\ \A q \in Runs : TaskOf(q) = TaskOf(r) => ~Live(q)

\* The controller and the timer of a first attempt are in place.
FirstAttempt ==
  \A r \in Runs :
    pc[r] \in {"starting", "executing"} /\ retryCount[TaskOf(r)] = 0 =>
      /\ controllers[TaskOf(r)] = r
      /\ sig[r] = "none" => r \in armed

RInv == /\ NoInterference /\ OneRun /\ RowFollows /\ RowsInterrupted
        /\ Filed /\ Reported /\ FirstAttempt

-----------------------------------------------------------------------------
(* What a step of run r leaves alone.                                      *)

\* Other runs stay where they are, or are taken off the queue.
PcFrame(r) ==
  \A q \in Runs \ {r} : \/ pc'[q] = pc[q]
                        \/ pc[q] = "queued" /\ pc'[q] = "dequeued"

\* Rows of other tasks stay as they are.
RowFrame(r) ==
  /\ \A x \in Tasks \ {TaskOf(r)} :
       status'[x] = status[x] /\ retryCount'[x] = retryCount[x]
  /\ status'[TaskOf(r)] = "none" => status[TaskOf(r)] = "none"
  /\ interrupted' \subseteq interrupted
  /\ \A q \in Runs \ {r} : seen'[q] = seen[q]
  /\ cancelPc' = cancelPc /\ budget' = budget

\* Controllers, timers and signals of other tasks stay as they are.
SlotFrame(r) ==
  \A q \in Runs : TaskOf(q) # TaskOf(r) =>
    /\ controllers'[TaskOf(q)] = controllers[TaskOf(q)]
    /\ sig'[q] = sig[q]
    /\ q \in armed => q \in armed'

\* Only callers of the task are told something.
PromiseFrame(r) ==
  \A q \in Runs : TaskOf(q) # TaskOf(r) => promise'[q] = promise[q]

\* _processQueue in these terms.
LEMMA ProcessQueueMoves ==
  ASSUME TypeOK, SlotInv, NEW r \in Runs, NEW n \in Int, NEW place,
         pc[r] # "queued", ProcessQueue(n, r, place)
  PROVE  /\ PcFrame(r) /\ pc'[r] = place
         /\ \A t \in Tasks : pendingCallbacks'[t] \in {pendingCallbacks[t], NoRun}
         /\ \A q \in Runs : waits'[q] \in
              {waits[q], pendingCallbacks[TaskOf(q)], NoRun}
<1>1. pc'[r] = place BY ProcessQueueKeeps
<1>2. CASE n < MaxConcurrency
  <2>1. pc' = [q \in Runs |-> IF q = r THEN place
                              ELSE IF q \in InQueue THEN "dequeued"
                              ELSE pc[q]]
    BY <1>2, Zenon DEF ProcessQueue
  <2>2. \A q \in InQueue : pc[q] = "queued"
    BY DEF SlotInv, QueueOfWaiting
  <2>3. PcFrame(r) BY <2>1, <2>2 DEF PcFrame
  <2>4. \A t \in Tasks : pendingCallbacks'[t] \in {pendingCallbacks[t], NoRun}
    BY <1>2 DEF ProcessQueue
  <2>5. \A q \in Runs : waits'[q] \in
          {waits[q], pendingCallbacks[TaskOf(q)], NoRun}
    <3>1. \E P \in [Runs -> BOOLEAN] :
            waits' = [q \in Runs |-> IF q \in InQueue
                                    THEN IF P[q] THEN pendingCallbacks[TaskOf(q)]
                                         ELSE NoRun
                                    ELSE waits[q]]
      <4> DEFINE P == [q \in Runs |-> \E i \in 1..Len(pendingQueue) :
                        /\ pendingQueue[i] = q
                        /\ \A j \in 1..(i - 1) : TaskOf(pendingQueue[j]) # TaskOf(q)]
      <4>1. P \in [Runs -> BOOLEAN]
        OBVIOUS
      <4>2. waits' = [q \in Runs |-> IF q \in InQueue
                                    THEN IF P[q] THEN pendingCallbacks[TaskOf(q)]
                                         ELSE NoRun
                                    ELSE waits[q]]
        BY <1>2, Zenon DEF ProcessQueue
      <4> QED BY <4>1, <4>2
    <3> QED BY <3>1
  <2> QED BY <1>1, <2>3, <2>4, <2>5
<1>3. CASE ~ (n < MaxConcurrency)
  <2>1. pc' = [pc EXCEPT ![r] = place] /\ UNCHANGED <<queueVars, waits>>
    BY <1>3 DEF ProcessQueue, Goto
  <2> QED BY <1>1, <2>1 DEF PcFrame, TypeOK, queueVars
<1> QED BY <1>2, <1>3

\* The end of a run.
LEMMA EndFrame ==
  ASSUME TypeOK, SlotInv, Filed, NEW r \in Runs, NEW outcome,
         pc[r] # "queued", End(r, outcome)
  PROVE  /\ PcFrame(r) /\ pc'[r] = "ended"
         /\ SlotFrame(r) /\ PromiseFrame(r)
         /\ \A q \in Runs \ {r} : seen'[q] = seen[q]
         /\ \A q \in Runs : promise'[q] = promise[q] \/ promise'[q] = outcome
         /\ Filed'
<1>1. activeCount - 1 \in Int /\ ProcessQueue(activeCount - 1, r, "ended")
  BY DEF End, Finally, TypeOK
<1>2. /\ PcFrame(r) /\ pc'[r] = "ended"
      /\ \A t \in Tasks : pendingCallbacks'[t] \in {pendingCallbacks[t], NoRun}
      /\ \A q \in Runs : waits'[q] \in
              {waits[q], pendingCallbacks[TaskOf(q)], NoRun}
  BY <1>1, ProcessQueueMoves
<1>3. TaskOf(r) \in Tasks /\ \A q \in Runs : TaskOf(q) \in Tasks
  BY TaskOfRun
<1>4. /\ armed' = armed \ {r, timeoutTimers[TaskOf(r)]}
      /\ timeoutTimers' = [timeoutTimers EXCEPT ![TaskOf(r)] = NoRun]
      /\ controllers' = [controllers EXCEPT ![TaskOf(r)] = NoRun]
      /\ sig' = [sig EXCEPT ![r] = "none"]
      /\ seen' = [seen EXCEPT ![r] = 0]
  BY DEF End, Finally, FinallyTail
<1>5. SlotFrame(r)
  <2> SUFFICES ASSUME NEW q \in Runs, TaskOf(q) # TaskOf(r)
               PROVE  /\ controllers'[TaskOf(q)] = controllers[TaskOf(q)]
                      /\ sig'[q] = sig[q]
                      /\ q \in armed => q \in armed'
    BY DEF SlotFrame
  <2>1. q # r /\ q # timeoutTimers[TaskOf(r)]
    BY <1>3 DEF Filed
  <2> QED BY <1>3, <1>4, <2>1 DEF TypeOK
<1>6. promise' = IF waits[r] = NoRun THEN promise
                 ELSE [promise EXCEPT ![waits[r]] = outcome]
  BY DEF End, Settle
<1>7. PromiseFrame(r)
  <2>1. \A q \in Runs : TaskOf(q) # TaskOf(r) => waits[r] # q
    BY DEF Filed
  <2> QED BY <1>6, <2>1 DEF PromiseFrame, TypeOK
<1>8. \A q \in Runs : promise'[q] = promise[q] \/ promise'[q] = outcome
  BY <1>6 DEF TypeOK
<1>9. Filed'
  <2>1. NoRun \notin Runs BY QueueAssumption
  <2>2. \A t \in Tasks : timeoutTimers'[t] \in {timeoutTimers[t], NoRun}
    BY <1>3, <1>4 DEF TypeOK
  <2> QED BY <1>2, <1>3, <2>1, <2>2 DEF Filed
<1>10. \A q \in Runs \ {r} : seen'[q] = seen[q]
  BY <1>4 DEF TypeOK
<1> QED BY <1>2, <1>5, <1>7, <1>8, <1>9, <1>10

\* The beginning of an attempt.
LEMMA ExecuteTaskFrame ==
  ASSUME TypeOK, Filed, NEW r \in Runs, ExecuteTask(r)
  PROVE  /\ PcFrame(r) /\ pc'[r] = "starting"
         /\ SlotFrame(r)
         /\ controllers'[TaskOf(r)] = r /\ r \in armed'
         /\ \A t \in Tasks : \A q \in Runs :
              timeoutTimers'[t] = q => TaskOf(q) = t
<1>1. TaskOf(r) \in Tasks /\ \A q \in Runs : TaskOf(q) \in Tasks
  BY TaskOfRun
<1>2. PcFrame(r) /\ pc'[r] = "starting"
  BY DEF ExecuteTask, Goto, PcFrame, TypeOK
<1>3. /\ controllers' = [controllers EXCEPT ![TaskOf(r)] = r]
      /\ timeoutTimers' = [timeoutTimers EXCEPT ![TaskOf(r)] = r]
      /\ sig' = [sig EXCEPT ![r] = "none"]
      /\ armed' = armed \cup {r}
  BY DEF ExecuteTask
<1>4. SlotFrame(r) BY <1>1, <1>3 DEF SlotFrame, TypeOK
<1>5. controllers'[TaskOf(r)] = r /\ r \in armed' BY <1>1, <1>3 DEF TypeOK
<1>6. \A t \in Tasks : \A q \in Runs : timeoutTimers'[t] = q => TaskOf(q) = t
  BY <1>1, <1>3 DEF Filed, TypeOK
<1> QED BY <1>2, <1>4, <1>5, <1>6

-----------------------------------------------------------------------------
(* What a step of run r does, and why that is enough.                      *)

\* The clauses of RowFollows for r itself.
RowOwn(r) ==
  LET t == TaskOf(r) IN
  /\ pc'[r] \in Before => status'[t] \in {"pending", "deleted"}
  /\ pc'[r] \in During => status'[t] \in {"running", "deleted"}
  /\ status'[t] = "none" \/ t \in interrupted' => pc'[r] = "idle"
  /\ pc'[r] = "writeRetry" => seen'[r] = retryCount'[t] /\ seen'[r] < MaxRetries
  /\ pc'[r] = "reread" => retryCount'[t] > 0
  /\ pc'[r] # "retrying"

\* A final status is reported by the end of the run that wrote it.
ReportOwn(r) ==
  \A q \in Runs :
    \/ promise'[q] = promise[q]
    \/ promise'[q] \notin Terminal
    \/ /\ pc'[r] = "ended" /\ Live(r)
       /\ status'[TaskOf(r)] = promise'[q] /\ TaskOf(q) = TaskOf(r)

FirstOwn(r) ==
  pc'[r] \in {"starting", "executing"} /\ retryCount'[TaskOf(r)] = 0 =>
    /\ controllers'[TaskOf(r)] = r
    /\ sig'[r] = "none" => r \in armed'

\* The step is r's turn: r is the task's run, or the task has none.
Turn(r) == \/ Live(r)
           \/ /\ \A q \in Runs : TaskOf(q) = TaskOf(r) => pc[q] = "idle"
              /\ \A q \in Runs : TaskOf(q) = TaskOf(r) => promise[q] \notin Terminal

GoodStep(r) ==
  /\ PcFrame(r) /\ RowFrame(r) /\ SlotFrame(r) /\ PromiseFrame(r)
  /\ Turn(r) /\ RowOwn(r) /\ ReportOwn(r) /\ FirstOwn(r)
  /\ RowsInterrupted' /\ Filed'

LEMMA GoodKeepsRuns ==
  ASSUME TypeOK, RInv, NEW r \in Runs, GoodStep(r)
  PROVE  NoInterference' /\ OneRun' /\ RowFollows'
<1>1. /\ PcFrame(r) /\ RowFrame(r) /\ Turn(r) /\ RowOwn(r)
  BY DEF GoodStep
<1>2. NoInterference /\ OneRun /\ RowFollows BY DEF RInv
<1>3. \A q \in Runs : TaskOf(q) \in Tasks BY TaskOfRun
<1>4. \A q \in Runs \ {r} : Live(q)' <=> Live(q)
  BY <1>1 DEF PcFrame, Live
<1>5. \A q \in Runs \ {r} : TaskOf(q) = TaskOf(r) => ~Live(q) /\ pc'[q] = pc[q]
  BY <1>1, <1>2 DEF Turn, OneRun, PcFrame, Live
<1>6. NoInterference'
  BY <1>1, <1>2 DEF NoInterference, PcFrame, RowFrame, RowOwn
<1>7. OneRun'
  <2> SUFFICES ASSUME NEW q \in Runs, NEW p \in Runs, TaskOf(q) = TaskOf(p),
                      Live(q)', Live(p)'
               PROVE  q = p
    BY DEF OneRun, TaskOf
  <2>1. CASE q = r BY <1>4, <1>5, <2>1
  <2>2. CASE p = r BY <1>4, <1>5, <2>2
  <2>3. CASE q # r /\ p # r BY <1>2, <1>4, <2>3 DEF OneRun
  <2> QED BY <2>1, <2>2, <2>3
<1>8. ASSUME NEW q \in Runs \ {r}
      PROVE  LET t == TaskOf(q) IN
             /\ pc'[q] \in Before => status'[t] \in {"pending", "deleted"}
             /\ pc'[q] \in During => status'[t] \in {"running", "deleted"}
             /\ status'[t] = "none" \/ t \in interrupted' => pc'[q] = "idle"
             /\ pc'[q] = "writeRetry" =>
                  seen'[q] = retryCount'[t] /\ seen'[q] < MaxRetries
             /\ pc'[q] = "reread" => retryCount'[t] > 0
  <2>1. /\ pc[q] \in Before => status[TaskOf(q)] \in {"pending", "deleted"}
        /\ pc[q] \in During => status[TaskOf(q)] \in {"running", "deleted"}
        /\ status[TaskOf(q)] = "none" \/ TaskOf(q) \in interrupted =>
             pc[q] = "idle"
        /\ pc[q] = "writeRetry" =>
             seen[q] = retryCount[TaskOf(q)] /\ seen[q] < MaxRetries
        /\ pc[q] = "reread" => retryCount[TaskOf(q)] > 0
    BY <1>2 DEF RowFollows
  <2>2. CASE TaskOf(q) = TaskOf(r)
    <3>1. pc'[q] = pc[q] /\ pc[q] \in {"idle", "ended"}
      BY <1>5, <2>2 DEF Live
    <3>2. pc'[q] \notin Before /\ pc'[q] \notin During
      BY <3>1 DEF Before, During
    <3>3. status'[TaskOf(q)] = "none" \/ TaskOf(q) \in interrupted' =>
            pc[q] = "idle"
      BY <1>1, <2>1, <2>2 DEF RowFrame
    <3> QED BY <3>1, <3>2, <3>3
  <2>3. CASE TaskOf(q) # TaskOf(r)
    <3>1. /\ status'[TaskOf(q)] = status[TaskOf(q)]
          /\ retryCount'[TaskOf(q)] = retryCount[TaskOf(q)]
          /\ interrupted' \subseteq interrupted /\ seen'[q] = seen[q]
      BY <1>1, <1>3, <2>3 DEF RowFrame
    <3>2. CASE pc'[q] = pc[q] BY <2>1, <3>1, <3>2
    <3>3. CASE pc[q] = "queued" /\ pc'[q] = "dequeued"
      BY <2>1, <3>1, <3>3 DEF Before, During
    <3> QED BY <1>1, <3>2, <3>3 DEF PcFrame
  <2> QED BY <2>2, <2>3
<1>9. RowFollows' BY <1>1, <1>8 DEF RowFollows, RowOwn, TaskOf
<1> QED BY <1>6, <1>7, <1>9

LEMMA GoodKeepsReports ==
  ASSUME TypeOK, RInv, NEW r \in Runs, GoodStep(r)
  PROVE  Reported' /\ FirstAttempt'
<1>1. /\ PcFrame(r) /\ RowFrame(r) /\ SlotFrame(r) /\ PromiseFrame(r)
      /\ Turn(r) /\ RowOwn(r) /\ ReportOwn(r) /\ FirstOwn(r)
  BY DEF GoodStep
<1>2. /\ OneRun /\ RowFollows /\ Reported /\ FirstAttempt BY DEF RInv
<1>3. \A q \in Runs : TaskOf(q) \in Tasks BY TaskOfRun
<1>4. \A q \in Runs \ {r} : Live(q)' <=> Live(q)
  BY <1>1 DEF PcFrame, Live
<1>5. \A q \in Runs \ {r} : TaskOf(q) = TaskOf(r) => ~Live(q)
  BY <1>1, <1>2 DEF Turn, OneRun, Live
<1>6. ASSUME NEW q \in Runs, promise'[q] \in Terminal
      PROVE  /\ status'[TaskOf(q)] \in {promise'[q], "deleted"}
             /\ TaskOf(q) \notin interrupted'
             /\ \A p \in Runs : TaskOf(p) = TaskOf(q) => ~Live(p)'
  <2>1. CASE TaskOf(q) # TaskOf(r)
    <3>1. /\ promise'[q] = promise[q] /\ interrupted' \subseteq interrupted
          /\ status'[TaskOf(q)] = status[TaskOf(q)]
      BY <1>1, <1>3, <2>1 DEF PromiseFrame, RowFrame
    <3>2. \A p \in Runs : TaskOf(p) = TaskOf(q) => ~Live(p) /\ p # r
      BY <1>2, <1>6, <2>1, <3>1 DEF Reported
    <3> QED BY <1>2, <1>4, <1>6, <3>1, <3>2 DEF Reported
  <2>2. CASE TaskOf(q) = TaskOf(r)
    <3>1. promise[q] \notin Terminal
      <4>1. CASE Live(r) BY <1>2, <2>2, <4>1 DEF Reported
      <4> QED BY <1>1, <2>2, <4>1 DEF Turn
    <3>2. /\ pc'[r] = "ended"
          /\ status'[TaskOf(r)] = promise'[q]
      BY <1>1, <1>6, <3>1 DEF ReportOwn
    <3>3. TaskOf(q) \notin interrupted' BY <1>1, <2>2, <3>2 DEF RowOwn
    <3>4. ~Live(r)' BY <3>2 DEF Live
    <3> QED BY <1>4, <1>5, <2>2, <3>2, <3>3, <3>4
  <2> QED BY <2>1, <2>2
<1>7. Reported' BY <1>6, Zenon DEF Reported, TaskOf, Terminal
<1>8. ASSUME NEW q \in Runs, pc'[q] \in {"starting", "executing"},
             retryCount'[TaskOf(q)] = 0
      PROVE  /\ controllers'[TaskOf(q)] = q
             /\ sig'[q] = "none" => q \in armed'
  <2>1. CASE q = r BY <1>1, <1>8, <2>1 DEF FirstOwn
  <2>2. CASE q # r
    <3>1. pc[q] = pc'[q] BY <1>1, <1>8, <2>2 DEF PcFrame
    <3>2. Live(q) BY <1>8, <3>1 DEF Live
    <3>3. TaskOf(q) # TaskOf(r) BY <1>5, <2>2, <3>2
    <3>4. /\ retryCount'[TaskOf(q)] = retryCount[TaskOf(q)]
          /\ controllers'[TaskOf(q)] = controllers[TaskOf(q)]
          /\ sig'[q] = sig[q] /\ (q \in armed => q \in armed')
      BY <1>1, <1>3, <3>3 DEF RowFrame, SlotFrame
    <3> QED BY <1>2, <1>8, <3>1, <3>4 DEF FirstAttempt
  <2> QED BY <2>1, <2>2
<1>9. FirstAttempt' BY <1>8, Zenon DEF FirstAttempt, TaskOf
<1> QED BY <1>7, <1>9

LEMMA GoodKeeps ==
  ASSUME TypeOK, RInv, NEW r \in Runs, GoodStep(r)
  PROVE  RInv'
<1>1. RowsInterrupted' /\ Filed' BY DEF GoodStep
<1> QED BY <1>1, GoodKeepsRuns, GoodKeepsReports DEF RInv

-----------------------------------------------------------------------------
(* Every action is such a step, and moves the row as the lifecycle allows. *)

Sim == Lifecycle!LifecycleNext \/ UNCHANGED rows

\* What RInv says of a run that is under way.
LEMMA LiveIs ==
  ASSUME RInv, NEW r \in Runs, Live(r)
  PROVE  /\ status[TaskOf(r)] # "none" /\ TaskOf(r) \notin interrupted
         /\ TaskOf(r) \in Tasks
         /\ pc[r] \in Before => status[TaskOf(r)] \in {"pending", "deleted"}
         /\ pc[r] \in During => status[TaskOf(r)] \in {"running", "deleted"}
         /\ Turn(r)
<1>1. pc[r] # "idle" BY DEF Live
<1> QED BY <1>1, TaskOfRun DEF RInv, RowFollows, Turn

\* The places a failed attempt goes to are all of a running row's.
LEMMA CatchPlaceDuring ==
  ASSUME NEW r, NEW raised
  PROVE  CatchPlace(r, raised) \in {"writeTimedOut", "writeCancelled", "checkRetry"}
BY DEF CatchPlace

\* A run that is under way goes to another place and only its row, if anything,
\* changes.
LEMMA MoveIsGood ==
  ASSUME TypeOK, RInv, NEW r \in Runs, Live(r), NEW place,
         pc' = [pc EXCEPT ![r] = place],
         UNCHANGED <<controllers, timeoutTimers, sig, armed, pendingCallbacks,
                     waits, promise, cancelPc, budget, interrupted>>,
         \A q \in Runs \ {r} : seen'[q] = seen[q],
         \A x \in Tasks \ {TaskOf(r)} :
           status'[x] = status[x] /\ retryCount'[x] = retryCount[x],
         status'[TaskOf(r)] = "none" => status[TaskOf(r)] = "none",
         RowOwn(r), FirstOwn(r)
  PROVE  GoodStep(r)
<1>1. PcFrame(r) BY DEF PcFrame, TypeOK
<1>2. RowFrame(r) BY DEF RowFrame
<1>3. SlotFrame(r) /\ PromiseFrame(r) BY DEF SlotFrame, PromiseFrame
<1>4. Turn(r) /\ TaskOf(r) \notin interrupted /\ TaskOf(r) \in Tasks
  BY LiveIs
<1>5. ReportOwn(r) BY DEF ReportOwn
<1>6. \A t \in interrupted' : status'[t] \in {"pending", "running"}
  BY <1>4 DEF RInv, RowsInterrupted, TypeOK
<1>7. RowsInterrupted' BY <1>6 DEF RowsInterrupted
<1>8. Filed' BY DEF RInv, Filed, TaskOf
<1> QED BY <1>1, <1>2, <1>3, <1>4, <1>5, <1>7, <1>8 DEF GoodStep

\* The same when the row stays too.
LEMMA QuietIsGood ==
  ASSUME TypeOK, RInv, NEW r \in Runs, Live(r), NEW place,
         pc' = [pc EXCEPT ![r] = place],
         UNCHANGED <<controllers, timeoutTimers, sig, armed, pendingCallbacks,
                     waits, promise, cancelPc, budget, interrupted, rows>>,
         \A q \in Runs \ {r} : seen'[q] = seen[q],
         \/ /\ place = "writeRetry"
            /\ seen'[r] = retryCount[TaskOf(r)] /\ seen'[r] < MaxRetries
            /\ pc[r] \in During
         \/ /\ place \in During \ {"executing", "writeRetry"}
            /\ pc[r] \in During \/ status[TaskOf(r)] = "deleted"
         \/ place \in {"finding", "queued"} /\ pc[r] \in Before
         \/ place = "ended"
  PROVE  GoodStep(r) /\ Sim
<1>1. /\ status' = status /\ retryCount' = retryCount
      /\ interrupted' = interrupted
  BY DEF rows
<1>2. /\ status[TaskOf(r)] # "none" /\ TaskOf(r) \notin interrupted
      /\ pc[r] \in Before => status[TaskOf(r)] \in {"pending", "deleted"}
      /\ pc[r] \in During => status[TaskOf(r)] \in {"running", "deleted"}
  BY LiveIs
<1>3. pc'[r] = place BY DEF TypeOK
<1>4. RowOwn(r) BY <1>1, <1>2, <1>3 DEF RowOwn, Before, During
<1>5. FirstOwn(r) BY <1>3 DEF FirstOwn, During
<1>6. Sim BY <1>1 DEF Sim, rows
<1> QED BY <1>1, <1>4, <1>5, <1>6, MoveIsGood

\* An attempt begins, from execute or from the queue.
LEMMA BeginIsGood ==
  ASSUME TypeOK, RInv, NEW r \in Runs, Live(r), pc[r] \in Before,
         ExecuteTask(r), UNCHANGED <<rows, cancelPc, budget, interrupted,
                                     promise, waits, pendingCallbacks, seen>>
  PROVE  GoodStep(r) /\ Sim
<1>1. /\ PcFrame(r) /\ pc'[r] = "starting" /\ SlotFrame(r)
      /\ controllers'[TaskOf(r)] = r /\ r \in armed'
      /\ \A t \in Tasks : \A q \in Runs :
           timeoutTimers'[t] = q => TaskOf(q) = t
  BY ExecuteTaskFrame DEF RInv
<1>2. /\ status[TaskOf(r)] \in {"pending", "deleted"} /\ Turn(r)
      /\ TaskOf(r) \notin interrupted
  BY LiveIs
<1>3. RowFrame(r) /\ PromiseFrame(r) /\ ReportOwn(r) /\ Sim
  BY DEF RowFrame, PromiseFrame, ReportOwn, rows, Sim
<1>4. RowOwn(r) /\ FirstOwn(r)
  BY <1>1, <1>2 DEF RowOwn, FirstOwn, rows, Before, During
<1>5. RowsInterrupted' BY DEF RInv, RowsInterrupted, rows
<1>6. Filed' BY <1>1 DEF RInv, Filed, TaskOf
<1> QED BY <1>1, <1>2, <1>3, <1>4, <1>5, <1>6 DEF GoodStep

\* A run ends: it reports what it wrote, or that the row is gone.
LEMMA EndIsGood ==
  ASSUME TypeOK, SlotInv, RInv, NEW r \in Runs, NEW outcome,
         pc[r] \in During \cup {"reread"}, End(r, outcome),
         UNCHANGED <<retryCount, cancelPc, budget, interrupted>>,
         \/ outcome = "rejected" /\ UNCHANGED status
         \/ /\ outcome \in Terminal /\ pc[r] \in During /\ Exists(TaskOf(r))
            /\ status' = [status EXCEPT ![TaskOf(r)] = outcome]
  PROVE  GoodStep(r) /\ Sim
<1>1. pc[r] # "queued" /\ Live(r) BY DEF During, Live
<1>2. /\ PcFrame(r) /\ pc'[r] = "ended" /\ SlotFrame(r) /\ PromiseFrame(r)
      /\ \A q \in Runs \ {r} : seen'[q] = seen[q]
      /\ \A q \in Runs : promise'[q] = promise[q] \/ promise'[q] = outcome
      /\ Filed'
  BY <1>1, EndFrame DEF RInv
<1>3. /\ Turn(r) /\ TaskOf(r) \notin interrupted /\ TaskOf(r) \in Tasks
      /\ status[TaskOf(r)] # "none"
      /\ pc[r] \in During => status[TaskOf(r)] \in {"running", "deleted"}
  BY <1>1, LiveIs
<1>4. \A x \in Tasks \ {TaskOf(r)} : status'[x] = status[x]
  BY DEF TypeOK
<1>5. outcome = "rejected" \/ status'[TaskOf(r)] = outcome
  BY <1>3 DEF TypeOK
<1>6. status'[TaskOf(r)] # "none" BY <1>3, <1>5 DEF Terminal
<1>7. RowFrame(r) BY <1>2, <1>4, <1>6 DEF RowFrame
<1>8. RowOwn(r) BY <1>2, <1>3, <1>6 DEF RowOwn, Before, During
<1>9. ReportOwn(r)
  <2>1. "rejected" \notin Terminal BY DEF Terminal
  <2> QED BY <1>1, <1>2, <1>5, <2>1 DEF ReportOwn, PromiseFrame
<1>10. FirstOwn(r) BY <1>2 DEF FirstOwn
<1>11. RowsInterrupted'
  BY <1>3, <1>4 DEF RInv, RowsInterrupted, TypeOK
<1>12. Sim
  <2>1. CASE UNCHANGED status BY <2>1 DEF Sim, rows
  <2>2. CASE /\ outcome \in Terminal /\ pc[r] \in During /\ Exists(TaskOf(r))
             /\ status' = [status EXCEPT ![TaskOf(r)] = outcome]
    <3>1. status[TaskOf(r)] = "running" BY <1>3, <2>2 DEF Exists
    <3>2. Lifecycle!Ended(TaskOf(r))
      BY <2>2, <3>1 DEF Lifecycle!Ended, Lifecycle!Move, Lifecycle!Terminal, Terminal
    <3> QED BY <1>3, <3>2 DEF Sim, Lifecycle!LifecycleNext
  <2> QED BY <2>1, <2>2
<1> QED BY <1>2, <1>3, <1>7, <1>8, <1>9, <1>10, <1>11, <1>12 DEF GoodStep

-----------------------------------------------------------------------------
(* The actions one by one.                                                 *)

LEMMA EnqueueIsGood ==
  ASSUME TypeOK, RInv, NEW r \in Runs, Enqueue(r)
  PROVE  GoodStep(r) /\ Sim
<1> DEFINE t == TaskOf(r)
<1>1. /\ status[t] = "none" /\ pc[r] = "idle" /\ t \in Tasks /\ interrupted = {}
      /\ status' = [status EXCEPT ![t] = "pending"]
      /\ pc' = [pc EXCEPT ![r] = "calling"]
      /\ UNCHANGED <<retryCount, controllers, timeoutTimers, sig, armed, seen,
                     pendingCallbacks, waits, promise, cancelPc, interrupted,
                     budget>>
  BY TaskOfRun DEF Enqueue, Goto, queueVars, runVars, Ready
<1>2. pc'[r] = "calling" /\ status'[t] = "pending" BY <1>1 DEF TypeOK
<1>3. PcFrame(r) BY <1>1 DEF PcFrame, TypeOK
<1>4. RowFrame(r) BY <1>1, <1>2 DEF RowFrame, TypeOK
<1>5. SlotFrame(r) /\ PromiseFrame(r) /\ ReportOwn(r)
  BY <1>1 DEF SlotFrame, PromiseFrame, ReportOwn
<1>6. Turn(r)
  <2>1. \A q \in Runs : TaskOf(q) = t => pc[q] = "idle"
    BY <1>1 DEF RInv, RowFollows
  <2>2. \A q \in Runs : TaskOf(q) = t => promise[q] \notin Terminal
    BY <1>1 DEF RInv, Reported, Terminal
  <2> QED BY <2>1, <2>2 DEF Turn
<1>7. RowOwn(r) /\ FirstOwn(r)
  BY <1>1, <1>2 DEF RowOwn, FirstOwn, During
<1>8. RowsInterrupted' BY <1>1 DEF RowsInterrupted
<1>9. Filed' BY <1>1 DEF RInv, Filed, TaskOf
<1>10. Sim
  <2>1. Lifecycle!Created(t)
    BY <1>1 DEF Lifecycle!Created, Lifecycle!Move
  <2> QED BY <1>1, <2>1 DEF Sim, Lifecycle!LifecycleNext
<1> QED BY <1>3, <1>4, <1>5, <1>6, <1>7, <1>8, <1>9, <1>10 DEF GoodStep

LEMMA ExecuteIsGood ==
  ASSUME TypeOK, RInv, NEW r \in Runs, Execute(r)
  PROVE  GoodStep(r) /\ Sim
<1>1. /\ pc[r] = "calling" /\ pc' = [pc EXCEPT ![r] = "finding"]
      /\ promise' = [promise EXCEPT ![r] = "waiting"]
      /\ waits' = [waits EXCEPT ![r] = r]
      /\ UNCHANGED <<rows, controllers, timeoutTimers, sig, armed, seen,
                     pendingCallbacks, cancelPc, interrupted, budget>>
  BY DEF Execute, CallExecute, Goto, queueVars, runVars
<1>2. Live(r) /\ pc[r] \in Before BY <1>1 DEF Live, Before
<1>3. /\ status[TaskOf(r)] \in {"pending", "deleted"} /\ Turn(r)
      /\ TaskOf(r) \notin interrupted
  BY <1>2, LiveIs
<1>4. PcFrame(r) /\ pc'[r] = "finding" BY <1>1 DEF PcFrame, TypeOK
<1>5. RowFrame(r) /\ SlotFrame(r) /\ Sim
  BY <1>1 DEF RowFrame, SlotFrame, rows, Sim
<1>6. PromiseFrame(r) /\ ReportOwn(r)
  BY <1>1 DEF PromiseFrame, ReportOwn, TypeOK, Terminal
<1>7. RowOwn(r) /\ FirstOwn(r)
  BY <1>1, <1>3, <1>4 DEF RowOwn, FirstOwn, rows, Before, During
<1>8. RowsInterrupted' BY <1>1 DEF RInv, RowsInterrupted, rows
<1>9. Filed' BY <1>1 DEF RInv, Filed, TaskOf, TypeOK
<1> QED BY <1>3, <1>4, <1>5, <1>6, <1>7, <1>8, <1>9 DEF GoodStep

\* The answer to a call whose row is gone.
LEMMA RejectIsGood ==
  ASSUME TypeOK, RInv, NEW r \in Runs, Live(r), pc[r] # "queued",
         Goto(r, "ended"), Settle(waits[r], "rejected"),
         UNCHANGED <<rows, controllers, timeoutTimers, sig, armed, seen, waits,
                     pendingCallbacks, cancelPc, interrupted, budget>>
  PROVE  GoodStep(r) /\ Sim
<1>1. PcFrame(r) /\ pc'[r] = "ended" BY DEF PcFrame, TypeOK, Goto
<1>2. Turn(r) /\ status[TaskOf(r)] # "none" /\ TaskOf(r) \notin interrupted
  BY LiveIs
<1>3. RowFrame(r) /\ SlotFrame(r) /\ Sim
  BY DEF RowFrame, SlotFrame, rows, Sim
<1>4. PromiseFrame(r)
  <2>1. \A q \in Runs : TaskOf(q) # TaskOf(r) => waits[r] # q
    BY DEF RInv, Filed
  <2> QED BY <2>1 DEF PromiseFrame, Settle, TypeOK
<1>5. \A q \in Runs : promise'[q] = promise[q] \/ promise'[q] = "rejected"
  BY DEF Settle, TypeOK
<1>6. ReportOwn(r) BY <1>5 DEF ReportOwn, Terminal
<1>7. RowOwn(r) /\ FirstOwn(r)
  BY <1>1, <1>2 DEF RowOwn, FirstOwn, rows, Before, During
<1>8. RowsInterrupted' /\ Filed'
  BY DEF RInv, RowsInterrupted, rows, Filed, TaskOf
<1> QED BY <1>1, <1>2, <1>3, <1>4, <1>6, <1>7, <1>8 DEF GoodStep

LEMMA ExecuteFoundIsGood ==
  ASSUME TypeOK, RInv, NEW r \in Runs, ExecuteFound(r)
  PROVE  GoodStep(r) /\ Sim
<1>1. pc[r] = "finding" /\ Live(r) /\ pc[r] \in Before
  BY DEF ExecuteFound, Live, Before
<1>2. CASE ~Exists(TaskOf(r))
  BY <1>1, <1>2, RejectIsGood DEF ExecuteFound, queueVars, runVars
<1>3. CASE Exists(TaskOf(r)) /\ activeCount >= MaxConcurrency
  <2>1. /\ pendingCallbacks' = [pendingCallbacks EXCEPT ![TaskOf(r)] = r]
        /\ waits' = [waits EXCEPT ![r] = NoRun]
        /\ pc' = [pc EXCEPT ![r] = "queued"]
        /\ UNCHANGED <<rows, controllers, timeoutTimers, sig, armed, seen,
                       promise, cancelPc, interrupted, budget>>
    BY <1>3 DEF ExecuteFound, Goto
  <2>2. PcFrame(r) /\ pc'[r] = "queued" BY <2>1 DEF PcFrame, TypeOK
  <2>3. RowFrame(r) /\ SlotFrame(r) /\ PromiseFrame(r) /\ ReportOwn(r) /\ Sim
    BY <2>1 DEF RowFrame, SlotFrame, PromiseFrame, ReportOwn, rows, Sim
  <2>4. /\ Turn(r) /\ status[TaskOf(r)] \in {"pending", "deleted"}
        /\ TaskOf(r) \notin interrupted /\ TaskOf(r) \in Tasks
    BY <1>1, LiveIs
  <2>5. RowOwn(r) /\ FirstOwn(r)
    BY <2>1, <2>2, <2>4 DEF RowOwn, FirstOwn, rows, Before, During
  <2>6. RowsInterrupted' BY <2>1 DEF RInv, RowsInterrupted, rows
  <2>7. Filed'
    <3>1. NoRun \notin Runs BY QueueAssumption
    <3>2. \A t \in Tasks : \A q \in Runs :
            pendingCallbacks'[t] = q => TaskOf(q) = t
      BY <2>1, <2>4 DEF RInv, Filed, TypeOK
    <3>3. \A q, p \in Runs : waits'[q] = p => TaskOf(p) = TaskOf(q)
      BY <2>1, <3>1 DEF RInv, Filed, TypeOK
    <3> QED BY <2>1, <3>2, <3>3 DEF RInv, Filed, TaskOf
  <2> QED BY <2>2, <2>3, <2>4, <2>5, <2>6, <2>7 DEF GoodStep
<1>4. CASE Exists(TaskOf(r)) /\ ~ (activeCount >= MaxConcurrency)
  BY <1>1, <1>4, BeginIsGood DEF ExecuteFound, queueVars
<1> QED BY <1>2, <1>3, <1>4

LEMMA DequeuedFoundIsGood ==
  ASSUME TypeOK, RInv, NEW r \in Runs, DequeuedFound(r)
  PROVE  GoodStep(r) /\ Sim
<1>1. pc[r] = "dequeued" /\ Live(r) /\ pc[r] \in Before
  BY DEF DequeuedFound, Live, Before
<1>2. CASE ~Exists(TaskOf(r))
  BY <1>1, <1>2, RejectIsGood DEF DequeuedFound, queueVars
<1>3. CASE Exists(TaskOf(r))
  BY <1>1, <1>3, BeginIsGood DEF DequeuedFound, queueVars
<1> QED BY <1>2, <1>3

LEMMA MarkRunningIsGood ==
  ASSUME TypeOK, RInv, NEW r \in Runs, MarkRunning(r)
  PROVE  GoodStep(r) /\ Sim
<1> DEFINE t == TaskOf(r)
<1>1. /\ pc[r] = "starting" /\ Live(r)
      /\ UNCHANGED <<retryCount, controllers, timeoutTimers, sig, armed, seen,
                     pendingCallbacks, waits, promise, cancelPc, interrupted,
                     budget>>
  BY DEF MarkRunning, Live, queueVars, runVars
<1>2. /\ status[t] \in {"pending", "deleted"} /\ t \in Tasks
      /\ t \notin interrupted
  BY <1>1, LiveIs DEF Before
<1>3. CASE Exists(t)
  <2>1. /\ status' = [status EXCEPT ![t] = "running"]
        /\ pc' = [pc EXCEPT ![r] = "executing"]
    BY <1>3 DEF MarkRunning, Goto
  <2>2. status[t] = "pending" BY <1>2, <1>3 DEF Exists
  <2>3. pc'[r] = "executing" /\ status'[t] = "running"
    BY <1>2, <2>1 DEF TypeOK
  <2>4. RowOwn(r) BY <1>1, <1>2, <2>3 DEF RowOwn, Before, During
  <2>5. FirstOwn(r) BY <1>1 DEF FirstOwn, RInv, FirstAttempt
  <2>6. GoodStep(r)
    BY <1>1, <2>1, <2>3, <2>4, <2>5, MoveIsGood DEF TypeOK
  <2>7. Lifecycle!Started(t)
    BY <1>1, <2>1, <2>2 DEF Lifecycle!Started, Lifecycle!Move
  <2> QED BY <1>2, <2>6, <2>7 DEF Sim, Lifecycle!LifecycleNext
<1>4. CASE ~Exists(t)
  <2>1. pc' = [pc EXCEPT ![r] = CatchPlace(r, "error")] /\ status' = status
    BY <1>4 DEF MarkRunning, Goto
  <2>2. CatchPlace(r, "error") \in During \ {"executing", "writeRetry"}
    BY CatchPlaceDuring DEF During
  <2>3. status[t] = "deleted" BY <1>2, <1>4 DEF Exists
  <2> QED BY <1>1, <2>1, <2>2, <2>3, QuietIsGood DEF rows
<1> QED BY <1>3, <1>4

LEMMA ExecutorEndsIsGood ==
  ASSUME TypeOK, RInv, NEW r \in Runs, ExecutorStep(r)
  PROVE  GoodStep(r) /\ Sim
<1>1. PICK outcome \in Outcomes : ExecutorEnds(r, outcome)
  BY DEF ExecutorStep
<1>2. \E place \in {"completing", "writeTimedOut", "writeCancelled", "checkRetry"} :
        pc' = [pc EXCEPT ![r] = place]
  BY <1>1, CatchPlaceDuring DEF ExecutorEnds, Goto
<1>3. pc[r] \in During /\ Live(r) BY <1>1 DEF ExecutorEnds, During, Live
<1>4. UNCHANGED <<controllers, timeoutTimers, sig, armed, pendingCallbacks,
                  waits, promise, cancelPc, budget, interrupted, rows, seen>>
  BY <1>1 DEF ExecutorEnds, queueVars, runVars
<1> QED BY <1>2, <1>3, <1>4, QuietIsGood DEF During

LEMMA WriteCompletedIsGood ==
  ASSUME TypeOK, SlotInv, RInv, NEW r \in Runs, WriteCompleted(r)
  PROVE  GoodStep(r) /\ Sim
<1>1. pc[r] = "completing" /\ pc[r] \in During /\ Live(r)
  BY DEF WriteCompleted, During, Live
<1>2. CASE Exists(TaskOf(r)) /\ WriteFinal(r, "completed")
  <2>1. /\ End(r, "completed") /\ "completed" \in Terminal
        /\ status' = [status EXCEPT ![TaskOf(r)] = "completed"]
        /\ UNCHANGED <<retryCount, cancelPc, budget, interrupted>>
    BY <1>2 DEF WriteFinal, Terminal
  <2> QED BY <1>1, <1>2, <2>1, EndIsGood
<1>3. CASE ~Exists(TaskOf(r))
  <2>1. /\ pc' = [pc EXCEPT ![r] = CatchPlace(r, "error")]
        /\ UNCHANGED <<controllers, timeoutTimers, sig, armed, pendingCallbacks,
                       waits, promise, cancelPc, budget, interrupted, rows, seen>>
    BY <1>3 DEF WriteCompleted, Goto, queueVars, runVars
  <2>2. CatchPlace(r, "error") \in During \ {"executing", "writeRetry"}
    BY CatchPlaceDuring DEF During
  <2> QED BY <1>1, <2>1, <2>2, QuietIsGood
<1> QED BY <1>2, <1>3 DEF WriteCompleted

LEMMA WriteFinalIsGood ==
  ASSUME TypeOK, SlotInv, RInv, NEW r \in Runs, NEW final \in Terminal,
         pc[r] \in During, WriteFinal(r, final)
  PROVE  GoodStep(r) /\ Sim
<1>1. UNCHANGED <<retryCount, cancelPc, budget, interrupted>>
  BY DEF WriteFinal
<1>2. CASE Exists(TaskOf(r))
  <2>1. status' = [status EXCEPT ![TaskOf(r)] = final] /\ End(r, final)
    BY <1>2 DEF WriteFinal
  <2> QED BY <1>1, <1>2, <2>1, EndIsGood
<1>3. CASE ~Exists(TaskOf(r))
  <2>1. UNCHANGED status /\ End(r, "rejected") BY <1>3 DEF WriteFinal
  <2> QED BY <1>1, <2>1, EndIsGood
<1> QED BY <1>2, <1>3

LEMMA RowGoneIsGood ==
  ASSUME TypeOK, SlotInv, RInv, NEW r \in Runs, RowGone(r)
  PROVE  GoodStep(r) /\ Sim
<1>1. /\ pc[r] \in During \cup {"reread"} /\ End(r, "rejected")
      /\ UNCHANGED <<status, retryCount, cancelPc, budget, interrupted>>
  BY DEF RowGone, During, rows
<1> QED BY <1>1, EndIsGood

LEMMA CheckRetryIsGood ==
  ASSUME TypeOK, RInv, NEW r \in Runs, CheckRetry(r)
  PROVE  GoodStep(r) /\ Sim
<1>1. /\ pc[r] \in During /\ Live(r)
      /\ seen' = [seen EXCEPT ![r] = retryCount[TaskOf(r)]]
      /\ UNCHANGED <<controllers, timeoutTimers, sig, armed, pendingCallbacks,
                     waits, promise, cancelPc, budget, interrupted, rows>>
  BY DEF CheckRetry, During, Live, queueVars
<1>2. /\ seen'[r] = retryCount[TaskOf(r)]
      /\ \A q \in Runs \ {r} : seen'[q] = seen[q]
  BY <1>1 DEF TypeOK
<1>3. CASE retryCount[TaskOf(r)] < MaxRetries
  <2>1. pc' = [pc EXCEPT ![r] = "writeRetry"]
    BY <1>3 DEF CheckRetry, Goto
  <2> QED BY <1>1, <1>2, <1>3, <2>1, QuietIsGood
<1>4. CASE ~ (retryCount[TaskOf(r)] < MaxRetries)
  <2>1. pc' = [pc EXCEPT ![r] = "writeFailed"]
    BY <1>4 DEF CheckRetry, Goto
  <2>2. "writeFailed" \in During \ {"executing", "writeRetry"} BY DEF During
  <2> QED BY <1>1, <1>2, <2>1, <2>2, QuietIsGood
<1> QED BY <1>3, <1>4

\* The automatic retry is counted, and no attempt is made beyond the limit.
LEMMA WriteRetryIsGood ==
  ASSUME TypeOK, RInv, NEW r \in Runs, WriteRetry(r)
  PROVE  GoodStep(r) /\ Sim
<1> DEFINE t == TaskOf(r)
<1>1. /\ pc[r] = "writeRetry" /\ Exists(t) /\ Live(r)
      /\ status' = [status EXCEPT ![t] = "pending"]
      /\ retryCount' = [retryCount EXCEPT ![t] = seen[r] + 1]
      /\ pc' = [pc EXCEPT ![r] = "reread"]
      /\ UNCHANGED <<controllers, timeoutTimers, sig, armed, seen,
                     pendingCallbacks, waits, promise, cancelPc, interrupted,
                     budget>>
  BY DEF WriteRetry, WithRow, Live, Goto, queueVars, runVars
<1>2. /\ t \in Tasks /\ t \notin interrupted /\ status[t] = "running"
  BY <1>1, LiveIs DEF During, Exists
<1>3. seen[r] = retryCount[t] /\ seen[r] < MaxRetries /\ seen[r] \in Nat
  BY <1>1 DEF RInv, RowFollows, TypeOK
<1>4. pc'[r] = "reread" /\ status'[t] = "pending" /\ retryCount'[t] = seen[r] + 1
  BY <1>1, <1>2 DEF TypeOK
<1>5. RowOwn(r) BY <1>1, <1>2, <1>3, <1>4 DEF RowOwn, Before, During
<1>6. FirstOwn(r) BY <1>4 DEF FirstOwn
<1>7. GoodStep(r)
  <2>1. \A x \in Tasks \ {t} :
          status'[x] = status[x] /\ retryCount'[x] = retryCount[x]
    BY <1>1 DEF TypeOK
  <2> QED BY <1>1, <1>4, <1>5, <1>6, <2>1, MoveIsGood
<1>8. Lifecycle!Requeued(t)
  BY <1>1, <1>2, <1>3 DEF Lifecycle!Requeued, Lifecycle!Move, TypeOK
<1> QED BY <1>2, <1>7, <1>8 DEF Sim, Lifecycle!LifecycleNext

LEMMA RetryAttemptIsGood ==
  ASSUME TypeOK, SlotInv, RInv, NEW r \in Runs, RetryAttempt(r)
  PROVE  GoodStep(r) /\ Sim
<1> DEFINE t == TaskOf(r)
<1>1. /\ pc[r] = "reread" /\ Live(r)
      /\ sig' = [sig EXCEPT ![r] = "none"]
      /\ seen' = [seen EXCEPT ![r] = 0]
      /\ armed' = armed \ {r}
      /\ controllers' = [controllers EXCEPT ![t] = NoRun]
      /\ timeoutTimers' = [timeoutTimers EXCEPT ![t] = NoRun]
      /\ ProcessQueue(activeCount, r, "starting")
      /\ UNCHANGED <<rows, promise, cancelPc, interrupted, budget>>
  BY DEF RetryAttempt, Live
<1>2. /\ PcFrame(r) /\ pc'[r] = "starting"
      /\ \A x \in Tasks : pendingCallbacks'[x] \in {pendingCallbacks[x], NoRun}
      /\ \A q \in Runs : waits'[q] \in
              {waits[q], pendingCallbacks[TaskOf(q)], NoRun}
  BY <1>1, ProcessQueueMoves DEF TypeOK
<1>3. /\ t \in Tasks /\ t \notin interrupted /\ Turn(r)
      /\ status[t] \in {"pending", "deleted"}
  BY <1>1, LiveIs DEF Before
<1>4. retryCount[t] > 0 BY <1>1 DEF RInv, RowFollows
<1>5. \A q \in Runs : TaskOf(q) \in Tasks BY TaskOfRun
<1>6. RowFrame(r) BY <1>1 DEF RowFrame, rows, TypeOK
<1>7. SlotFrame(r) BY <1>1, <1>5 DEF SlotFrame, TypeOK
<1>8. PromiseFrame(r) /\ ReportOwn(r) /\ Sim
  BY <1>1 DEF PromiseFrame, ReportOwn, Sim
<1>9. RowOwn(r) BY <1>1, <1>2, <1>3 DEF RowOwn, rows, Before, During
<1>10. FirstOwn(r) BY <1>1, <1>4 DEF FirstOwn, rows
<1>11. RowsInterrupted' BY <1>1 DEF RInv, RowsInterrupted, rows
<1>12. Filed'
  <2>1. NoRun \notin Runs BY QueueAssumption
  <2>2. \A x \in Tasks : timeoutTimers'[x] \in {timeoutTimers[x], NoRun}
    BY <1>1 DEF TypeOK
  <2> QED BY <1>2, <1>5, <2>1, <2>2 DEF RInv, Filed, TaskOf
<1> QED BY <1>2, <1>3, <1>6, <1>7, <1>8, <1>9, <1>10, <1>11, <1>12 DEF GoodStep

LEMMA RecoverIsGood ==
  ASSUME TypeOK, RInv, NEW r \in Runs, Recover(r)
  PROVE  GoodStep(r) /\ Sim
<1> DEFINE t == TaskOf(r)
<1>1. /\ t \in interrupted /\ pc[r] = "idle" /\ t \in Tasks
      /\ interrupted' = interrupted \ {t}
      /\ status' = [status EXCEPT ![t] = "pending"]
      /\ UNCHANGED <<retryCount, controllers, timeoutTimers, sig, armed, seen,
                     pendingCallbacks, cancelPc, budget>>
  BY TaskOfRun DEF Recover, queueVars, runVars
<1>2. \/ /\ pc' = [pc EXCEPT ![r] = "finding"]
         /\ promise' = [promise EXCEPT ![r] = "waiting"]
         /\ waits' = [waits EXCEPT ![r] = r]
      \/ UNCHANGED <<pc, promise, waits>>
  BY DEF Recover, CallExecute, Goto
<1>3. /\ \A q \in Runs : TaskOf(q) = t => pc[q] = "idle"
      /\ \A q \in Runs : TaskOf(q) = t => promise[q] \notin Terminal
      /\ status[t] \in {"pending", "running"}
  BY <1>1 DEF RInv, RowFollows, Reported, RowsInterrupted
<1>4. Turn(r) BY <1>3 DEF Turn
<1>5. PcFrame(r) /\ pc'[r] \in {"idle", "finding"}
  BY <1>1, <1>2 DEF PcFrame, TypeOK
<1>6. status'[t] = "pending" /\ \A x \in Tasks \ {t} : status'[x] = status[x]
  BY <1>1 DEF TypeOK
<1>7. RowFrame(r) BY <1>1, <1>6 DEF RowFrame
<1>8. SlotFrame(r) BY <1>1 DEF SlotFrame
<1>9. PromiseFrame(r) /\ ReportOwn(r)
  <2>1. PromiseFrame(r) BY <1>2 DEF PromiseFrame, TypeOK
  <2>2. \A q \in Runs : promise'[q] = promise[q] \/ promise'[q] = "waiting"
    BY <1>2 DEF TypeOK
  <2>3. "waiting" \notin Terminal BY DEF Terminal
  <2> QED BY <2>1, <2>2, <2>3 DEF ReportOwn
<1>10. RowOwn(r) /\ FirstOwn(r)
  BY <1>1, <1>5, <1>6 DEF RowOwn, FirstOwn, During
<1>11. RowsInterrupted'
  BY <1>1, <1>6 DEF RInv, RowsInterrupted, TypeOK
<1>12. Filed'
  <2>1. \A q, p \in Runs : waits'[q] = p => TaskOf(p) = TaskOf(q)
    <3>1. \A q, p \in Runs : waits[q] = p => TaskOf(p) = TaskOf(q)
      BY DEF RInv, Filed
    <3>2. CASE waits' = waits BY <3>1, <3>2
    <3>3. CASE waits' = [waits EXCEPT ![r] = r]
      <4>1. \A q \in Runs : waits'[q] = IF q = r THEN r ELSE waits[q]
        BY <3>3 DEF TypeOK
      <4> QED BY <3>1, <4>1
    <3> QED BY <1>2, <3>2, <3>3
  <2>2. pendingCallbacks' = pendingCallbacks /\ timeoutTimers' = timeoutTimers
    BY <1>1
  <2>3. \A x \in Tasks : \A q \in Runs :
          pendingCallbacks'[x] = q \/ timeoutTimers'[x] = q => TaskOf(q) = x
    BY <2>2 DEF RInv, Filed
  <2> QED BY <2>1, <2>3 DEF Filed, TaskOf
<1>13. Sim
  <2>1. CASE status[t] = "running"
    <3>1. Lifecycle!Interrupted(t)
      BY <1>1, <2>1 DEF Lifecycle!Interrupted, Lifecycle!Move
    <3> QED BY <1>1, <3>1 DEF Sim, Lifecycle!LifecycleNext
  <2>2. CASE status[t] = "pending"
    <3>1. status' = status BY <1>1, <2>2 DEF TypeOK
    <3> QED BY <1>1, <3>1 DEF Sim, rows
  <2> QED BY <1>3, <2>1, <2>2
<1> QED BY <1>4, <1>5, <1>7, <1>8, <1>9, <1>10, <1>11, <1>12, <1>13 DEF GoodStep

LEMMA RunStepIsGood ==
  ASSUME TypeOK, SlotInv, RInv, NEW r \in Runs, RunStep(r)
  PROVE  GoodStep(r) /\ Sim
<1>1. ASSUME WriteTimedOut(r) \/ WriteCancelled(r) \/ WriteFailed(r)
      PROVE  GoodStep(r) /\ Sim
  <2>1. /\ pc[r] \in During
        /\ WriteFinal(r, "failed") \/ WriteFinal(r, "cancelled")
    BY <1>1 DEF WriteTimedOut, WriteCancelled, WriteFailed, During
  <2> QED BY <2>1, WriteFinalIsGood DEF Terminal
<1>2. ~RetryWrite(r)
  BY DEF RetryWrite, RInv, NoInterference
<1> QED BY <1>1, <1>2, ExecuteIsGood, ExecuteFoundIsGood, DequeuedFoundIsGood,
           MarkRunningIsGood, WriteCompletedIsGood, RowGoneIsGood,
           CheckRetryIsGood, WriteRetryIsGood, RetryAttemptIsGood,
           RecoverIsGood DEF RunStep

-----------------------------------------------------------------------------
(* The steps that are no run's turn.                                       *)

LEMMA TimerKeeps ==
  ASSUME TypeOK, RInv, NEW r \in Runs, TimerFires(r)
  PROVE  RInv' /\ Sim
<1>1. /\ armed' = armed \ {r}
      /\ sig' = [sig EXCEPT ![r] = IF @ = "none" THEN "timeout" ELSE @]
      /\ UNCHANGED <<rows, controllers, timeoutTimers, pendingCallbacks, pc,
                     seen, waits, promise, cancelPc, interrupted, budget>>
  BY DEF TimerFires, queueVars
<1>2. /\ sig'[r] # "none"
      /\ \A q \in Runs \ {r} : sig'[q] = sig[q]
  BY <1>1 DEF TypeOK
<1>3. FirstAttempt'
  BY <1>1, <1>2 DEF RInv, FirstAttempt, rows, TaskOf
<1>4. NoInterference' /\ OneRun' /\ RowFollows' /\ RowsInterrupted'
  BY <1>1 DEF RInv, NoInterference, OneRun, Live, RowFollows, RowsInterrupted,
              rows, TaskOf
<1>5. Filed' BY <1>1 DEF RInv, Filed, TaskOf
<1>6. Reported' BY <1>1 DEF RInv, Reported, Live, rows, TaskOf, Terminal
<1> QED BY <1>1, <1>3, <1>4, <1>5, <1>6 DEF RInv, Sim

LEMMA DeleteKeeps ==
  ASSUME TypeOK, RInv, NEW t \in Tasks, Delete(t)
  PROVE  RInv' /\ Sim
<1>1. /\ Exists(t) /\ interrupted = {}
      /\ status' = [status EXCEPT ![t] = "deleted"]
      /\ budget' = [budget EXCEPT !["delete"] = @ - 1]
      /\ UNCHANGED <<retryCount, controllers, timeoutTimers, pendingCallbacks,
                     pc, sig, armed, seen, waits, promise, cancelPc,
                     interrupted>>
  BY DEF Delete, Spend, Ready, queueVars, runVars
<1>2. /\ status'[t] = "deleted" /\ status[t] # "none"
      /\ \A x \in Tasks \ {t} : status'[x] = status[x]
  BY <1>1 DEF TypeOK, Exists
<1>3. \A r \in Runs : TaskOf(r) \in Tasks BY TaskOfRun
<1>4. NoInterference'
  BY <1>1 DEF RInv, NoInterference, TypeOK
<1>5. OneRun' BY <1>1 DEF RInv, OneRun, Live, TaskOf
<1>6. \A r \in Runs : status'[TaskOf(r)] \in {status[TaskOf(r)], "deleted"}
  BY <1>2, <1>3
<1>7. RowFollows'
  <2>1. \A r \in Runs : status'[TaskOf(r)] = "none" => status[TaskOf(r)] = "none"
    BY <1>6
  <2>2. RowFollows BY DEF RInv
  <2> QED BY <1>1, <1>6, <2>1, <2>2 DEF RowFollows, TaskOf
<1>8. RowsInterrupted' BY <1>1 DEF RowsInterrupted
<1>9. Filed' BY <1>1 DEF RInv, Filed, TaskOf
<1>10. Reported'
  <2>1. Reported BY DEF RInv
  <2> QED BY <1>1, <1>6, <2>1 DEF Reported, Live, TaskOf, Terminal
<1>11. FirstAttempt' BY <1>1 DEF RInv, FirstAttempt, TaskOf
<1>12. Sim
  <2>1. status[t] \in Lifecycle!Statuses \ {"none", "deleted"}
    BY <1>1 DEF Exists, TypeOK, Statuses, Terminal, Lifecycle!Statuses,
               Lifecycle!Terminal
  <2>2. Lifecycle!Deleted(t)
    BY <1>1, <2>1 DEF Lifecycle!Deleted, Lifecycle!Move
  <2> QED BY <2>2 DEF Sim, Lifecycle!LifecycleNext
<1> QED BY <1>4, <1>5, <1>7, <1>8, <1>9, <1>10, <1>11, <1>12 DEF RInv

LEMMA RestartKeeps ==
  ASSUME TypeOK, RInv, Restart
  PROVE  RInv' /\ Sim
<1>1. /\ interrupted' = {t \in Tasks : status[t] \in {"pending", "running"}}
      /\ budget' = [budget EXCEPT !["restart"] = @ - 1]
      /\ timeoutTimers' = [t \in Tasks |-> NoRun]
      /\ pendingCallbacks' = [t \in Tasks |-> NoRun]
      /\ pc' = [r \in Runs |-> "idle"]
      /\ waits' = [r \in Runs |-> NoRun]
      /\ promise' = [r \in Runs |-> "none"]
      /\ cancelPc' = [t \in Tasks |-> "idle"]
      /\ UNCHANGED <<status, retryCount>>
  BY DEF Restart, Spend, rows
<1>2. NoInterference'
  BY <1>1 DEF RInv, NoInterference, TypeOK
<1>3. OneRun' /\ FirstAttempt'
  BY <1>1 DEF OneRun, Live, FirstAttempt
<1>4. RowFollows' BY <1>1 DEF RowFollows, Before, During
<1>5. RowsInterrupted' BY <1>1 DEF RowsInterrupted
<1>6. Filed' BY <1>1, QueueAssumption DEF Filed
<1>7. Reported' BY <1>1 DEF Reported, Terminal
<1>8. Sim BY <1>1 DEF Sim, rows
<1> QED BY <1>2, <1>3, <1>4, <1>5, <1>6, <1>7, <1>8 DEF RInv

LEMMA RInvInit ==
  ASSUME Undisturbed, Init PROVE RInv /\ Lifecycle!LifecycleInit
<1>1. NoInterference BY DEF Undisturbed, Init, NoInterference
<1>2. OneRun /\ FirstAttempt BY DEF Init, OneRun, Live, FirstAttempt
<1>3. RowFollows BY TaskOfRun DEF Init, RowFollows, Before, During
<1>4. RowsInterrupted BY DEF Init, RowsInterrupted
<1>5. Filed BY QueueAssumption DEF Init, Filed
<1>6. Reported BY DEF Init, Reported, Terminal
<1>7. Lifecycle!LifecycleInit BY DEF Init, Lifecycle!LifecycleInit
<1> QED BY <1>1, <1>2, <1>3, <1>4, <1>5, <1>6, <1>7 DEF RInv

LEMMA RInvStep ==
  TypeOK /\ SlotInv /\ RInv /\ [Next]_vars => RInv' /\ Sim
<1> SUFFICES ASSUME TypeOK, SlotInv, RInv, [Next]_vars PROVE RInv' /\ Sim
  OBVIOUS
<1>1. ASSUME NEW r \in Runs, RunStep(r) \/ ExecutorStep(r) \/ Enqueue(r)
      PROVE  RInv' /\ Sim
  <2>1. GoodStep(r) /\ Sim
    BY <1>1, RunStepIsGood, ExecutorEndsIsGood, EnqueueIsGood
  <2> QED BY <2>1, GoodKeeps
<1>2. ASSUME NEW r \in Runs, TimerFires(r) PROVE RInv' /\ Sim
  BY <1>2, TimerKeeps
<1>3. \A r \in Runs : ~Retry(r)
  BY DEF Retry, Spend, RInv, NoInterference
<1>4. \A t \in Tasks : ~CancelStep(t)
  BY DEF CancelStep, CancelDecide, CancelWrite, CancelRemove, RInv,
         NoInterference
<1>5. \A t \in Tasks : ~CancelRead(t)
  BY DEF CancelRead, Spend, RInv, NoInterference
<1>6. ASSUME NEW t \in Tasks, Delete(t) PROVE RInv' /\ Sim
  BY <1>6, DeleteKeeps
<1>7. CASE Restart BY <1>7, RestartKeeps
<1>8. CASE UNCHANGED vars
  <2>1. /\ NoInterference' /\ OneRun' /\ RowFollows' /\ RowsInterrupted'
    BY <1>8 DEF vars, RInv, NoInterference, OneRun, Live, RowFollows,
                RowsInterrupted, TaskOf
  <2>2. Filed' BY <1>8 DEF vars, RInv, Filed, TaskOf
  <2>3. Reported' BY <1>8 DEF vars, RInv, Reported, Live, TaskOf, Terminal
  <2>4. FirstAttempt' BY <1>8 DEF vars, RInv, FirstAttempt, TaskOf
  <2>5. Sim BY <1>8 DEF vars, Sim, rows
  <2> QED BY <2>1, <2>2, <2>3, <2>4, <2>5 DEF RInv
<1> QED BY <1>1, <1>2, <1>3, <1>4, <1>5, <1>6, <1>7, <1>8 DEF Next

-----------------------------------------------------------------------------
(* The theorems.                                                           *)

LEMMA UndisturbedInvariant ==
  ASSUME Undisturbed PROVE Spec => []RInv
<1>1. Init => RInv BY RInvInit
<1> QED BY <1>1, InitTypeOK, TypePreserved, InitSlotInv, SlotInvPreserved,
           RInvStep, PTL DEF Spec

\* When nobody cancels a task or retries it by hand, the rows of the task table
\* follow the state machine of TaskLifecycle: queue.ts never writes over a final
\* status, never runs a task twice at once and retries it at most MaxRetries
\* times, across deletions and restarts.
THEOREM QueueImplementsLifecycle ==
  ASSUME Undisturbed PROVE Spec => ImplementsLifecycle
<1>1. Init => Lifecycle!LifecycleInit BY RInvInit
<1>2. TypeOK /\ SlotInv /\ RInv /\ [Next]_vars
        => [Lifecycle!LifecycleNext]_Lifecycle!lifecycleVars
  BY RInvStep DEF Sim, rows, Lifecycle!lifecycleVars
<1> QED BY <1>1, <1>2, TypeCorrect, SlotInvariant, UndisturbedInvariant, PTL
        DEF Spec, ImplementsLifecycle, Lifecycle!LifecycleSpec

\* Then what execute() reports to its caller is what the row says.
THEOREM ReportsMatchRows ==
  ASSUME Undisturbed PROVE Spec => []ReportMatchesRow
<1>1. RInv => ReportMatchesRow BY DEF RInv, Reported, ReportMatchesRow
<1> QED BY <1>1, UndisturbedInvariant, PTL

\* And the controller and the timer of a first attempt are where cancel() and
\* the timeout look for them.
THEOREM FirstAttemptsAreAbortable ==
  ASSUME Undisturbed PROVE Spec => []FirstAttemptAbortable
<1>1. RInv => FirstAttemptAbortable
  BY DEF RInv, FirstAttempt, FirstAttemptAbortable
<1> QED BY <1>1, UndisturbedInvariant, PTL

\* And nobody who awaits execute() waits in vain: without cancellations and
\* manual retries a task has one run at a time.
THEOREM NobodyWaitsInVainUndisturbed ==
  ASSUME Undisturbed PROVE Spec => []NobodyWaitsInVain
<1>1. RInv => OneRun BY DEF RInv
<1> QED BY <1>1, UndisturbedInvariant, NobodyWaitsInVainOnceCalled, PTL
=============================================================================
