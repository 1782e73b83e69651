----------------------------- MODULE NestedTasks -----------------------------
(* The analyses that run as a task which starts an agent's task and polls its *)
(* row until it is final (fog map, extraction, matrix, seeds, mandatory items,*)
(* line-up, checklist, sources, baseline).  Both tasks take a slot of the     *)
(* same queue: an analysis holds one while its agent waits for another.       *)
(*                                                                            *)
(* The module gives TaskQueue's executors their code; every step is a step of *)
(* the queue.  The analysis a is the task <<a, 0>>; its n-th attempt starts   *)
(* the agent's task <<a, n>>.                                                 *)
EXTENDS TaskQueue

CONSTANTS Analyses,
          Untimed,    \* those that poll without a deadline
          Deaf        \* those that do not look at their signal

VARIABLE
  polling             \* analyses whose executor has started its agent

nestedVars == <<vars, polling>>

AnalysisTasks == Analyses \X (0..(MaxRetries + 1))
AgentTasks    == Analyses \X (1..(MaxRetries + 1))

\* The queue serves an analysis and the agents' tasks of its attempts.
ASSUME NestedAssumption == Tasks = AnalysisTasks

Analysis(r) == TaskOf(r)[1]
IsOuter(r)  == TaskOf(r)[2] = 0

\* The agent's task of the attempt the outer run r is making.
Inner(r) == <<Analysis(r), retryCount[TaskOf(r)] + 1>>

NestedInit == Init /\ polling = {}

\* The user asks for an analysis.
Request(r) == IsOuter(r) /\ Enqueue(r) /\ UNCHANGED polling

\* The executor awaits agentOrchestrator.execute: a row for the agent's task,
\* whose execute() is then called and not awaited.
StartAgent(r) ==
  /\ IsOuter(r) /\ pc[r] = "executing" /\ Analysis(r) \notin polling
  /\ sig[r] = "none" \/ Analysis(r) \in Deaf
  /\ Enqueue(<<Inner(r), r[2]>>)
  /\ polling' = polling \cup {Analysis(r)}

\* The end of an outer executor: it polls no more.
Stop(r, outcome) ==
  /\ ExecutorEnds(r, outcome)
  /\ polling' = polling \ {Analysis(r)}

Polls(r) == IsOuter(r) /\ pc[r] = "executing" /\ Analysis(r) \in polling

\* The poll finds the row final; an answer may turn out useless.
PollEnds(r) ==
  /\ Polls(r)
  /\ \/ status[Inner(r)] = "completed" /\ \E o \in {"ok", "error"} : Stop(r, o)
     \/ status[Inner(r)] = "failed" /\ Stop(r, "error")
     \/ status[Inner(r)] = "cancelled"
          /\ Stop(r, IF Analysis(r) \in Untimed THEN "error" ELSE "cancelled")

\* The loop has polled for too long (5 or 20 minutes).
Deadline(r) == Polls(r) /\ Analysis(r) \notin Untimed /\ Stop(r, "error")

\* throwIfAborted at the start and in each round of the loop.
Heed(r) ==
  /\ IsOuter(r) /\ pc[r] = "executing" /\ sig[r] # "none"
  /\ Analysis(r) \notin Deaf
  /\ Stop(r, "cancelled")

\* The loop, mutated: it looks at neither the clock nor its signal.
EndlessLoopMutant(r) == StartAgent(r) \/ PollEnds(r)

OuterStep(r) == StartAgent(r) \/ PollEnds(r) \/ Deadline(r) \/ Heed(r)

\* The agent calls the model; its request is given up with its signal.
AgentStep(r) == ~IsOuter(r) /\ ExecutorStep(r) /\ UNCHANGED polling

\* One step of what the run r is doing.
Resumes(r) == OuterStep(r) \/ AgentStep(r) \/ (RunStep(r) /\ UNCHANGED polling)

\* No screen cancels or deletes one of these tasks.
NestedNext ==
  \E r \in Runs : Request(r) \/ Resumes(r) \/ (TimerFires(r) /\ UNCHANGED polling)

NestedSpec == NestedInit /\ [][NestedNext]_nestedVars

\* The event loop resumes every function and fires every timer, also those of
\* the polling loops; a request to the model ends, or its timer ends it.
NestedFairness ==
  \A r \in Runs : /\ WF_nestedVars(Resumes(r))
                  /\ WF_nestedVars(TimerFires(r) /\ UNCHANGED polling)

NestedFairSpec == NestedSpec /\ NestedFairness

-----------------------------------------------------------------------------
\* Nobody waits for everybody: an analysis that was asked for reaches a final
\* status, although it holds a slot while its agent's task queues for one, as
\* long as those that poll without a deadline cannot fill the queue.
AnalysesEnd ==
  \A t \in Analyses \X {0} : status[t] \in {"pending", "running"}
                                ~> status[t] \in Terminal \cup {"deleted"}

\* "Enforce timeout via AbortController": a task whose time is over ends.
TimeoutsEnforced ==
  \A r \in Runs : pc[r] = "executing" /\ sig[r] = "timeout"
                     ~> pc[r] # "executing"
=============================================================================
