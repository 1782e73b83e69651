--------------------------- MODULE BatchGeneration ---------------------------
(* One batch of sub-chapters in the main process: the orchestration           *)
(* (agent-orchestrator/batch-orchestration-manager.ts), the saga that drives  *)
(* it (batchGenerate, _onBatchSectionDone, batchRetrySection and              *)
(* batchSkipSection of services/chapter-generation-service.ts), and what the  *)
(* chapter's heading shows of it (renderer, useChapterGeneration.ts).         *)
(*                                                                            *)
(* A task is one sub-chapter task: "dispatch" while its context is built and  *)
(* its row written, then "live" in the task queue.  A live task whose row was *)
(* deleted is "doomed".  Task ids are reused once nothing refers to them.     *)
(* The deletions the renderer asks for when it gives a batch up are left out: *)
(* nothing that is shown changes after them.                                  *)
EXTENDS Integers, FiniteSetsExt

CONSTANTS NumSections,      \* the sections of the confirmed skeleton
          MaxAutoRetries,   \* RETRY_DELAYS.length
          Faulty, MaxFaults, MaxClicks \* bounds: dispatches that may fail, clicks

ASSUME BatchAssumption ==
  /\ NumSections \in Nat \ {0} /\ MaxAutoRetries \in Nat
  /\ Faulty \subseteq {"chain", "timer", "retry", "skip"}
  /\ MaxFaults \in Nat /\ MaxClicks \in Nat

Sections == 1..NumSections

VARIABLES
  alive,              \* the orchestration is in the manager's map
  state, content, retries, taskId,  \* its sections; taskId 0 is null
  tasks,              \* the tasks that have not ended
  timers,             \* how many retry timers of a section are set
  skips,              \* the calls of batchSkipSection that await a deletion
  shown,              \* "progress", "error" with its buttons, "done" or "gone"
  failed,             \* the sections the renderer shows as failed
  result,             \* the sections whose text is in the result it was given
  rushed,             \* the user has clicked before a click was answered
  faults, clicks      \* what is left of the bounds

sections == <<alive, state, content, retries, taskId>>
display  == <<shown, failed, result>>
batchVars == <<alive, state, content, retries, taskId, tasks, timers, skips,
               shown, failed, result, rushed, faults, clicks>>

Origins == {"first", "chain", "timer", "retry", "skip"}

Task == [id : Nat, sec : Sections, at : {"dispatch", "live", "doomed"},
         by : Origins, from : 0..NumSections]

Skip == [click : Nat, sec : Sections, id : Nat, at : {"delete", "purge"},
         got : SUBSET Sections]

FreshId == LET used == {t.id : t \in tasks} \cup {taskId[i] : i \in Sections}
                       \cup {c.id : c \in skips}
           IN Min({n \in 1..(Cardinality(used) + 1) : n \notin used})

Dispatch(id, i, by, from) ==
  [id |-> id, sec |-> i, at |-> "dispatch", by |-> by, from |-> from]

\* The orchestration has been created; the first section is dispatched.  (When
\* that fails there is no batch.)
BatchInit ==
  /\ alive = TRUE
  /\ state = [i \in Sections |-> "pending"]
  /\ content = [i \in Sections |-> "none"]
  /\ retries = [i \in Sections |-> 0]
  /\ taskId = [i \in Sections |-> 0]
  /\ tasks = {Dispatch(1, 1, "first", 0)}
  /\ timers = [i \in Sections |-> 0]
  /\ skips = {}
  /\ shown = "progress" /\ failed = {} /\ result = {}
  /\ rushed = FALSE
  /\ faults = MaxFaults /\ clicks = MaxClicks

\* updateStatus changes nothing when the status was dismissed.
Show(what, failing) ==
  IF shown = "gone" THEN UNCHANGED <<shown, failed>>
  ELSE shown' = what /\ failed' = failing

\* taskQueue.delete of rows: a task that is still live cannot end well.
Doomed(ids, ts) == {IF t.id \in ids /\ t.at = "live"
                    THEN [t EXCEPT !.at = "doomed"] ELSE t : t \in ts}

-----------------------------------------------------------------------------
(* Operators named ...Mutant are plausible mistakes in the definition that    *)
(* follows them; they are not part of the system.                             *)

MarkSectionRunning(t) ==
  IF alive
  THEN /\ state' = [state EXCEPT ![t.sec] = "running"]
       /\ taskId' = [taskId EXCEPT ![t.sec] = t.id]
  ELSE UNCHANGED <<state, taskId>>

\* _dispatchBatchSingleSection returns the task's id to its caller, which marks
\* the section and tells the renderer.
Dispatched(t) ==
  /\ t.at = "dispatch"
  /\ tasks' = (tasks \ {t}) \cup {[t EXCEPT !.at = "live"]}
  /\ MarkSectionRunning(t)
  /\ IF t.by = "timer" /\ ~alive THEN Show("error", failed \cup {t.sec})
                                 ELSE Show("progress", failed \ {t.from, t.sec})
  /\ UNCHANGED <<alive, content, retries, timers, skips, result, rushed, faults, clicks>>

TimerDispatchFails(t) ==
  /\ t.by = "timer"
  /\ state' = IF alive THEN [state EXCEPT ![t.sec] = "failed"] ELSE state
  /\ Show("error", failed \cup {t.sec})

\* _dispatchBatchSingleSection throws.  The chain only logs it and reports the
\* section before; a retry answers with the error; a skip
\* ends what the renderer shows.
DispatchFails(t) ==
  /\ t.at = "dispatch" /\ t.by \in Faulty
  /\ faults > 0 /\ faults' = faults - 1
  /\ tasks' = tasks \ {t}
  /\ \/ TimerDispatchFails(t)
     \/ t.by = "chain" /\ Show("progress", failed \ {t.from}) /\ UNCHANGED state
     \/ t.by = "retry" /\ Show("error", failed) /\ UNCHANGED state
     \/ t.by = "skip" /\ Show("gone", {}) /\ UNCHANGED state
  /\ UNCHANGED <<alive, content, retries, taskId, timers, skips, result, rushed, clicks>>

-----------------------------------------------------------------------------
NextPending(st) == Min({j \in Sections : st[j] = "pending"})

\* _advanceChain: "failed" and "retrying" do not count.
AllDone(st) == \A j \in Sections : st[j] \notin {"pending", "running"}

\* The state changes and the text does not.
CompleteMutant(i, what) ==
  /\ state' = [state EXCEPT ![i] = "completed"]
  /\ UNCHANGED content

\* onSectionComplete
Complete(i, what) ==
  /\ state' = [state EXCEPT ![i] = "completed"]
  /\ content' = [content EXCEPT ![i] = what]

Assembled(st, text) == {j \in Sections : st[j] = "completed" /\ text[j] # "none"}

\* What follows when section i is completed and others are not; `rest` are the
\* other tasks.  The renderer takes a skip that dispatches nothing for the last.
Chain(i, by, rest) ==
  IF \E j \in Sections : state'[j] = "pending"
  THEN /\ tasks' = rest \cup {Dispatch(FreshId, NextPending(state'), by, i)}
       /\ UNCHANGED display
  ELSE /\ tasks' = rest
       /\ IF by = "skip"
          THEN Show("done", failed \ {i}) /\ result' = Assembled(state', content')
          ELSE Show("progress", failed \ {i}) /\ UNCHANGED result

\* _onBatchSectionDone of a task that has produced text.
TaskCompletes(t) ==
  /\ t.at = "live" /\ alive
  /\ Complete(t.sec, "generated")
  /\ IF AllDone(state')
     THEN /\ tasks' = tasks \ {t}
          /\ alive' = FALSE
          /\ result' = Assembled(state', content')
          /\ IF \E j \in Sections : state'[j] = "failed"
             THEN Show("error", failed \ {t.sec}) ELSE Show("done", failed \ {t.sec})
     ELSE Chain(t.sec, "chain", tasks \ {t}) /\ UNCHANGED alive
  /\ UNCHANGED <<retries, taskId, timers, skips, rushed, faults, clicks>>

\* The section is failed as if for good and retried all the same, so that the
\* chain goes on beside it.
AutoRetryMutant(t) ==
  /\ retries[t.sec] < MaxAutoRetries
  /\ retries' = [retries EXCEPT ![t.sec] = @ + 1]
  /\ state' = [state EXCEPT ![t.sec] = "retrying"]
  /\ timers' = [timers EXCEPT ![t.sec] = @ + 1]
  /\ Chain(t.sec, "chain", tasks \ {t})

\* The attempts are not counted.
AutoRetryForeverMutant(t) ==
  /\ retries[t.sec] < MaxAutoRetries /\ UNCHANGED retries
  /\ state' = [state EXCEPT ![t.sec] = "retrying"]
  /\ timers' = [timers EXCEPT ![t.sec] = @ + 1]
  /\ tasks' = tasks \ {t}
  /\ Show("progress", failed \ {t.sec})

\* One of the automatic retries is left: its timer is set.
AutoRetry(t) ==
  /\ retries[t.sec] < MaxAutoRetries
  /\ retries' = [retries EXCEPT ![t.sec] = @ + 1]
  /\ state' = [state EXCEPT ![t.sec] = "retrying"]
  /\ timers' = [timers EXCEPT ![t.sec] = @ + 1]
  /\ tasks' = tasks \ {t}
  /\ Show("progress", failed \ {t.sec})

\* No retry is left, or the task was cancelled: the chain pauses.
SectionFails(t) ==
  /\ state' = [state EXCEPT ![t.sec] = "failed"]
  /\ tasks' = tasks \ {t}
  /\ Show("error", failed \cup {t.sec})
  /\ UNCHANGED <<retries, timers>>

\* _onBatchSectionDone of a task that has failed, was cancelled, or has
\* produced an empty text.
TaskFails(t, outcome) ==
  /\ t.at \in {"live", "doomed"} /\ alive
  /\ \/ outcome = "failed" /\ AutoRetry(t)
     \/ /\ outcome = "cancelled" \/ retries[t.sec] >= MaxAutoRetries
        /\ SectionFails(t)
  /\ UNCHANGED <<alive, content, taskId, skips, result, rushed, faults, clicks>>

\* ... when the orchestration is gone.
TaskEndsLate(t) ==
  /\ t.at # "dispatch" /\ ~alive
  /\ tasks' = tasks \ {t}
  /\ UNCHANGED <<sections, timers, skips, display, rushed, faults, clicks>>

-----------------------------------------------------------------------------
\* prepareRetry and the dispatch
Redispatch(i, by) ==
  /\ state' = [state EXCEPT ![i] = "pending"]
  /\ content' = [content EXCEPT ![i] = "none"]
  /\ taskId' = [taskId EXCEPT ![i] = 0]
  /\ tasks' = tasks \cup {Dispatch(FreshId, i, by, 0)}

RetryTimerFires(i) ==
  /\ timers[i] > 0
  /\ timers' = [timers EXCEPT ![i] = @ - 1]
  /\ IF alive
     THEN Redispatch(i, "timer") /\ UNCHANGED <<shown, failed>>
     ELSE /\ Show("error", failed \cup {i})
          /\ UNCHANGED <<state, content, taskId, tasks>>
  /\ UNCHANGED <<alive, retries, skips, result, rushed, faults, clicks>>

\* A click on "retry" or "skip" that has not been answered.
Unanswered ==
  skips # {} \/ \E t \in tasks : t.at = "dispatch" /\ t.by \in {"retry", "skip"}

\* The error is shown with its buttons, which stay enabled while a click is
\* unanswered.  Bound: the user clicks once before an answer.
Click ==
  /\ shown = "error" /\ clicks > 0 /\ clicks' = clicks - 1
  /\ rushed => ~Unanswered
  /\ rushed' = (rushed \/ Unanswered)

\* The whole batch begins again.
TargetMutant == {1}

\* The section the renderer names, or else the first failed one.
Target ==
  LET known == IF failed # {} THEN failed
               ELSE {i \in Sections : state[i] = "failed"}
  IN IF known = {} THEN {} ELSE {Min(known)}

\* batchRetrySection
ClickRetry ==
  /\ Click
  /\ IF alive /\ Target # {}
     THEN \E i \in Target :
            /\ retries' = [retries EXCEPT ![i] = 0]
            /\ Redispatch(i, "retry")
     ELSE UNCHANGED <<state, content, retries, taskId, tasks>>
  /\ UNCHANGED <<alive, timers, skips, display, faults>>

\* batchSkipSection from onSectionComplete on.  `others` are the other calls.
SkipCompletes(i, click, others, ts) ==
  /\ IF alive THEN Complete(i, "skipped") ELSE UNCHANGED <<state, content>>
  /\ IF ~alive \/ AllDone(state')
     THEN /\ skips' = others \cup
               {[click |-> click, sec |-> i, id |-> 0, at |-> "purge",
                 got |-> IF alive THEN Assembled(state', content') ELSE {}]}
          /\ tasks' = ts
          /\ UNCHANGED display
     ELSE /\ skips' = others
          /\ Chain(i, "skip", ts)

\* batchSkipSection: the failed task's row is deleted first, if there is one.
ClickSkip ==
  /\ Click
  /\ \/ /\ alive
        /\ \E i \in Target :
             IF taskId[i] = 0
             THEN SkipCompletes(i, clicks, skips, tasks)
             ELSE /\ skips' = skips \cup
                       {[click |-> clicks, sec |-> i, id |-> taskId[i],
                         at |-> "delete", got |-> {}]}
                  /\ UNCHANGED <<state, content, tasks, display>>
     \/ /\ ~alive \/ Target = {}
        /\ Show("gone", {})
        /\ UNCHANGED <<state, content, tasks, skips, result>>
  /\ UNCHANGED <<alive, retries, taskId, timers, faults>>

SkipDeleted(c) ==
  /\ c.at = "delete"
  /\ SkipCompletes(c.sec, c.click, skips \ {c}, Doomed({c.id}, tasks))
  /\ UNCHANGED <<alive, retries, taskId, timers, rushed, faults, clicks>>

\* The rows of all sections are deleted; the batch is complete.
SkipPurged(c) ==
  /\ c.at = "purge"
  /\ skips' = skips \ {c}
  /\ tasks' = Doomed({taskId[i] : i \in Sections}, tasks)
  /\ alive' = FALSE
  /\ result' = c.got
  /\ Show("done", failed \ {c.sec})
  /\ UNCHANGED <<state, content, retries, taskId, timers, rushed, faults, clicks>>

-----------------------------------------------------------------------------
Progress ==
  \/ \E t \in tasks : \/ Dispatched(t) \/ DispatchFails(t)
                      \/ TaskCompletes(t) \/ TaskEndsLate(t)
                      \/ \E outcome \in {"failed", "cancelled"} : TaskFails(t, outcome)
  \/ \E i \in Sections : RetryTimerFires(i)
  \/ \E c \in skips : SkipDeleted(c) \/ SkipPurged(c)

BatchNext == Progress \/ ClickRetry \/ ClickSkip

BatchSpec == BatchInit /\ [][BatchNext]_batchVars

\* Every task ends (it has a time limit), timers fire, awaited calls return.
BatchFairSpec == BatchSpec /\ WF_batchVars(Progress)

-----------------------------------------------------------------------------
\* Every variable keeps its type.
BatchTypeOK ==
  /\ alive \in BOOLEAN
  /\ state \in [Sections -> {"pending", "running", "completed", "failed", "retrying"}]
  /\ content \in [Sections -> {"none", "generated", "skipped"}]
  /\ retries \in [Sections -> 0..MaxAutoRetries]
  /\ taskId \in [Sections -> Nat]
  /\ tasks \subseteq Task
  /\ timers \in [Sections -> Nat]
  /\ skips \subseteq Skip
  /\ shown \in {"progress", "error", "done", "gone"} /\ rushed \in BOOLEAN
  /\ failed \subseteq Sections /\ result \subseteq Sections
  /\ faults \in Nat /\ clicks \in Nat

\* The saga is sequential as long as the user waits for the answer to a click:
\* of all tasks, retry timers and skips there is one at a time, so that no
\* section is generated twice at once and no attempt is overtaken by a later one.
OneAtATime ==
  ~rushed =>
    /\ \A t, u \in tasks : t = u
    /\ \A c, d \in skips : c = d
    /\ tasks = {} \/ skips = {}
    /\ \A i \in Sections : timers[i] > 0 =>
         /\ timers[i] = 1 /\ tasks = {} /\ skips = {}
         /\ \A j \in Sections \ {i} : timers[j] = 0

\* Then a section is generated with the text of every section before it: all of
\* them are completed or skipped when it is dispatched and stay so.
EarlierSectionsComplete ==
  ~rushed => \A t \in tasks : \A j \in 1..(t.sec - 1) : content[j] # "none"

\* Then the result the renderer is given as complete has every section.
ResultIsWhole == ~rushed /\ shown = "done" => result = Sections

\* The same however fast the user clicks.
ResultIsAlwaysWhole == shown = "done" => result = Sections

\* Text that was generated is not thrown away by a later retry or skip.
GeneratedKept ==
  [][\A i \in Sections : ~rushed /\ content[i] = "generated"
                            => content'[i] = "generated"]_content

\* Then, while the progress bar is shown, something is on its way that will
\* move it: a task, a retry timer or a skip.
NeverStuck ==
  ~rushed /\ shown = "progress" =>
    \/ tasks # {} \/ skips # {}
    \/ \E i \in Sections : timers[i] > 0

\* Then the progress bar gives way to a result or to an error the user can act
\* on.
BatchSettles == ~rushed /\ shown = "progress" ~> rushed \/ shown # "progress"
=============================================================================
