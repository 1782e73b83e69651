-------------------------- MODULE GenerationProofs --------------------------
(* Theorems about the generation of chapters.                                 *)
(*                                                                            *)
(* One batch of sub-chapters, for any number of sections, automatic retries,  *)
(* failing dispatches and clicks, as long as the user waits for the answer to *)
(* a click.  The argument is one invariant: the batch has a frontier.  The    *)
(* sections before it have their text, those after it are pending, and the    *)
(* batch is in one of eight phases, each with at most one thing on its way.   *)
(*                                                                            *)
(* One chapter that its user works on, for any number of tasks and any text.  *)
(* The invariant says what the entry shows by how far its task is, and that   *)
(* the baseline is free of later text whenever the task can have ended.       *)
EXTENDS BatchGeneration, SectionGeneration, FiniteSetTheorems, WellFoundedInduction,
        NaturalsInduction, TLAPS

States == {"pending", "running", "completed", "failed", "retrying"}
Texts  == {"none", "generated", "skipped"}

Shapes ==
  /\ state \in [Sections -> States]
  /\ content \in [Sections -> Texts]
  /\ timers \in [Sections -> Nat]

-----------------------------------------------------------------------------
(* The phases of a batch whose frontier is section f *)

DoneBefore(f) == \A j \in Sections : j < f => state[j] = "completed" /\ content[j] # "none"
After(f)  == \A j \in Sections : j > f => state[j] = "pending" /\ content[j] = "none"

NoTimers == \A j \in Sections : timers[j] = 0

At(f, st, text) == state[f] = st /\ content[f] = text

\* The only task is one of section f and has come to a place.
OnlyTask(t, f, at) ==
  /\ tasks = {t}
  /\ t = [id |-> t.id, sec |-> f, at |-> at, by |-> t.by, from |-> t.from]

\* The context of section f is built and its row written.
Dispatching(f) ==
  /\ skips = {} /\ NoTimers /\ At(f, "pending", "none")
  /\ \E t \in tasks :
       /\ OnlyTask(t, f, "dispatch")
       /\ \/ t.by \in {"first", "chain", "timer"} /\ shown = "progress" /\ failed = {}
          \/ t.by = "retry" /\ shown = "error" /\ failed = {f}
          \/ /\ t.by = "skip" /\ shown = "error" /\ failed = {t.from}
             /\ t.from \in Sections /\ t.from < f /\ content[t.from] = "skipped"

\* Its task is in the task queue.
Generating(f) ==
  /\ skips = {} /\ NoTimers /\ At(f, "running", "none")
  /\ \E t \in tasks : OnlyTask(t, f, "live")
  /\ shown = "progress" /\ failed = {}

\* It has failed and its retry timer is set.
Waiting(f) ==
  /\ tasks = {} /\ skips = {} /\ At(f, "retrying", "none")
  /\ timers[f] = 1 /\ \A j \in Sections \ {f} : timers[j] = 0
  /\ shown = "progress" /\ failed = {}

\* It has failed for good, or its retry could not be dispatched: the user
\* decides.
Paused(f) ==
  /\ tasks = {} /\ skips = {} /\ NoTimers
  /\ state[f] \in {"failed", "pending"} /\ content[f] = "none"
  /\ shown = "error" /\ failed = {f}

\* It is being skipped: its row is deleted.
Skipping(f) ==
  /\ tasks = {} /\ NoTimers
  /\ \E c \in skips : skips = {c} /\ c.at = "delete" /\ c.sec = f
  /\ state[f] \in {"failed", "pending"} /\ content[f] = "none"
  /\ shown = "error" /\ failed = {f}

\* It was the last one and has been skipped: the rows are deleted.
Purging(f) ==
  /\ tasks = {} /\ NoTimers /\ f = NumSections
  /\ \E c \in skips : skips = {c} /\ c.at = "purge" /\ c.sec = f /\ c.got = Sections
  /\ At(f, "completed", "skipped")
  /\ shown = "error" /\ failed = {f}

\* It could not be dispatched, and nobody is told.
Lost(f) ==
  /\ tasks = {} /\ skips = {} /\ NoTimers /\ At(f, "pending", "none")
  /\ shown = "gone" \/ (shown = "progress" /\ "chain" \in Faulty)

\* The batch has ended.
Finished ==
  /\ ~alive /\ tasks = {} /\ skips = {} /\ NoTimers
  /\ shown = "done" /\ result = Sections

Phase(f) ==
  \/ Dispatching(f) \/ Generating(f) \/ Waiting(f) \/ Paused(f)
  \/ Skipping(f) \/ Purging(f) \/ Lost(f)

Underway == alive /\ \E f \in Sections : DoneBefore(f) /\ After(f) /\ Phase(f)

Sequential == Shapes /\ (Underway \/ Finished)

BInv == ~rushed => Sequential

-----------------------------------------------------------------------------
(* The chain of sections *)

\* Text that was generated stays.
Kept == \A i \in Sections : content[i] = "generated" => content'[i] = "generated"

LEMMA SectionsAre ==
  /\ NumSections \in Nat \ {0} /\ MaxAutoRetries \in Nat
  /\ \A f \in Sections : f \in Nat /\ f >= 1 /\ f <= NumSections
BY BatchAssumption DEF Sections

LEMMA MinOfOne == \A x \in Int : Min({x}) = x
BY DEF Min

\* The section at the frontier is completed and others follow.
LEMMA FrontierMoves ==
  ASSUME Shapes, NEW f \in Sections, DoneBefore(f), After(f), content[f] = "none",
         NEW what \in {"generated", "skipped"}, Complete(f, what),
         f < NumSections
  PROVE  /\ f + 1 \in Sections
         /\ DoneBefore(f + 1)' /\ After(f + 1)' /\ At(f + 1, "pending", "none")'
         /\ NextPending(state') = f + 1
         /\ ~AllDone(state')
         /\ \E j \in Sections : state'[j] = "pending"
<1>1. f + 1 \in Sections
  BY SectionsAre DEF Sections
<1>2. /\ \A j \in Sections : j # f => state'[j] = state[j] /\ content'[j] = content[j]
      /\ state'[f] = "completed" /\ content'[f] = what
  BY DEF Complete, Shapes
<1>3. DoneBefore(f + 1)'
  BY <1>2, SectionsAre DEF DoneBefore
<1>4. After(f + 1)' /\ At(f + 1, "pending", "none")'
  BY <1>1, <1>2, SectionsAre DEF After, At
<1>5. NextPending(state') = f + 1
  <2> DEFINE P == {j \in Sections : state'[j] = "pending"}
  <2>1. f + 1 \in P
    BY <1>1, <1>4 DEF At
  <2>2. \A j \in P : j \in Int /\ f + 1 <= j
    BY <1>3, SectionsAre DEF DoneBefore
  <2>3. \A x \in P : (\A y \in P : x <= y) => x = f + 1
    BY <2>1, <2>2
  <2> HIDE DEF P
  <2>4. Min(P) = f + 1
    BY <2>1, <2>2, <2>3 DEF Min
  <2> QED
    BY <2>4 DEF NextPending, P
<1>6. ~AllDone(state') /\ \E j \in Sections : state'[j] = "pending"
  BY <1>1, <1>4 DEF AllDone, At
<1> QED
  BY <1>1, <1>3, <1>4, <1>5, <1>6

\* The last section is completed: so are all.
LEMMA FrontierEnds ==
  ASSUME Shapes, NEW f \in Sections, DoneBefore(f), After(f),
         NEW what \in {"generated", "skipped"}, Complete(f, what),
         f = NumSections
  PROVE  /\ \A j \in Sections : state'[j] = "completed" /\ content'[j] # "none"
         /\ AllDone(state')
         /\ Assembled(state', content') = Sections
<1>1. /\ \A j \in Sections : j # f => state'[j] = state[j] /\ content'[j] = content[j]
      /\ state'[f] = "completed" /\ content'[f] = what
  BY DEF Complete, Shapes
<1>2. \A j \in Sections : state'[j] = "completed" /\ content'[j] # "none"
  BY <1>1, SectionsAre DEF DoneBefore
<1> QED
  BY <1>2 DEF AllDone, Assembled

LEMMA CompleteKeeps ==
  ASSUME Shapes, NEW f \in Sections, content[f] # "generated",
         NEW what \in {"generated", "skipped"}, Complete(f, what)
  PROVE  /\ state' \in [Sections -> States] /\ content' \in [Sections -> Texts]
         /\ Kept
BY DEF Shapes, Complete, Kept, States, Texts

\* The section at the frontier changes its state and has no text: the sections
\* before and after it are as they were.
LEMMA FrontierStays ==
  ASSUME Shapes, NEW f \in Sections, DoneBefore(f), After(f), content[f] = "none",
         NEW st \in States, state' = [state EXCEPT ![f] = st],
         content' = content \/ content' = [content EXCEPT ![f] = "none"]
  PROVE  /\ state' \in [Sections -> States] /\ content' = content
         /\ DoneBefore(f)' /\ After(f)' /\ At(f, st, "none")'
         /\ Kept
<1>1. content' = content
  BY DEF Shapes
<1>2. /\ \A j \in Sections : j # f => state'[j] = state[j]
      /\ state'[f] = st /\ state' \in [Sections -> States]
  BY DEF Shapes
<1> QED
  BY <1>1, <1>2, SectionsAre DEF DoneBefore, After, At, Kept

\* What the states of the sections do not see.
LEMMA FrontierFrame ==
  ASSUME NEW f \in Sections, DoneBefore(f), After(f), UNCHANGED <<state, content>>
  PROVE  DoneBefore(f)' /\ After(f)' /\ Kept
BY DEF DoneBefore, After, Kept

-----------------------------------------------------------------------------
(* One lemma per phase: what the batch may become *)

LEMMA ShowIs ==
  ASSUME NEW what, NEW failing, shown # "gone", Show(what, failing)
  PROVE  shown' = what /\ failed' = failing
BY DEF Show

\* The user who waits does not click while a click is unanswered.
LEMMA NoClick ==
  ASSUME ~rushed', shown # "error" \/ Unanswered
  PROVE  ~ClickRetry /\ ~ClickSkip
<1>1. ~Click
  <2>1. Click => shown = "error" /\ rushed' = (rushed \/ Unanswered)
    BY DEF Click
  <2> QED
    BY <2>1
<1> QED
  BY <1>1 DEF ClickRetry, ClickSkip

LEMMA NoTimerFires ==
  ASSUME NoTimers
  PROVE  \A i \in Sections : ~RetryTimerFires(i)
BY DEF NoTimers, RetryTimerFires

LEMMA FinishedNext ==
  ASSUME Finished, BatchNext, ~rushed'
  PROVE  FALSE
<1>1. tasks = {} /\ skips = {} /\ NoTimers /\ shown = "done"
  BY DEF Finished
<1>2. ~ClickRetry /\ ~ClickSkip
  BY <1>1, NoClick
<1> QED
  BY <1>1, <1>2, NoTimerFires DEF BatchNext, Progress

LEMMA LostNext ==
  ASSUME NEW f \in Sections, Lost(f), BatchNext, ~rushed'
  PROVE  FALSE
<1>1. tasks = {} /\ skips = {} /\ NoTimers /\ shown # "error"
  BY DEF Lost
<1>2. ~ClickRetry /\ ~ClickSkip
  BY <1>1, NoClick
<1> QED
  BY <1>1, <1>2, NoTimerFires DEF BatchNext, Progress

LEMMA DispatchingNext ==
  ASSUME Shapes, alive, NEW f \in Sections, DoneBefore(f), After(f), Dispatching(f),
         BatchNext, ~rushed'
  PROVE  Sequential' /\ Kept
<1>1. PICK t \in tasks :
        /\ OnlyTask(t, f, "dispatch")
        /\ \/ t.by \in {"first", "chain", "timer"} /\ shown = "progress" /\ failed = {}
           \/ t.by = "retry" /\ shown = "error" /\ failed = {f}
           \/ /\ t.by = "skip" /\ shown = "error" /\ failed = {t.from}
              /\ t.from \in Sections /\ t.from < f /\ content[t.from] = "skipped"
  BY DEF Dispatching
<1>2. t.at = "dispatch" /\ t.sec = f /\ tasks = {t}
  BY <1>1 DEF OnlyTask
<1>3. skips = {} /\ NoTimers /\ state[f] = "pending" /\ content[f] = "none"
  BY DEF Dispatching, At
<1>4. CASE Dispatched(t)
  <2>1. /\ state' = [state EXCEPT ![f] = "running"] /\ content' = content
        /\ UNCHANGED <<alive, timers, skips>>
    BY <1>2, <1>4 DEF Dispatched, MarkSectionRunning
  <2>2. shown' = "progress" /\ failed' = {}
    <3>1. Show("progress", failed \ {t.from, t.sec})
      BY <1>4 DEF Dispatched
    <3>2. failed \ {t.from, t.sec} = {}
      BY <1>1, <1>2
    <3> QED
      BY <1>1, <3>1, <3>2, ShowIs
  <2>3. /\ DoneBefore(f)' /\ After(f)' /\ At(f, "running", "none")' /\ Kept
        /\ state' \in [Sections -> States]
    BY <1>3, <2>1, FrontierStays DEF States
  <2>4. \E u \in tasks' : OnlyTask(u, f, "live")'
    <3> DEFINE u == [t EXCEPT !.at = "live"]
    <3>1. tasks' = {u}
      BY <1>2, <1>4 DEF Dispatched
    <3>2. u = [id |-> u.id, sec |-> f, at |-> "live", by |-> u.by, from |-> u.from]
      BY <1>1 DEF OnlyTask
    <3> HIDE DEF u
    <3> QED
      BY <3>1, <3>2 DEF OnlyTask
  <2>5. Generating(f)'
    BY <1>3, <2>1, <2>2, <2>3, <2>4 DEF Generating, NoTimers
  <2>6. Shapes'
    BY <2>1, <2>3 DEF Shapes
  <2> QED
    BY <2>1, <2>3, <2>5, <2>6 DEF Sequential, Underway, Phase
<1>5. CASE DispatchFails(t)
  <2>1. /\ tasks' = {} /\ content' = content /\ t.by \in Faulty
        /\ UNCHANGED <<alive, timers, skips>>
    BY <1>2, <1>5 DEF DispatchFails
  <2>2. CASE TimerDispatchFails(t)
    <3>1. state' = [state EXCEPT ![f] = "failed"]
      BY <1>2, <2>2 DEF TimerDispatchFails
    <3>2. shown' = "error" /\ failed' = {f}
      BY <1>1, <1>2, <2>2, ShowIs DEF TimerDispatchFails
    <3>3. /\ DoneBefore(f)' /\ After(f)' /\ At(f, "failed", "none")' /\ Kept
          /\ state' \in [Sections -> States]
      BY <1>3, <2>1, <3>1, FrontierStays DEF States
    <3>4. Paused(f)' /\ Shapes'
      BY <1>3, <2>1, <3>2, <3>3 DEF Paused, NoTimers, At, Shapes
    <3> QED
      BY <2>1, <3>3, <3>4 DEF Sequential, Underway, Phase
  <2>3. CASE ~TimerDispatchFails(t)
    <3>1. state' = state
      BY <1>5, <2>3 DEF DispatchFails
    <3>2. DoneBefore(f)' /\ After(f)' /\ Kept /\ Shapes' /\ At(f, "pending", "none")'
      BY <1>3, <2>1, <3>1, FrontierFrame DEF Shapes, At
    <3>3. CASE t.by = "chain" /\ Show("progress", failed \ {t.from})
      <4>1. shown' = "progress"
        BY <1>1, <3>3, ShowIs
      <4> QED
        BY <1>3, <2>1, <3>2, <3>3, <4>1 DEF Lost, NoTimers, Sequential, Underway, Phase
    <3>4. CASE t.by = "retry" /\ Show("error", failed)
      <4>1. shown' = "error" /\ failed' = {f}
        BY <1>1, <3>4, ShowIs
      <4>2. Paused(f)'
        BY <1>3, <2>1, <3>2, <4>1 DEF Paused, NoTimers, At
      <4> QED
        BY <2>1, <3>2, <4>2 DEF Sequential, Underway, Phase
    <3>5. CASE t.by = "skip" /\ Show("gone", {})
      <4>1. shown' = "gone"
        BY <1>1, <3>5, ShowIs
      <4> QED
        BY <1>3, <2>1, <3>2, <4>1 DEF Lost, NoTimers, Sequential, Underway, Phase
    <3> QED
      BY <1>5, <2>3, <3>3, <3>4, <3>5 DEF DispatchFails
  <2> QED
    BY <2>2, <2>3
<1>6. ~ClickRetry /\ ~ClickSkip
  <2>1. shown # "error" \/ Unanswered
    BY <1>1, <1>2 DEF Unanswered
  <2> QED
    BY <2>1, NoClick
<1>7. ~TaskCompletes(t) /\ ~TaskEndsLate(t) /\ \A outcome : ~TaskFails(t, outcome)
  BY <1>2 DEF TaskCompletes, TaskEndsLate, TaskFails
<1> QED
  BY <1>2, <1>3, <1>4, <1>5, <1>6, <1>7, NoTimerFires DEF BatchNext, Progress

LEMMA GeneratingNext ==
  ASSUME Shapes, alive, NEW f \in Sections, DoneBefore(f), After(f), Generating(f),
         BatchNext, ~rushed'
  PROVE  Sequential' /\ Kept
<1>1. PICK t \in tasks : OnlyTask(t, f, "live")
  BY DEF Generating
<1>2. t.at = "live" /\ t.sec = f /\ tasks = {t} /\ tasks \ {t} = {}
  BY <1>1 DEF OnlyTask
<1>3. /\ skips = {} /\ NoTimers /\ state[f] = "running" /\ content[f] = "none"
      /\ shown = "progress" /\ failed = {}
  BY DEF Generating, At
<1>4. CASE TaskCompletes(t)
  <2>1. Complete(f, "generated") /\ UNCHANGED <<timers, skips>>
    BY <1>2, <1>4 DEF TaskCompletes
  <2>2. Shapes' /\ Kept
    BY <1>3, <2>1, CompleteKeeps DEF Shapes
  <2>3. CASE f = NumSections
    <3>1. /\ \A j \in Sections : state'[j] = "completed"
          /\ AllDone(state') /\ Assembled(state', content') = Sections
      BY <2>1, <2>3, FrontierEnds
    <3>2. /\ tasks' = {} /\ alive' = FALSE /\ result' = Sections
          /\ Show("done", failed \ {f})
      BY <1>2, <1>4, <3>1 DEF TaskCompletes
    <3>3. shown' = "done"
      BY <1>3, <3>2, ShowIs
    <3>4. Finished'
      BY <1>3, <2>1, <3>2, <3>3 DEF Finished, NoTimers
    <3> QED
      BY <2>2, <3>4 DEF Sequential
  <2>4. CASE f # NumSections
    <3>0. f < NumSections
      BY <2>4, SectionsAre
    <3>1. /\ f + 1 \in Sections /\ NextPending(state') = f + 1
          /\ DoneBefore(f + 1)' /\ After(f + 1)' /\ At(f + 1, "pending", "none")'
          /\ ~AllDone(state') /\ \E j \in Sections : state'[j] = "pending"
      BY <1>3, <2>1, <3>0, FrontierMoves
    <3>2. Chain(f, "chain", {}) /\ alive' = alive
      BY <1>2, <1>4, <3>1 DEF TaskCompletes
    <3> DEFINE u == Dispatch(FreshId, f + 1, "chain", f)
    <3>3. tasks' = {u} /\ UNCHANGED <<shown, failed>>
      BY <3>1, <3>2 DEF Chain, display
    <3>4. u = [id |-> u.id, sec |-> f + 1, at |-> "dispatch", by |-> u.by,
               from |-> u.from] /\ u.by = "chain"
      BY DEF Dispatch
    <3> HIDE DEF u
    <3>5. Dispatching(f + 1)'
      BY <1>3, <2>1, <3>1, <3>3, <3>4 DEF Dispatching, OnlyTask, NoTimers
    <3> QED
      BY <2>2, <3>1, <3>2, <3>5 DEF Sequential, Underway, Phase
  <2> QED
    BY <2>3, <2>4
<1>5. ASSUME NEW outcome, TaskFails(t, outcome)
      PROVE  Sequential' /\ Kept
  <2>1. alive' /\ skips' = {} /\ content' = content
    BY <1>3, <1>5 DEF TaskFails
  <2>2. CASE AutoRetry(t)
    <3>1. /\ state' = [state EXCEPT ![f] = "retrying"] /\ tasks' = {}
          /\ timers' = [timers EXCEPT ![f] = @ + 1]
          /\ Show("progress", failed \ {f})
      BY <1>2, <2>2 DEF AutoRetry
    <3>2. shown' = "progress" /\ failed' = {}
      BY <1>3, <3>1, ShowIs
    <3>3. /\ DoneBefore(f)' /\ After(f)' /\ At(f, "retrying", "none")' /\ Kept
          /\ state' \in [Sections -> States]
      BY <1>3, <2>1, <3>1, FrontierStays DEF States
    <3>4. /\ timers' \in [Sections -> Nat]
          /\ timers'[f] = 1 /\ \A j \in Sections \ {f} : timers'[j] = 0
      BY <1>3, <3>1 DEF Shapes, NoTimers
    <3>5. Waiting(f)' /\ Shapes'
      BY <2>1, <3>1, <3>2, <3>3, <3>4 DEF Waiting, Shapes
    <3> QED
      BY <2>1, <3>3, <3>5 DEF Sequential, Underway, Phase
  <2>3. CASE SectionFails(t)
    <3>1. /\ state' = [state EXCEPT ![f] = "failed"] /\ tasks' = {}
          /\ timers' = timers
          /\ Show("error", failed \cup {f})
      BY <1>2, <2>3 DEF SectionFails
    <3>2. shown' = "error" /\ failed' = {f}
      BY <1>3, <3>1, ShowIs
    <3>3. /\ DoneBefore(f)' /\ After(f)' /\ At(f, "failed", "none")' /\ Kept
          /\ state' \in [Sections -> States]
      BY <1>3, <2>1, <3>1, FrontierStays DEF States
    <3>4. Paused(f)' /\ Shapes'
      BY <1>3, <2>1, <3>1, <3>2, <3>3 DEF Paused, At, NoTimers, Shapes
    <3> QED
      BY <2>1, <3>3, <3>4 DEF Sequential, Underway, Phase
  <2> QED
    BY <1>5, <2>2, <2>3 DEF TaskFails
<1>6. ~ClickRetry /\ ~ClickSkip
  BY <1>3, NoClick
<1>7. ~Dispatched(t) /\ ~DispatchFails(t) /\ ~TaskEndsLate(t)
  BY <1>2 DEF Dispatched, DispatchFails, TaskEndsLate
<1> QED
  BY <1>2, <1>3, <1>4, <1>5, <1>6, <1>7, NoTimerFires DEF BatchNext, Progress

LEMMA WaitingNext ==
  ASSUME Shapes, alive, NEW f \in Sections, DoneBefore(f), After(f), Waiting(f),
         BatchNext, ~rushed'
  PROVE  Sequential' /\ Kept
<1>1. /\ tasks = {} /\ skips = {} /\ state[f] = "retrying" /\ content[f] = "none"
      /\ timers[f] = 1 /\ \A j \in Sections \ {f} : timers[j] = 0
      /\ shown = "progress" /\ failed = {}
  BY DEF Waiting, At
<1>2. ~ClickRetry /\ ~ClickSkip
  BY <1>1, NoClick
<1>3. RetryTimerFires(f)
  <2>1. ASSUME NEW j \in Sections \ {f}
        PROVE  ~RetryTimerFires(j)
    <3>1. timers[j] = 0
      BY <1>1
    <3> QED
      BY <3>1 DEF RetryTimerFires
  <2> QED
    BY <1>1, <1>2, <2>1 DEF BatchNext, Progress
<1>4. /\ state' = [state EXCEPT ![f] = "pending"]
      /\ content' = [content EXCEPT ![f] = "none"]
      /\ timers' = [timers EXCEPT ![f] = @ - 1]
      /\ tasks' = {Dispatch(FreshId, f, "timer", 0)}
      /\ UNCHANGED <<alive, skips, shown, failed>>
  BY <1>1, <1>3 DEF RetryTimerFires, Redispatch
<1>5. /\ DoneBefore(f)' /\ After(f)' /\ At(f, "pending", "none")' /\ Kept
      /\ state' \in [Sections -> States] /\ content' = content
  BY <1>1, <1>4, FrontierStays DEF States
<1>6. NoTimers' /\ timers' \in [Sections -> Nat]
  BY <1>1, <1>4 DEF NoTimers, Shapes
<1> DEFINE u == Dispatch(FreshId, f, "timer", 0)
<1>7. u = [id |-> u.id, sec |-> f, at |-> "dispatch", by |-> u.by, from |-> u.from]
      /\ u.by = "timer"
  BY DEF Dispatch
<1>8. tasks' = {u}
  BY <1>4
<1> HIDE DEF u
<1>9. Dispatching(f)'
  BY <1>1, <1>4, <1>5, <1>6, <1>7, <1>8 DEF Dispatching, OnlyTask
<1>10. Shapes'
  BY <1>5, <1>6 DEF Shapes
<1> QED
  BY <1>4, <1>5, <1>9, <1>10 DEF Sequential, Underway, Phase

\* The rest of batchSkipSection, after the deletion of the row or without it.
LEMMA SkipCompletesNext ==
  ASSUME Shapes, alive, NEW f \in Sections, DoneBefore(f), After(f), NoTimers,
         content[f] = "none", shown = "error", failed = {f},
         NEW click, SkipCompletes(f, click, {}, {}), UNCHANGED <<alive, timers>>
  PROVE  Sequential' /\ Kept
<1>1. Complete(f, "skipped")
  BY DEF SkipCompletes
<1>2. Shapes' /\ Kept
  BY <1>1, CompleteKeeps DEF Shapes
<1>3. state'[f] = "completed" /\ content'[f] = "skipped"
  BY <1>1 DEF Complete, Shapes
<1>4. CASE f = NumSections
  <2>1. /\ \A j \in Sections : state'[j] = "completed" /\ content'[j] # "none"
        /\ AllDone(state') /\ Assembled(state', content') = Sections
    BY <1>1, <1>4, FrontierEnds
  <2>2. /\ skips' = {[click |-> click, sec |-> f, id |-> 0, at |-> "purge",
                      got |-> Sections]}
        /\ tasks' = {} /\ UNCHANGED <<shown, failed>>
    BY <2>1 DEF SkipCompletes, display
  <2>3. Purging(f)'
    BY <1>3, <1>4, <2>2 DEF Purging, NoTimers, At
  <2>4. DoneBefore(f)' /\ After(f)'
    BY <1>4, <2>1, SectionsAre DEF DoneBefore, After
  <2> QED
    BY <1>2, <2>3, <2>4 DEF Sequential, Underway, Phase
<1>5. CASE f # NumSections
  <2>0. f < NumSections
    BY <1>5, SectionsAre
  <2>1. /\ f + 1 \in Sections /\ NextPending(state') = f + 1
        /\ DoneBefore(f + 1)' /\ After(f + 1)' /\ At(f + 1, "pending", "none")'
        /\ ~AllDone(state') /\ \E j \in Sections : state'[j] = "pending"
    BY <1>1, <2>0, FrontierMoves
  <2>2. Chain(f, "skip", {}) /\ skips' = {}
    BY <2>1 DEF SkipCompletes
  <2> DEFINE u == Dispatch(FreshId, f + 1, "skip", f)
  <2>3. tasks' = {u} /\ UNCHANGED <<shown, failed>>
    BY <2>1, <2>2 DEF Chain, display
  <2>4. u = [id |-> u.id, sec |-> f + 1, at |-> "dispatch", by |-> u.by,
             from |-> u.from] /\ u.by = "skip" /\ u.from = f
    BY DEF Dispatch
  <2> HIDE DEF u
  <2>5. f < f + 1
    BY SectionsAre
  <2>6. Dispatching(f + 1)'
    BY <1>3, <2>1, <2>2, <2>3, <2>4, <2>5 DEF Dispatching, OnlyTask, NoTimers
  <2> QED
    BY <1>2, <2>1, <2>6 DEF Sequential, Underway, Phase
<1> QED
  BY <1>4, <1>5

LEMMA PausedNext ==
  ASSUME Shapes, alive, NEW f \in Sections, DoneBefore(f), After(f), Paused(f),
         BatchNext, ~rushed'
  PROVE  Sequential' /\ Kept
<1>1. /\ tasks = {} /\ skips = {} /\ NoTimers
      /\ state[f] \in {"failed", "pending"} /\ content[f] = "none"
      /\ shown = "error" /\ failed = {f}
  BY DEF Paused
<1>2. Target = {f}
  <2>1. Min({f}) = f
    BY MinOfOne, SectionsAre
  <2> QED
    BY <1>1, <2>1 DEF Target
<1>3. CASE ClickRetry
  <2>1. /\ state' = [state EXCEPT ![f] = "pending"]
        /\ content' = [content EXCEPT ![f] = "none"]
        /\ tasks' = {Dispatch(FreshId, f, "retry", 0)}
        /\ UNCHANGED <<alive, timers, skips, shown, failed>>
    BY <1>1, <1>2, <1>3 DEF ClickRetry, Redispatch, display
  <2>2. /\ DoneBefore(f)' /\ After(f)' /\ At(f, "pending", "none")' /\ Kept
        /\ state' \in [Sections -> States] /\ content' = content
    BY <1>1, <2>1, FrontierStays DEF States
  <2> DEFINE u == Dispatch(FreshId, f, "retry", 0)
  <2>3. u = [id |-> u.id, sec |-> f, at |-> "dispatch", by |-> u.by, from |-> u.from]
        /\ u.by = "retry"
    BY DEF Dispatch
  <2>4. tasks' = {u}
    BY <2>1
  <2> HIDE DEF u
  <2>5. Dispatching(f)'
    BY <1>1, <2>1, <2>2, <2>3, <2>4 DEF Dispatching, OnlyTask, NoTimers
  <2>6. Shapes'
    BY <2>1, <2>2 DEF Shapes
  <2> QED
    BY <2>1, <2>2, <2>5, <2>6 DEF Sequential, Underway, Phase
<1>4. CASE ClickSkip
  <2>0. UNCHANGED <<alive, timers>>
    BY <1>4 DEF ClickSkip
  <2>1. CASE taskId[f] = 0
    <3>1. SkipCompletes(f, clicks, {}, {})
      BY <1>1, <1>2, <1>4, <2>1 DEF ClickSkip
    <3> QED
      BY <1>1, <2>0, <3>1, SkipCompletesNext
  <2>2. CASE taskId[f] # 0
    <3> DEFINE c == [click |-> clicks, sec |-> f, id |-> taskId[f],
                     at |-> "delete", got |-> {}]
    <3>1. skips' = {c} /\ UNCHANGED <<state, content, tasks, shown, failed>>
      BY <1>1, <1>2, <1>4, <2>2 DEF ClickSkip, display
    <3>2. c.at = "delete" /\ c.sec = f
      OBVIOUS
    <3> HIDE DEF c
    <3>3. DoneBefore(f)' /\ After(f)' /\ Kept
      BY <3>1, FrontierFrame
    <3>4. Skipping(f)' /\ Shapes'
      BY <1>1, <2>0, <3>1, <3>2 DEF Skipping, NoTimers, Shapes
    <3> QED
      BY <2>0, <3>3, <3>4 DEF Sequential, Underway, Phase
  <2> QED
    BY <2>1, <2>2
<1> QED
  BY <1>1, <1>3, <1>4, NoTimerFires DEF BatchNext, Progress

LEMMA SkippingNext ==
  ASSUME Shapes, alive, NEW f \in Sections, DoneBefore(f), After(f), Skipping(f),
         BatchNext, ~rushed'
  PROVE  Sequential' /\ Kept
<1>1. PICK c \in skips : skips = {c} /\ c.at = "delete" /\ c.sec = f
  BY DEF Skipping
<1>2. /\ tasks = {} /\ NoTimers /\ content[f] = "none"
      /\ shown = "error" /\ failed = {f}
  BY DEF Skipping
<1>3. ~ClickRetry /\ ~ClickSkip
  BY <1>1, NoClick DEF Unanswered
<1>4. SkipDeleted(c)
  BY <1>1, <1>2, <1>3, NoTimerFires DEF BatchNext, Progress, SkipPurged
<1>5. Doomed({c.id}, tasks) = {} /\ skips \ {c} = {}
  BY <1>1, <1>2 DEF Doomed
<1>6. SkipCompletes(f, c.click, {}, {}) /\ UNCHANGED <<alive, timers>>
  BY <1>1, <1>4, <1>5 DEF SkipDeleted
<1> QED
  BY <1>2, <1>6, SkipCompletesNext

LEMMA PurgingNext ==
  ASSUME Shapes, alive, NEW f \in Sections, DoneBefore(f), After(f), Purging(f),
         BatchNext, ~rushed'
  PROVE  Sequential' /\ Kept
<1>1. PICK c \in skips : skips = {c} /\ c.at = "purge" /\ c.sec = f /\ c.got = Sections
  BY DEF Purging
<1>2. tasks = {} /\ NoTimers /\ shown = "error"
  BY DEF Purging
<1>3. ~ClickRetry /\ ~ClickSkip
  BY <1>1, NoClick DEF Unanswered
<1>4. SkipPurged(c)
  BY <1>1, <1>2, <1>3, NoTimerFires DEF BatchNext, Progress, SkipDeleted
<1>5. /\ tasks' = {} /\ skips' = {} /\ alive' = FALSE /\ result' = Sections
      /\ UNCHANGED <<state, content, timers>>
  BY <1>1, <1>2, <1>4 DEF SkipPurged, Doomed
<1>6. shown' = "done"
  BY <1>2, <1>4, ShowIs DEF SkipPurged
<1>7. Finished' /\ Shapes' /\ Kept
  BY <1>2, <1>5, <1>6 DEF Finished, NoTimers, Shapes, Kept
<1> QED
  BY <1>7 DEF Sequential

-----------------------------------------------------------------------------
(* The invariant *)

LEMMA InitSequential == BatchInit => Sequential
<1> SUFFICES ASSUME BatchInit
             PROVE  Sequential
  OBVIOUS
<1>1. 1 \in Sections /\ \A f \in Sections : f >= 1
  BY SectionsAre DEF Sections
<1>2. Shapes /\ NoTimers /\ \A f \in Sections : At(f, "pending", "none")
  BY DEF BatchInit, Shapes, NoTimers, At, States, Texts
<1>3. DoneBefore(1) /\ After(1)
  BY <1>1, <1>2, SectionsAre DEF DoneBefore, After, At
<1> DEFINE t == Dispatch(1, 1, "first", 0)
<1>4. t = [id |-> t.id, sec |-> 1, at |-> "dispatch", by |-> t.by, from |-> t.from]
      /\ t.by = "first"
  BY DEF Dispatch
<1>5. tasks = {t} /\ skips = {} /\ alive /\ shown = "progress" /\ failed = {}
  BY DEF BatchInit
<1> HIDE DEF t
<1>6. Dispatching(1)
  BY <1>1, <1>2, <1>4, <1>5 DEF Dispatching, OnlyTask
<1> QED
  BY <1>1, <1>2, <1>3, <1>5, <1>6 DEF Sequential, Underway, Phase

\* A step after which the user has still been patient.
LEMMA SequentialNext ==
  ASSUME Sequential, BatchNext, ~rushed'
  PROVE  Sequential' /\ Kept
<1>1. CASE Finished
  BY <1>1, FinishedNext
<1>2. CASE Underway
  <2>1. Shapes /\ alive
    BY <1>2 DEF Sequential, Underway
  <2>2. PICK f \in Sections : DoneBefore(f) /\ After(f) /\ Phase(f)
    BY <1>2 DEF Underway
  <2> QED
    BY <2>1, <2>2, LostNext, DispatchingNext, GeneratingNext, WaitingNext, PausedNext,
       SkippingNext, PurgingNext DEF Phase
<1> QED
  BY <1>1, <1>2 DEF Sequential

\* Once impatient, the user is on their own.
LEMMA RushedStays == BatchNext /\ ~rushed' => ~rushed
<1> SUFFICES ASSUME BatchNext, rushed
             PROVE  rushed'
  OBVIOUS
<1>1. CASE Progress
  <2>1. rushed' = rushed
    BY <1>1 DEF Progress, Dispatched, DispatchFails, TaskCompletes, TaskEndsLate,
                TaskFails, RetryTimerFires, SkipDeleted, SkipPurged
  <2> QED
    BY <2>1
<1>2. CASE ClickRetry \/ ClickSkip
  <2>1. rushed' = (rushed \/ Unanswered)
    BY <1>2 DEF ClickRetry, ClickSkip, Click
  <2> QED
    BY <2>1
<1> QED
  BY <1>1, <1>2 DEF BatchNext

LEMMA BatchFrame ==
  ASSUME Sequential, UNCHANGED batchVars
  PROVE  Sequential'
BY DEF Sequential, Shapes, Underway, Finished, Phase, DoneBefore, After, NoTimers, At,
       OnlyTask, Dispatching, Generating, Waiting, Paused, Skipping, Purging, Lost,
       batchVars

THEOREM BatchInvariant == BatchSpec => []BInv
<1>1. BatchInit => BInv
  BY InitSequential DEF BInv
<1>2. BInv /\ [BatchNext]_batchVars => BInv'
  <2> SUFFICES ASSUME BInv, [BatchNext]_batchVars, ~rushed'
               PROVE  Sequential'
    BY DEF BInv
  <2>1. CASE BatchNext
    BY <2>1, RushedStays, SequentialNext DEF BInv
  <2>2. CASE UNCHANGED batchVars
    <3>1. ~rushed
      BY <2>2 DEF batchVars
    <3> QED
      BY <2>2, <3>1, BatchFrame DEF BInv
  <2> QED
    BY <2>1, <2>2
<1> QED
  BY <1>1, <1>2, PTL DEF BatchSpec

-----------------------------------------------------------------------------
(* The theorems *)

\* The saga is sequential as long as the user waits for an answer
\* (chapter-generation-service.ts, _onBatchSectionDone and batchSkipSection): of
\* tasks, retry timers and skips there is one at a time.
THEOREM SagaIsSequential == BatchSpec => []OneAtATime
<1>1. BInv => OneAtATime
  <2> SUFFICES ASSUME BInv, ~rushed
               PROVE  OneAtATime
    BY DEF OneAtATime
  <2>1. CASE Finished
    BY <2>1 DEF Finished, NoTimers, OneAtATime
  <2>2. ASSUME NEW f \in Sections, Phase(f)
        PROVE  OneAtATime
    <3>1. CASE Dispatching(f)
      BY <3>1 DEF Dispatching, OnlyTask, NoTimers, OneAtATime
    <3>2. CASE Generating(f)
      BY <3>2 DEF Generating, OnlyTask, NoTimers, OneAtATime
    <3>3. CASE Waiting(f)
      BY <3>3 DEF Waiting, OneAtATime
    <3>4. CASE Paused(f) \/ Lost(f)
      BY <3>4 DEF Paused, Lost, NoTimers, OneAtATime
    <3>5. CASE Skipping(f) \/ Purging(f)
      BY <3>5 DEF Skipping, Purging, NoTimers, OneAtATime
    <3> QED
      BY <2>2, <3>1, <3>2, <3>3, <3>4, <3>5 DEF Phase
  <2> QED
    BY <2>1, <2>2 DEF BInv, Sequential, Underway
<1> QED
  BY <1>1, BatchInvariant, PTL

\* Then a section is generated with the text of every section before it.
THEOREM SectionsFollowTheChain == BatchSpec => []EarlierSectionsComplete
<1>1. BInv => EarlierSectionsComplete
  <2> SUFFICES ASSUME BInv, ~rushed, NEW t \in tasks, NEW j \in 1..(t.sec - 1)
               PROVE  content[j] # "none"
    BY DEF EarlierSectionsComplete
  <2>1. ~Finished
    BY DEF Finished
  <2>2. PICK f \in Sections : DoneBefore(f) /\ Phase(f)
    BY <2>1 DEF BInv, Sequential, Underway
  <2>3. t.sec = f
    BY <2>2 DEF Phase, Dispatching, Generating, Waiting, Paused, Skipping, Purging,
                Lost, OnlyTask
  <2>4. j \in Sections /\ j < f
    BY <2>3, SectionsAre DEF Sections
  <2> QED
    BY <2>2, <2>4 DEF DoneBefore
<1> QED
  BY <1>1, BatchInvariant, PTL

\* Then what the renderer is given as the complete chapter has every section.
THEOREM ResultsAreWhole == BatchSpec => []ResultIsWhole
<1>1. BInv => ResultIsWhole
  <2> SUFFICES ASSUME BInv, ~rushed, shown = "done"
               PROVE  result = Sections
    BY DEF ResultIsWhole
  <2>1. \A f : ~Phase(f)
    BY DEF Phase, Dispatching, Generating, Waiting, Paused, Skipping, Purging, Lost
  <2> QED
    BY <2>1 DEF BInv, Sequential, Underway, Finished
<1> QED
  BY <1>1, BatchInvariant, PTL

\* The progress bar is moved by something, if the dispatch of the next section
\* by the chain succeeds (its failure is only logged, chapter-generation-service.ts).
THEOREM BarIsMoved ==
  ASSUME "chain" \notin Faulty PROVE BatchSpec => []NeverStuck
<1>1. BInv => NeverStuck
  <2> SUFFICES ASSUME BInv, ~rushed, shown = "progress", tasks = {}, skips = {}
               PROVE  \E i \in Sections : timers[i] > 0
    BY DEF NeverStuck
  <2>1. ~Finished
    BY DEF Finished
  <2>2. PICK f \in Sections : Phase(f)
    BY <2>1 DEF BInv, Sequential, Underway
  <2>3. Waiting(f)
    BY <2>2 DEF Phase, Dispatching, Generating, Paused, Skipping, Purging, Lost, OnlyTask
  <2> QED
    BY <2>3 DEF Waiting
<1> QED
  BY <1>1, BatchInvariant, PTL

\* The section the user is asked about has no generated text.
LEMMA AskedSection ==
  ASSUME Sequential, shown = "error"
  PROVE  \E g \in Sections : failed = {g} /\ content[g] # "generated"
<1>1. PICK f \in Sections : Phase(f)
  BY DEF Sequential, Underway, Finished
<1>2. CASE Dispatching(f)
  BY <1>2 DEF Dispatching, At
<1>3. CASE ~Dispatching(f)
  BY <1>1, <1>3 DEF Phase, Generating, Waiting, Paused, Skipping, Purging, Lost, At
<1> QED
  BY <1>2, <1>3

\* Not even the first impatient click throws generated text away, nor any step
\* before it.
THEOREM GeneratedTextIsKept == BatchSpec => GeneratedKept
<1>1. BInv /\ [BatchNext]_batchVars
        => [\A i \in Sections : ~rushed /\ content[i] = "generated"
                                  => content'[i] = "generated"]_content
  <2> SUFFICES ASSUME BInv, BatchNext, ~rushed
               PROVE  Kept
    BY DEF Kept, batchVars
  <2>0. Sequential
    BY DEF BInv
  <2>1. CASE ~rushed'
    BY <2>0, <2>1, SequentialNext
  <2>2. CASE Progress
    <3>1. rushed' = rushed
      BY <2>2 DEF Progress, Dispatched, DispatchFails, TaskCompletes, TaskEndsLate,
                  TaskFails, RetryTimerFires, SkipDeleted, SkipPurged
    <3> QED
      BY <2>1, <3>1
  <2>3. CASE ClickRetry \/ ClickSkip
    <3>1. shown = "error"
      BY <2>3 DEF ClickRetry, ClickSkip, Click
    <3>2. PICK g \in Sections : failed = {g} /\ content[g] # "generated"
      BY <2>0, <3>1, AskedSection
    <3>3. Target = {g}
      <4>1. Min({g}) = g
        BY MinOfOne, SectionsAre
      <4> QED
        BY <3>2, <4>1 DEF Target
    <3>4. \/ content' = content
          \/ \E what \in Texts : content' = [content EXCEPT ![g] = what]
      BY <2>3, <3>3 DEF ClickRetry, ClickSkip, Redispatch, SkipCompletes, Complete, Texts
    <3> QED
      BY <2>0, <3>2, <3>4 DEF Kept, Sequential, Shapes
  <2> QED
    BY <2>2, <2>3 DEF BatchNext
<1> QED
  BY <1>1, BatchInvariant, PTL DEF BatchSpec, GeneratedKept

-----------------------------------------------------------------------------
(* The generation of one chapter *)

Operations == {"generate", "regenerate"}

Entries == [phase : Phases, op : Operations, task : {0} \cup TaskIds, base : Text,
            stream : Text, patch : BOOLEAN, rev : Nat, gen : Text]

\* No text that was generated has anything typed in it; without a phase there
\* is no entry.
EntryShape(e) ==
  /\ e \in Entries /\ e.stream.typed = {} /\ e.gen.typed = {}
  /\ e.phase = "none" => e = Blank

TextsShape ==
  /\ editor \in Text /\ store \in Text /\ disk \in Text
  /\ modal \in Text /\ modal.typed = {}

FlagsShape ==
  /\ pending \in BOOLEAN /\ locked \in BOOLEAN /\ loaded \in BOOLEAN
  /\ clearedKey \in BOOLEAN /\ taken \in BOOLEAN /\ calm \in BOOLEAN
  /\ view \in {"writing", "stage", "away"} /\ consumed \in Nat /\ moves \in 0..MaxMoves

JobsShape ==
  /\ routed \subseteq TaskIds /\ fetching \subseteq TaskIds
  /\ jobs \in [TaskIds -> Job]

RestoreShape ==
  /\ restore \in [at : {"idle", "asked", "rows"}, left : SUBSET TaskIds, text : Text,
                  found : Entries]
  /\ EntryShape(restore.found)

SectionShape ==
  /\ TextsShape /\ FlagsShape /\ EntryShape(entry) /\ JobsShape /\ RestoreShape
  /\ asking = NoCall \/ asking \in [op : Operations, here : BOOLEAN]
  /\ before \subseteq Edits /\ known \subseteq Edits /\ overwritten \subseteq Edits

LEMMA SectionTexts ==
  /\ Empty \in Text /\ Empty.typed = {} /\ Nothing \in Text /\ Nothing.typed = {}
  /\ By("guidance", 0) \in Text
  /\ \A what \in {"draft", "drawn", "final"}, n \in TaskIds :
       /\ By(what, n) \in Text /\ By(what, n).typed = {}
       /\ By(what, n) # Nothing
  /\ \A text \in Text, S \in SUBSET Edits : [text EXCEPT !.typed = S] \in Text
<1>1. \A what \in {"guidance", "empty", "nothing"} : <<what, 0>> \in AiTexts
  BY DEF AiTexts
<1>2. \A what \in {"draft", "drawn", "final"}, n \in TaskIds : <<what, n>> \in AiTexts
  BY DEF AiTexts
<1>3. Empty \in Text /\ Empty.typed = {} /\ Nothing \in Text /\ Nothing.typed = {}
      /\ By("guidance", 0) \in Text
  BY <1>1 DEF Empty, Nothing, By, Text
<1>4. \A what \in {"draft", "drawn", "final"}, n \in TaskIds :
        By(what, n) \in Text /\ By(what, n).typed = {}
  BY <1>2 DEF By, Text
<1>5. \A what \in {"draft", "drawn", "final"}, n \in TaskIds : By(what, n) # Nothing
  <2> SUFFICES ASSUME NEW what \in {"draft", "drawn", "final"}, NEW n \in TaskIds,
                      By(what, n) = Nothing
               PROVE FALSE
    OBVIOUS
  <2>1. <<what, n>> = <<"nothing", 0>>
    BY DEF By, Nothing
  <2> QED
    BY <2>1
<1>6. \A text \in Text, S \in SUBSET Edits : [text EXCEPT !.typed = S] \in Text
  BY DEF Text
<1> QED
  BY <1>3, <1>4, <1>5, <1>6

LEMMA BlankShape == EntryShape(Blank)
BY SectionTexts DEF EntryShape, Blank, Entries, Phases, Operations

LEMMA SectionShapeInit == SectionInit => SectionShape
<1> SUFFICES ASSUME SectionInit PROVE SectionShape
  OBVIOUS
<1>1. JobsShape
  BY SectionTexts DEF SectionInit, JobsShape, Job, Streaming
<1>2. RestoreShape
  BY SectionTexts, BlankShape DEF SectionInit, RestoreShape, NoRestore, EntryShape
<1>3. TextsShape
  BY SectionTexts DEF SectionInit, TextsShape
<1>4. FlagsShape
  <2>1. moves \in 0..MaxMoves
    BY SectionAssumption DEF SectionInit
  <2> QED
    BY <2>1 DEF SectionInit, FlagsShape
<1>5. EntryShape(entry)
  BY BlankShape DEF SectionInit
<1> QED
  BY <1>1, <1>2, <1>3, <1>4, <1>5 DEF SectionInit, SectionShape

LEMMA ShapeIsType == SectionShape => SectionTypeOK
<1> SUFFICES ASSUME SectionShape PROVE SectionTypeOK
  OBVIOUS
<1>1. {editor, store, disk} \subseteq Text /\ modal \in Text
  BY DEF SectionShape, TextsShape
<1>2. /\ {pending, locked, loaded, clearedKey, taken, calm} \subseteq BOOLEAN
      /\ view \in {"writing", "stage", "away"} /\ consumed \in Nat
      /\ moves \in 0..MaxMoves
  BY DEF SectionShape, FlagsShape
<1>3. entry \in Entries /\ entry.stream.typed = {} /\ entry.gen.typed = {}
  BY DEF SectionShape, EntryShape
<1>4. routed \cup fetching \subseteq TaskIds /\ jobs \in [TaskIds -> Job]
  BY DEF SectionShape, JobsShape
<1>5. asking \in [op : {"none", "generate", "regenerate"}, here : BOOLEAN]
  <2>1. CASE asking = NoCall
    BY <2>1 DEF NoCall
  <2>2. CASE asking \in [op : Operations, here : BOOLEAN]
    BY <2>2 DEF Operations
  <2> QED
    BY <2>1, <2>2 DEF SectionShape
<1>6. restore.at \in {"idle", "asked", "rows"} /\ restore.left \subseteq TaskIds
  BY DEF SectionShape, RestoreShape
<1>7. before \cup known \cup overwritten \subseteq Edits
  BY DEF SectionShape
<1> QED
  BY <1>1, <1>2, <1>3, <1>4, <1>5, <1>6, <1>7 DEF SectionTypeOK, Entries, Operations

-----------------------------------------------------------------------------
(* Every action keeps the shapes, in the parts it changes. *)

LEMMA ShapeSame ==
  /\ SectionShape
  /\ UNCHANGED sectionVars
  => SectionShape'
BY DEF sectionVars, SectionShape, TextsShape, FlagsShape, JobsShape, RestoreShape

\* What an update leaves of an entry is an entry.
LEMMA UpdateShape ==
  ASSUME NEW n, NEW new, EntryShape(entry), EntryShape(new), Update(n, new)
  PROVE  EntryShape(entry')
BY DEF Update

\* A replaced section.
LEMMA ReplaceShape ==
  ASSUME SectionShape, NEW new \in Text, NEW unasked \in SUBSET Edits,
         Replace(new, unasked)
  PROVE  /\ editor' \in Text /\ store' \in Text /\ pending' \in BOOLEAN
         /\ overwritten' \subseteq Edits
BY DEF SectionShape, TextsShape, Replace

LEMMA DismissShape ==
  ASSUME SectionShape, Dismiss, UNCHANGED fetching
  PROVE  /\ EntryShape(entry') /\ JobsShape'
         /\ consumed' \in Nat /\ clearedKey' \in BOOLEAN /\ taken' \in BOOLEAN
<1>1. EntryShape(entry')
  BY BlankShape DEF Dismiss
<1>2. JobsShape'
  BY DEF Dismiss, SectionShape, JobsShape, Job
<1> QED
  BY <1>1, <1>2 DEF Dismiss

LEMMA StartsShape ==
  ASSUME SectionShape, NEW op \in Operations, Starts(op)
  PROVE  SectionShape'
<1>1. EntryShape(entry')
  BY SectionTexts DEF Starts, SectionShape, TextsShape, EntryShape, Entries, Blank, Phases
<1>2. TextsShape' /\ RestoreShape'
  BY DEF Starts, texts, SectionShape, TextsShape, RestoreShape
<1>3. FlagsShape'
  BY DEF Starts, texts, SectionShape, FlagsShape
<1>4. JobsShape'
  BY DEF Starts, SectionShape, JobsShape
<1>5. asking' \in [op : Operations, here : BOOLEAN]
  BY DEF Starts
<1>6. before' \subseteq Edits /\ known' \subseteq Edits /\ overwritten' \subseteq Edits
  BY DEF Starts, SectionShape, TextsShape, Text
<1> QED
  BY <1>1, <1>2, <1>3, <1>4, <1>5, <1>6 DEF SectionShape

LEMMA StreamsShape ==
  ASSUME SectionShape, NEW n \in TaskIds, NEW from, NEW to \in Streaming,
         NEW what \in {"draft", "drawn", "final"}, Streams(n, from, to, what)
  PROVE  EntryShape(entry') /\ jobs' \in [TaskIds -> Job]
<1>1. jobs' \in [TaskIds -> Job]
  BY DEF Streams, SectionShape, JobsShape, Job
<1> DEFINE drawn == (to = "drawn")
           new == [entry EXCEPT !.phase = "running", !.stream = By(what, n),
                                !.patch = drawn, !.rev = entry.rev + 1]
<1>2. EntryShape(new)
  <2>1. entry \in Entries /\ entry.gen.typed = {}
    BY DEF SectionShape, EntryShape
  <2>2. By(what, n) \in Text /\ By(what, n).typed = {}
    BY SectionTexts
  <2>3. drawn \in BOOLEAN /\ "running" \in Phases /\ "running" # "none"
    BY DEF Phases
  <2> HIDE DEF drawn
  <2>4. new \in Entries
    <3>1. entry.rev + 1 \in Nat
      BY <2>1 DEF Entries
    <3>2. ASSUME NEW r \in Nat, NEW s \in Text, NEW d \in BOOLEAN
          PROVE  [entry EXCEPT !.phase = "running", !.stream = s, !.patch = d, !.rev = r]
                   \in Entries
      BY <2>1 DEF Entries, Phases
    <3> QED
      BY <3>1, <3>2, <2>2, <2>3, Zenon
  <2>5. new.stream = By(what, n) /\ new.gen = entry.gen /\ new.phase = "running"
    BY <2>1 DEF Entries
  <2> HIDE DEF new
  <2> QED
    BY <2>1, <2>2, <2>3, <2>4, <2>5 DEF EntryShape
<1>3. Update(n, new)
  BY DEF Streams
<1> HIDE DEF new
<1>4. EntryShape(entry')
  BY <1>2, <1>3, UpdateShape DEF SectionShape
<1> QED
  BY <1>1, <1>4

\* The user's own actions and what the document does.
LEMMA UserShape ==
  ASSUME SectionShape,
         \/ \E e \in Edits : EntersText(e)
         \/ EditorSerializes \/ StoreSaves \/ StructureLocks \/ SnapshotApplied
         \/ LeavesStage \/ LeavesProject \/ ComesBack \/ DocumentLoads
  PROVE  SectionShape'
<1> USE DEF texts, refs, ghosts, hook
<1>1. ASSUME NEW e \in Edits, EntersText(e) PROVE SectionShape'
  <2>1. [editor EXCEPT !.typed = @ \cup {e}] \in Text
    BY DEF SectionShape, TextsShape, Text
  <2>2. TextsShape' /\ FlagsShape' /\ JobsShape' /\ RestoreShape' /\ EntryShape(entry')
    BY <1>1, <2>1 DEF EntersText, SectionShape, TextsShape, FlagsShape, JobsShape,
                      RestoreShape
  <2> QED
    BY <1>1, <2>2 DEF EntersText, SectionShape
<1>2. CASE EditorSerializes
  <2>1. TextsShape'
    BY <1>2 DEF EditorSerializes, SectionShape, TextsShape
  <2>2. FlagsShape'
    BY <1>2 DEF EditorSerializes, SectionShape, FlagsShape
  <2>3. JobsShape' /\ RestoreShape' /\ EntryShape(entry')
    BY <1>2 DEF EditorSerializes, SectionShape, JobsShape, RestoreShape
  <2> QED BY <1>2, <2>1, <2>2, <2>3 DEF EditorSerializes, SectionShape
<1>3. CASE StoreSaves
  BY <1>3 DEF StoreSaves, SectionShape, TextsShape, FlagsShape, JobsShape, RestoreShape
<1>4. CASE StructureLocks
  <2>1. moves' \in 0..MaxMoves
    BY <1>4, SectionAssumption DEF StructureLocks, SectionShape, FlagsShape
  <2>2. TextsShape' /\ FlagsShape' /\ JobsShape' /\ RestoreShape' /\ EntryShape(entry')
    BY <1>4, <2>1 DEF StructureLocks, SectionShape, TextsShape, FlagsShape, JobsShape,
                      RestoreShape
  <2> QED
    BY <1>4, <2>2 DEF StructureLocks, SectionShape
<1>5. CASE SnapshotApplied
  BY <1>5 DEF SnapshotApplied, SectionShape, TextsShape, FlagsShape, JobsShape,
              RestoreShape
<1>6. ASSUME NEW to \in {"stage", "away"}, EditorGoes(to)
      PROVE  TextsShape' /\ FlagsShape'
  <2>1. moves' \in 0..MaxMoves
    BY <1>6, SectionAssumption DEF EditorGoes, SectionShape, FlagsShape
  <2> QED
    BY <1>6, <2>1, SectionTexts DEF EditorGoes, SectionShape, TextsShape, FlagsShape
<1>7. CASE LeavesStage
  <2>1. TextsShape' /\ FlagsShape'
    BY <1>6, <1>7 DEF LeavesStage
  <2> QED
    BY <1>7, <2>1 DEF LeavesStage, EditorGoes, SectionShape, JobsShape, RestoreShape
<1>8. CASE LeavesProject
  <2>1. TextsShape' /\ FlagsShape'
    BY <1>6, <1>8 DEF LeavesProject
  <2>2. RestoreShape'
    BY <1>8, SectionTexts, BlankShape DEF LeavesProject, RestoreShape, NoRestore,
                                          EntryShape
  <2>3. EntryShape(entry') /\ JobsShape'
    BY <1>8, BlankShape DEF LeavesProject, EditorGoes, SectionShape, JobsShape
  <2>4. asking' = NoCall \/ asking' \in [op : Operations, here : BOOLEAN]
    <3>1. CASE asking = NoCall
      BY <1>8, <3>1 DEF LeavesProject, NoCall
    <3>2. CASE asking \in [op : Operations, here : BOOLEAN]
      BY <1>8, <3>2 DEF LeavesProject
    <3> QED
      BY <3>1, <3>2 DEF SectionShape
  <2> QED
    BY <1>8, <2>1, <2>2, <2>3, <2>4 DEF LeavesProject, EditorGoes, SectionShape
<1>9. CASE ComesBack
  <2>1. RestoreShape'
    <3>1. CASE view = "away"
      BY <1>9, <3>1, SectionTexts, BlankShape
         DEF ComesBack, RestoreShape, NoRestore, EntryShape
    <3>2. CASE view # "away"
      BY <1>9, <3>2 DEF ComesBack, SectionShape, RestoreShape
    <3> QED
      BY <3>1, <3>2
  <2> QED
    BY <1>9, <2>1 DEF ComesBack, SectionShape, TextsShape, FlagsShape, JobsShape
<1>10. CASE DocumentLoads
  BY <1>10 DEF DocumentLoads, SectionShape, TextsShape, FlagsShape, JobsShape,
               RestoreShape
<1> QED
  BY <1>1, <1>2, <1>3, <1>4, <1>5, <1>7, <1>8, <1>9, <1>10

\* Asking for a generation, and the answer.
LEMMA AskingShape ==
  ASSUME SectionShape, AsksFor \/ Retries \/ DismissesError \/ CallAnswered
  PROVE  SectionShape'
<1> USE DEF texts, refs, ghosts
<1>1. CASE AsksFor
  BY <1>1, StartsShape DEF AsksFor, Operations
<1>2. CASE Retries
  BY <1>2, StartsShape DEF Retries, SectionShape, EntryShape, Entries
<1>3. CASE DismissesError
  <2>1. EntryShape(entry') /\ JobsShape' /\ consumed' \in Nat /\ clearedKey' \in BOOLEAN
        /\ taken' \in BOOLEAN
    BY <1>3, DismissShape DEF DismissesError
  <2>2. TextsShape' /\ FlagsShape' /\ RestoreShape'
    BY <1>3, <2>1 DEF DismissesError, SectionShape, TextsShape, FlagsShape, RestoreShape
  <2> QED
    BY <1>3, <2>1, <2>2 DEF DismissesError, SectionShape
<1>4. CASE CallAnswered
  <2>1. asking \in [op : Operations, here : BOOLEAN]
    BY <1>4 DEF CallAnswered, SectionShape
  <2>2. ASSUME NEW n \in TaskIds, Dispatches(n)
        PROVE  EntryShape(entry') /\ JobsShape'
    <3>1. JobsShape'
      BY <1>4, <2>1, <2>2 DEF CallAnswered, Dispatches, SectionShape, TextsShape,
                              JobsShape, Job, Streaming, Operations
    <3>2. EntryShape([entry EXCEPT !.task = n])  \/ entry.phase = "none"
      BY DEF SectionShape, EntryShape, Entries
    <3> QED
      BY <2>2, <3>1, <3>2 DEF Dispatches, SectionShape
  <2>3. ASSUME DispatchRefused
        PROVE  EntryShape(entry') /\ JobsShape'
    <3>1. JobsShape'
      BY <1>4, <2>3 DEF CallAnswered, DispatchRefused, SectionShape, JobsShape
    <3>2. EntryShape([Blank EXCEPT !.phase = "failed", !.op = asking.op,
                                   !.base = entry.base])
      BY <2>1, SectionTexts DEF SectionShape, EntryShape, Entries, Blank, Phases
    <3> QED
      BY <2>3, <3>1, <3>2 DEF DispatchRefused, SectionShape
  <2>4. EntryShape(entry') /\ JobsShape'
    BY <1>4, <2>2, <2>3 DEF CallAnswered
  <2>5. TextsShape' /\ FlagsShape' /\ RestoreShape'
    BY <1>4 DEF CallAnswered, SectionShape, TextsShape, FlagsShape, RestoreShape
  <2> QED
    BY <1>4, <2>4, <2>5 DEF CallAnswered, SectionShape
<1> QED
  BY <1>1, <1>2, <1>3, <1>4

\* The tasks' events, and the answer about a task that has ended.
LEMMA EventShape ==
  ASSUME SectionShape, NEW n \in TaskIds,
         TaskStreams(n) \/ TaskReports(n) \/ Ends(n) \/ StatusFetched(n)
  PROVE  SectionShape'
<1> USE DEF texts, refs, ghosts
<1>1. CASE TaskStreams(n)
  <2>1. EntryShape(entry') /\ jobs' \in [TaskIds -> Job]
    BY <1>1, StreamsShape DEF TaskStreams, Streaming
  <2> QED
    BY <1>1, <2>1 DEF TaskStreams, SectionShape, TextsShape, FlagsShape, JobsShape,
                      RestoreShape
<1>2. CASE TaskReports(n)
  <2>1. EntryShape([entry EXCEPT !.phase = "running", !.patch = FALSE])
    BY DEF SectionShape, EntryShape, Entries, Phases
  <2>2. EntryShape(entry')
    BY <1>2, <2>1, UpdateShape DEF TaskReports, SectionShape
  <2> QED
    BY <1>2, <2>2 DEF TaskReports, SectionShape, TextsShape, FlagsShape, JobsShape,
                      RestoreShape
<1>3. CASE Ends(n)
  <2> PICK how \in {"completed", "failed"} : TaskEnds(n, how)
    BY <1>3 DEF Ends
  <2>1. JobsShape'
    BY DEF TaskEnds, SectionShape, JobsShape, Job
  <2> QED
    BY <2>1 DEF TaskEnds, SectionShape, TextsShape, FlagsShape, RestoreShape
<1>4. CASE StatusFetched(n)
  <2> DEFINE final == By("final", n)
             phase == TerminalPhase(store, entry.base, entry.stream, final)
  <2>1. phase \in {"completed", "conflicted"}
    BY DEF TerminalPhase
  <2>2. final \in Text /\ final.typed = {}
    BY SectionTexts
  <2> HIDE DEF final, phase
  <2>3. EntryShape([entry EXCEPT !.gen = final, !.phase = phase])
    BY <2>1, <2>2 DEF SectionShape, EntryShape, Entries, Phases
  <2>4. EntryShape([entry EXCEPT !.phase = "failed"])
    BY DEF SectionShape, EntryShape, Entries, Phases
  <2>5. EntryShape(entry')
    BY <1>4, <2>3, <2>4, UpdateShape DEF StatusFetched, SectionShape, final, phase
  <2>6. JobsShape'
    BY <1>4 DEF StatusFetched, SectionShape, JobsShape
  <2>7. known' \subseteq Edits
    BY <1>4 DEF StatusFetched, SectionShape, TextsShape, Text
  <2>8. TextsShape' /\ FlagsShape' /\ RestoreShape'
    BY <1>4 DEF StatusFetched, SectionShape, TextsShape, FlagsShape, RestoreShape
  <2> QED
    BY <1>4, <2>5, <2>6, <2>7, <2>8 DEF StatusFetched, SectionShape
<1> QED
  BY <1>1, <1>2, <1>3, <1>4

\* The effects of the view and the user's answer.
LEMMA EffectShape ==
  ASSUME SectionShape,
         SectionEffect \/ \E replace \in BOOLEAN : UserAnswers(replace)
  PROVE  SectionShape'
<1> USE DEF texts, refs, ghosts, hook
<1>1. editor.typed \subseteq Edits /\ store.typed \subseteq Edits
  BY DEF SectionShape, TextsShape, Text
<1>2. CASE ClearsSection
  <2>1. /\ editor' \in Text /\ store' \in Text /\ pending' \in BOOLEAN
        /\ overwritten' \subseteq Edits
    BY <1>1, <1>2, ReplaceShape, SectionTexts DEF ClearsSection
  <2>2. EntryShape(entry')
    BY <1>2, SectionTexts
       DEF ClearsSection, ClearDue, SectionShape, EntryShape, Entries
  <2> QED
    BY <1>2, <2>1, <2>2 DEF ClearsSection, SectionShape, TextsShape, FlagsShape,
                            JobsShape, RestoreShape
<1>3. CASE StreamsIn
  <2> DEFINE new == [entry.stream EXCEPT !.typed = IF entry.patch THEN store.typed ELSE {}]
  <2>1. new \in Text
    BY <1>1, SectionTexts DEF SectionShape, EntryShape, Entries
  <2>2. Replace(new, editor.typed)
    BY <1>3 DEF StreamsIn
  <2> HIDE DEF new
  <2>3. /\ editor' \in Text /\ store' \in Text /\ pending' \in BOOLEAN
        /\ overwritten' \subseteq Edits
    BY <1>1, <2>1, <2>2, ReplaceShape
  <2>4. entry.phase # "none"
    BY <1>3 DEF StreamsIn, StreamDue, SectionShape, EntryShape, Blank
  <2>5. EntryShape(entry')
    BY <1>3, <2>3, <2>4 DEF StreamsIn, SectionShape, EntryShape, Entries
  <2>6. consumed' \in Nat
    BY <1>3 DEF StreamsIn, SectionShape, EntryShape, Entries
  <2> QED
    BY <1>3, <2>3, <2>5, <2>6 DEF StreamsIn, SectionShape, TextsShape, FlagsShape,
                                  JobsShape, RestoreShape
<1>4. ASSUME Dismiss, UNCHANGED <<fetching, disk, locked, view, loaded, asking, restore,
                                  before, known, calm, moves>>,
             editor' \in Text, store' \in Text, pending' \in BOOLEAN,
             overwritten' \subseteq Edits, modal' \in Text, modal'.typed = {}
      PROVE  SectionShape'
  <2>1. EntryShape(entry') /\ JobsShape' /\ consumed' \in Nat /\ clearedKey' \in BOOLEAN
        /\ taken' \in BOOLEAN
    BY <1>4, DismissShape
  <2>2. TextsShape' /\ FlagsShape' /\ RestoreShape'
    BY <1>4, <2>1 DEF SectionShape, TextsShape, FlagsShape, RestoreShape
  <2> QED
    BY <1>4, <2>1, <2>2 DEF SectionShape
<1>5. CASE FinishesSection
  <2>1. entry.gen \in Text
    BY DEF SectionShape, EntryShape, Entries
  <2>2. /\ editor' \in Text /\ store' \in Text /\ pending' \in BOOLEAN
        /\ overwritten' \subseteq Edits
    BY <1>1, <1>5, <2>1, ReplaceShape DEF FinishesSection
  <2> QED
    BY <1>4, <1>5, <2>2 DEF FinishesSection, SectionShape, TextsShape
<1>6. CASE AsksTheUser
  <2>1. modal' \in Text /\ modal'.typed = {} /\ taken' \in BOOLEAN
    BY <1>6 DEF AsksTheUser, SectionShape, EntryShape, Entries
  <2> QED
    BY <1>6, <2>1 DEF AsksTheUser, SectionShape, TextsShape, FlagsShape, JobsShape,
                      RestoreShape
<1>7. ASSUME NEW replace \in BOOLEAN, UserAnswers(replace)
      PROVE  SectionShape'
  <2>1. /\ editor' \in Text /\ store' \in Text /\ pending' \in BOOLEAN
        /\ overwritten' \subseteq Edits
    <3>1. CASE replace
      BY <1>7, <3>1, ReplaceShape DEF UserAnswers, SectionShape, TextsShape
    <3>2. CASE ~replace
      BY <1>7, <3>2 DEF UserAnswers, SectionShape, TextsShape, FlagsShape
    <3> QED
      BY <3>1, <3>2
  <2> QED
    BY <1>4, <1>7, <2>1, SectionTexts DEF UserAnswers
<1> QED
  BY <1>2, <1>3, <1>5, <1>6, <1>7 DEF SectionEffect

\* The restoration.
LEMMA RestorationShape ==
  ASSUME SectionShape, TasksListed \/ TaskRestored \/ RestoreEnds
  PROVE  SectionShape'
<1> USE DEF texts, refs, ghosts
<1>1. CASE TasksListed
  <2>1. RestoreShape'
    BY <1>1, SectionTexts, BlankShape
       DEF TasksListed, Stored, SectionShape, TextsShape, RestoreShape, EntryShape
  <2> QED
    BY <1>1, <2>1 DEF TasksListed, SectionShape, TextsShape, FlagsShape, JobsShape
<1>2. CASE TaskRestored
  <2> PICK n \in restore.left :
        /\ restore.at = "rows" /\ \A m \in restore.left : m <= n
        /\ LET r == jobs[n]
               known_ == [Blank EXCEPT !.op = r.op, !.task = n, !.base = r.base]
               found == CASE r.at = "gone" -> restore.found
                          [] r.at = "failed" -> [known_ EXCEPT !.phase = "failed"]
                          [] r.at = "completed" ->
                               [known_ EXCEPT !.gen = By("final", n), !.phase =
                                  TerminalPhase(restore.text, r.base, Nothing,
                                                By("final", n))]
                          [] OTHER -> [known_ EXCEPT !.phase = "running"]
           IN /\ restore' = [restore EXCEPT !.left = @ \ {n}, !.found = found]
              /\ routed' = IF r.at \in Streaming THEN routed \cup {n} ELSE routed
    BY <1>2 DEF TaskRestored
  <2> DEFINE r == jobs[n]
             known_ == [Blank EXCEPT !.op = r.op, !.task = n, !.base = r.base]
             phase == TerminalPhase(restore.text, r.base, Nothing, By("final", n))
             found == CASE r.at = "gone" -> restore.found
                        [] r.at = "failed" -> [known_ EXCEPT !.phase = "failed"]
                        [] r.at = "completed" ->
                             [known_ EXCEPT !.gen = By("final", n), !.phase = phase]
                        [] OTHER -> [known_ EXCEPT !.phase = "running"]
  <2>1. n \in TaskIds
    BY DEF SectionShape, RestoreShape
  <2>2. r.op \in Operations /\ r.base \in Text
    BY <2>1 DEF SectionShape, JobsShape, Job, Operations
  <2>3. phase \in {"completed", "conflicted"}
    BY DEF TerminalPhase
  <2>4. By("final", n) \in Text /\ By("final", n).typed = {}
    BY <2>1, SectionTexts
  <2>5. /\ restore' = [restore EXCEPT !.left = @ \ {n}, !.found = found]
        /\ routed' = IF r.at \in Streaming THEN routed \cup {n} ELSE routed
    OBVIOUS
  <2> HIDE DEF r, phase
  <2>6. EntryShape(found)
    <3>1. known_ \in Entries /\ known_.stream = Nothing /\ known_.gen = Nothing
      BY <2>1, <2>2, SectionTexts DEF Blank, Entries, Phases
    <3> HIDE DEF known_
    <3>2. EntryShape([known_ EXCEPT !.phase = "failed"])
          /\ EntryShape([known_ EXCEPT !.phase = "running"])
      BY <3>1, SectionTexts DEF EntryShape, Entries, Phases
    <3>3. EntryShape([known_ EXCEPT !.gen = By("final", n), !.phase = phase])
      BY <2>3, <2>4, <3>1, SectionTexts DEF EntryShape, Entries, Phases
    <3>4. EntryShape(restore.found)
      BY DEF SectionShape, RestoreShape
    <3> QED
      BY <3>2, <3>3, <3>4
  <2> HIDE DEF found
  <2>7. RestoreShape'
    <3>1. restore.left \ {n} \in SUBSET TaskIds /\ found \in Entries
      BY <2>6 DEF SectionShape, RestoreShape, EntryShape
    <3>2. /\ restore' \in [at : {"idle", "asked", "rows"}, left : SUBSET TaskIds, text : Text,
                           found : Entries]
          /\ restore'.found = found
      BY <2>5, <3>1 DEF SectionShape, RestoreShape
    <3> QED BY <2>6, <3>2 DEF RestoreShape
  <2>8. JobsShape'
    BY <1>2, <2>1, <2>5 DEF TaskRestored, SectionShape, JobsShape
  <2> QED
    BY <1>2, <2>7, <2>8 DEF TaskRestored, SectionShape, TextsShape, FlagsShape
<1>3. CASE RestoreEnds
  <2>1. RestoreShape'
    BY <1>3, SectionTexts, BlankShape DEF RestoreEnds, RestoreShape, NoRestore, EntryShape
  <2>2. EntryShape(entry')
    BY <1>3 DEF RestoreEnds, SectionShape, RestoreShape
  <2> QED
    BY <1>3, <2>1, <2>2 DEF RestoreEnds, SectionShape, TextsShape, FlagsShape, JobsShape
<1> QED
  BY <1>1, <1>2, <1>3

LEMMA SectionShapeStep == SectionShape /\ [SectionNext]_sectionVars => SectionShape'
BY ShapeSame, UserShape, AskingShape, EventShape, EffectShape, RestorationShape
   DEF SectionNext

\* The entry, the tasks, the call and the restoration keep their types, and
\* what an AI streams or writes never has anything typed in it.
THEOREM SectionTypeCorrect == SectionSpec => []SectionTypeOK
<1>1. SectionSpec => []SectionShape
  BY SectionShapeInit, SectionShapeStep, PTL DEF SectionSpec
<1> QED
  BY <1>1, ShapeIsType, PTL

-----------------------------------------------------------------------------
(* What a user who stays can count on *)

\* An editor that can be typed into shows all that the store has.
EditorLeads == Active /\ ~locked => store.typed \subseteq editor.typed

\* The status that is fetched is of a task that is listened to, or was deleted.
FetchedAreRouted == fetching \subseteq routed \cup {n \in TaskIds : jobs[n].at = "gone"}

\* The baseline has nothing that was typed since the generation was asked for.
BaseIsOld == entry.base.typed \subseteq before

\* Nothing has been streamed.
Unstreamed == entry.stream = Nothing /\ ~entry.patch /\ BaseIsOld

\* The whole text has been streamed; once it is in the section the baseline
\* is without anything typed.
Composed == entry.stream # Nothing /\ ~entry.patch /\ (entry.rev = consumed => BaseIsOld)

\* What the entry shows of its task, by how far the task is.
Follows(at) ==
  /\ entry.phase \in {"queued", "running"}
  /\ at = "running" => Unstreamed
  /\ at = "draft" => entry.stream # Nothing /\ ~entry.patch /\ BaseIsOld
  /\ at = "drawn" => entry.stream # Nothing
  /\ at = "composed" => Composed
  /\ at = "completed" => Unstreamed \/ Composed

\* The entry on its way; once judged, nothing more comes for it.
Course ==
  /\ consumed <= entry.rev
  /\ entry.phase \in {"completed", "conflicted"} =>
       routed = {} /\ (entry.rev = consumed \/ entry.stream = Nothing)
  /\ asking # NoCall => entry.phase = "queued" /\ Unstreamed
  /\ \A t \in routed : Follows(jobs[t].at)

\* One task at most is listened to, and none before the call is answered, when
\* nothing has been put in or judged either.  What was typed since and was
\* overwritten is gone from the editor, and is nothing that was there when the
\* end of the task was judged.
Watched ==
  /\ Active /\ ~locked /\ restore = NoRestore
  /\ \A m, n \in routed : m = n
  /\ asking # NoCall => routed = {} /\ known = {} /\ consumed = 0
  /\ overwritten \cap editor.typed \subseteq before
  /\ known \cap overwritten = {}
  /\ known # {} => entry.phase \in {"none", "conflicted"}
  /\ entry.phase # "none" => Course

SectionInv ==
  /\ SectionShape /\ EditorLeads /\ FetchedAreRouted
  /\ calm => Watched

LEMMA SectionInvInit == SectionInit => SectionInv
BY SectionShapeInit DEF SectionInit, SectionInv, EditorLeads, FetchedAreRouted

LEMMA SectionInvSame == SectionInv /\ UNCHANGED sectionVars => SectionInv'
BY ShapeSame DEF sectionVars, SectionInv, EditorLeads, FetchedAreRouted, Active,
   Watched, Course, Follows, Unstreamed, Composed, BaseIsOld

\* The user's own actions and what the document does.
LEMMA UserKeepsInv ==
  ASSUME SectionInv,
         \/ \E e \in Edits : EntersText(e)
         \/ EditorSerializes \/ StoreSaves \/ StructureLocks \/ SnapshotApplied
         \/ LeavesStage \/ LeavesProject \/ ComesBack \/ DocumentLoads
  PROVE  EditorLeads' /\ FetchedAreRouted' /\ (calm' => Watched')
<1> USE DEF texts, refs, ghosts, hook
<1>1. ASSUME NEW e \in Edits, EntersText(e)
      PROVE  EditorLeads' /\ FetchedAreRouted' /\ (calm' => Watched')
  <2>1. editor'.typed = editor.typed \cup {e} /\ e \notin overwritten
    BY <1>1 DEF EntersText, Typed, SectionInv, SectionShape, TextsShape, Text
  <2>2. EditorLeads' /\ FetchedAreRouted'
    BY <1>1, <2>1 DEF EntersText, SectionInv, EditorLeads, FetchedAreRouted, Active
  <2>3. ASSUME calm PROVE Watched'
    <3>1. Watched
      BY <2>3 DEF SectionInv
    <3>2. (overwritten \cap editor.typed \subseteq before)'
      BY <1>1, <2>1, <3>1 DEF EntersText, Watched
    <3>3. (entry.phase # "none" => Course)'
      BY <1>1, <3>1 DEF EntersText, Watched, Course, Follows, Unstreamed, Composed,
                        BaseIsOld
    <3> QED
      BY <1>1, <3>1, <3>2, <3>3 DEF EntersText, Watched, Active
  <2> QED
    BY <1>1, <2>2, <2>3 DEF EntersText
<1>2. ASSUME UNCHANGED <<editor, locked, view, loaded, hook, asking, jobs, refs, ghosts>>
      PROVE  FetchedAreRouted' /\ (calm' => Watched')
  BY <1>2 DEF SectionInv, FetchedAreRouted, Watched, Active, Course, Follows, Unstreamed,
              Composed, BaseIsOld
<1>3. CASE EditorSerializes
  BY <1>2, <1>3 DEF EditorSerializes, EditorLeads, SectionInv, Active
<1>4. CASE StoreSaves
  BY <1>2, <1>4 DEF StoreSaves, EditorLeads, SectionInv, Active
<1>5. CASE StructureLocks
  BY <1>5 DEF StructureLocks, EditorLeads, SectionInv, FetchedAreRouted
<1>6. CASE SnapshotApplied
  BY <1>6 DEF SnapshotApplied, EditorLeads, SectionInv, FetchedAreRouted, Watched
<1>7. CASE LeavesStage
  BY <1>7 DEF LeavesStage, EditorGoes, EditorLeads, SectionInv, FetchedAreRouted, Active
<1>8. CASE LeavesProject
  BY <1>8 DEF LeavesProject, EditorGoes, EditorLeads, SectionInv, FetchedAreRouted, Active
<1>9. CASE ComesBack
  BY <1>9 DEF ComesBack, EditorLeads, SectionInv, FetchedAreRouted, Active, Watched
<1>10. CASE DocumentLoads
  BY <1>10 DEF DocumentLoads, EditorLeads, SectionInv, FetchedAreRouted, Active, Watched
<1> QED
  BY <1>1, <1>3, <1>4, <1>5, <1>6, <1>7, <1>8, <1>9, <1>10

\* A dismissed entry.
LEMMA DismissKeepsInv ==
  ASSUME SectionInv, Dismiss, UNCHANGED <<locked, view, loaded, asking, fetching, restore,
                                          before, known, calm>>,
         calm => /\ (overwritten \cap editor.typed \subseteq before)'
                 /\ (known \cap overwritten = {})'
  PROVE  FetchedAreRouted' /\ (calm' => Watched')
<1>1. \A n \in TaskIds : jobs[n].at = "gone" => jobs'[n].at = "gone"
  BY DEF Dismiss, SectionInv, SectionShape, JobsShape, Job
<1>2. entry.task \in TaskIds => jobs'[entry.task].at = "gone"
  BY DEF Dismiss, SectionInv, SectionShape, JobsShape, Job
<1>3. FetchedAreRouted'
  BY <1>1, <1>2 DEF Dismiss, SectionInv, SectionShape, JobsShape, FetchedAreRouted
<1>4. ASSUME calm PROVE Watched'
  BY <1>4 DEF SectionInv, Watched, Active, Dismiss, Blank
<1> QED
  BY <1>3, <1>4

LEMMA StartsKeepsInv ==
  ASSUME SectionInv, NEW op \in Operations, Starts(op), Active
  PROVE  EditorLeads' /\ FetchedAreRouted' /\ (calm' => Watched')
<1>1. EditorLeads' /\ FetchedAreRouted'
  BY DEF Starts, texts, SectionInv, EditorLeads, FetchedAreRouted, Active
<1>2. ASSUME calm' PROVE Watched'
  <2>1. /\ Active' /\ ~locked' /\ restore' = NoRestore /\ routed' = {}
        /\ known' = {} /\ consumed' = 0
    BY <1>2 DEF Starts, Active
  <2>2. /\ entry'.phase = "queued" /\ entry'.stream = Nothing /\ entry'.patch = FALSE
        /\ entry'.rev = 0 /\ consumed' = 0 /\ entry'.base = store
    BY DEF Starts, Blank
  <2>3. store.typed \subseteq before'
    BY <1>2 DEF Starts, SectionInv, EditorLeads
  <2>4. Course'
    BY <2>1, <2>2, <2>3 DEF Course, Unstreamed, BaseIsOld
  <2>5. (overwritten \cap editor.typed \subseteq before)'
    BY DEF Starts, texts
  <2> QED
    BY <2>1, <2>4, <2>5 DEF Watched
<1> QED
  BY <1>1, <1>2

\* Asking for a generation, and the answer.
LEMMA AskingKeepsInv ==
  ASSUME SectionInv, AsksFor \/ Retries \/ DismissesError \/ CallAnswered
  PROVE  EditorLeads' /\ FetchedAreRouted' /\ (calm' => Watched')
<1> USE DEF texts, refs, ghosts
<1>1. CASE AsksFor
  BY <1>1, StartsKeepsInv DEF AsksFor, Operations
<1>2. CASE Retries
  BY <1>2, StartsKeepsInv DEF Retries, SectionInv, SectionShape, EntryShape, Entries
<1>3. CASE DismissesError
  <2>1. EditorLeads'
    BY <1>3 DEF DismissesError, SectionInv, EditorLeads, Active
  <2>2. calm => /\ (overwritten \cap editor.typed \subseteq before)'
                /\ (known \cap overwritten = {})'
    BY <1>3 DEF DismissesError, SectionInv, Watched
  <2> QED
    BY <1>3, <2>1, <2>2, DismissKeepsInv DEF DismissesError
<1>4. CASE CallAnswered
  <2>1. EditorLeads'
    BY <1>4 DEF CallAnswered, SectionInv, EditorLeads, Active
  <2>2. ASSUME NEW n \in TaskIds, Dispatches(n)
        PROVE  FetchedAreRouted' /\ (calm' => Watched')
    <3>1. \A m \in TaskIds : m # n => jobs'[m] = jobs[m]
      BY <2>2 DEF Dispatches, SectionInv, SectionShape, JobsShape
    <3>2. jobs'[n].at = "running" /\ jobs[n].at = "none"
      BY <2>2 DEF Dispatches, SectionInv, SectionShape, JobsShape
    <3>3. routed \subseteq routed' /\ routed' \subseteq routed \cup {n}
      BY <2>2 DEF Dispatches
    <3>4. FetchedAreRouted'
      BY <1>4, <3>1, <3>2, <3>3 DEF CallAnswered, SectionInv, FetchedAreRouted
    <3>5. ASSUME calm PROVE Watched'
      <4>1. Watched /\ routed = {} /\ known = {} /\ consumed = 0
        BY <1>4, <3>5 DEF CallAnswered, SectionInv, Watched
      <4>2. /\ entry'.phase = entry.phase /\ entry'.base = entry.base
            /\ entry'.stream = entry.stream /\ entry'.patch = entry.patch
            /\ entry'.rev = entry.rev
        BY <2>2 DEF Dispatches, SectionInv, SectionShape, EntryShape, Entries
      <4>3. ASSUME entry'.phase # "none" PROVE Course'
        <5>1. Course /\ entry.phase = "queued" /\ Unstreamed
          BY <1>4, <4>1, <4>2, <4>3 DEF CallAnswered, Watched, Course
        <5>2. Unstreamed' /\ asking' = NoCall
          BY <1>4, <4>2, <5>1 DEF CallAnswered, Unstreamed, BaseIsOld
        <5>3. \A t \in routed' : Follows(jobs[t].at)'
          BY <3>2, <3>3, <4>1, <4>2, <5>1, <5>2 DEF Follows
        <5>4. (consumed <= entry.rev)'
          BY <1>4, <4>2, <5>1 DEF CallAnswered, Course
        <5> QED
          BY <4>2, <5>1, <5>2, <5>3, <5>4 DEF Course
      <4> QED
        BY <1>4, <3>3, <4>1, <4>2, <4>3 DEF CallAnswered, Watched, Active
    <3> QED
      BY <1>4, <3>4, <3>5 DEF CallAnswered
  <2>3. ASSUME DispatchRefused
        PROVE  FetchedAreRouted' /\ (calm' => Watched')
    <3>1. FetchedAreRouted'
      BY <1>4, <2>3 DEF CallAnswered, DispatchRefused, SectionInv, FetchedAreRouted
    <3>2. ASSUME calm PROVE Watched'
      <4>1. Watched /\ routed = {} /\ known = {} /\ consumed = 0
        BY <1>4, <3>2 DEF CallAnswered, SectionInv, Watched
      <4>2. ASSUME entry'.phase # "none" PROVE Course'
        <5>1. CASE asking.here
          <6>1. entry'.phase = "failed" /\ entry'.rev = 0
            BY <2>3, <5>1 DEF DispatchRefused, Blank
          <6> QED
            BY <1>4, <2>3, <4>1, <6>1 DEF CallAnswered, DispatchRefused, Course
        <5>2. CASE ~asking.here
          BY <1>4, <2>3, <4>1, <4>2, <5>2
             DEF CallAnswered, DispatchRefused, Watched, Course
        <5> QED
          BY <5>1, <5>2
      <4> QED
        BY <1>4, <2>3, <4>1, <4>2 DEF CallAnswered, DispatchRefused, Watched, Active
    <3> QED
      BY <1>4, <3>1, <3>2 DEF CallAnswered
  <2> QED
    BY <1>4, <2>1, <2>2, <2>3 DEF CallAnswered
<1> QED
  BY <1>1, <1>2, <1>3, <1>4

\* What an event of a task that is under way changes.
LEMMA EventKeepsInv ==
  ASSUME SectionInv, NEW n \in TaskIds, jobs[n].at \in Streaming,
         \A m \in TaskIds : m # n => jobs'[m] = jobs[m],
         UNCHANGED <<texts, locked, view, loaded, routed, asking, restore, refs, ghosts>>,
         fetching' = fetching \/ (fetching' = fetching \cup {n} /\ n \in routed),
         (n \in routed /\ entry.phase # "none") \/ entry' = entry,
         calm /\ n \in routed /\ entry.phase # "none" /\ Watched =>
           entry'.phase \in {"queued", "running"} /\ (consumed <= entry.rev)'
           /\ Follows(jobs[n].at)'
  PROVE  EditorLeads' /\ FetchedAreRouted' /\ (calm' => Watched')
<1> USE DEF texts, refs, ghosts
<1>1. EditorLeads'
  BY DEF SectionInv, EditorLeads, Active
<1>2. FetchedAreRouted'
  BY DEF SectionInv, FetchedAreRouted, Streaming
<1>3. ASSUME calm PROVE Watched'
  <2>1. Watched
    BY <1>3 DEF SectionInv
  <2>2. CASE n \in routed /\ entry.phase # "none"
    <3>1. Course /\ routed = {n} /\ asking = NoCall
      BY <2>1, <2>2 DEF Watched
    <3>2. /\ entry'.phase \in {"queued", "running"} /\ (consumed <= entry.rev)'
          /\ Follows(jobs[n].at)'
      BY <1>3, <2>1, <2>2
    <3>3. \A t \in routed' : Follows(jobs[t].at)'
      <4> SUFFICES ASSUME NEW t \in routed' PROVE Follows(jobs[t].at)'
        OBVIOUS
      <4>1. t = n
        BY <3>1
      <4> QED
        BY <3>2, <4>1
    <3>4. Course'
      BY <3>1, <3>2, <3>3 DEF Course
    <3>5. known = {}
      BY <2>1, <2>2, <3>1 DEF Watched, Course, Follows
    <3> QED
      BY <2>1, <3>1, <3>4, <3>5 DEF Watched, Active
  <2>3. CASE ~(n \in routed /\ entry.phase # "none")
    <3>1. entry' = entry
      BY <2>3
    <3>2. ASSUME entry.phase # "none" PROVE Course'
      <4>1. Course /\ n \notin routed
        BY <2>1, <2>3, <3>2 DEF Watched
      <4>2. \A t \in routed' : Follows(jobs[t].at)'
        <5> SUFFICES ASSUME NEW t \in routed' PROVE Follows(jobs[t].at)'
          OBVIOUS
        <5>1. t \in TaskIds /\ t # n /\ t \in routed
          BY <4>1 DEF SectionInv, SectionShape, JobsShape
        <5>2. jobs'[t] = jobs[t] /\ Follows(jobs[t].at)
          BY <4>1, <5>1 DEF Course
        <5> QED
          BY <3>1, <5>2 DEF Follows, Unstreamed, Composed, BaseIsOld
      <4> QED
        BY <3>1, <4>1, <4>2 DEF Course, Unstreamed, BaseIsOld
    <3> QED
      BY <2>1, <3>1, <3>2 DEF Watched, Active
  <2> QED
    BY <2>2, <2>3
<1> QED
  BY <1>1, <1>2, <1>3

\* A text that is streamed has yet to be put in; a patch has nothing to hold to
\* before the composed text follows.
LEMMA StreamsKeepInv ==
  ASSUME SectionInv, NEW n \in TaskIds, TaskStreams(n)
  PROVE  EditorLeads' /\ FetchedAreRouted' /\ (calm' => Watched')
<1>1. PICK from \in {"running", "draft", "drawn"}, to \in {"draft", "drawn", "composed"},
           what \in {"draft", "drawn"} :
        /\ Streams(n, from, to, what)
        /\ to = "draft" => from = "running"
  BY DEF TaskStreams
<1> DEFINE new == [entry EXCEPT !.phase = "running", !.stream = By(what, n),
                                !.patch = (to = "drawn"), !.rev = entry.rev + 1]
<1>2. /\ jobs[n].at = from /\ jobs' = [jobs EXCEPT ![n].at = to]
      /\ Update(n, new)
  BY <1>1 DEF Streams
<1>3. /\ \A m \in TaskIds : m # n => jobs'[m] = jobs[m]
      /\ jobs'[n].at = to
  BY <1>2 DEF SectionInv, SectionShape, JobsShape, Job
<1>4. /\ new.phase = "running" /\ new.stream = By(what, n) /\ (new.patch <=> to = "drawn")
      /\ new.rev = entry.rev + 1 /\ new.base = entry.base
  BY DEF SectionInv, SectionShape, EntryShape, Entries
<1> HIDE DEF new
<1>5. (n \in routed /\ entry.phase # "none") \/ entry' = entry
  BY <1>2 DEF Update
<1>6. ASSUME calm, n \in routed, entry.phase # "none", Watched
      PROVE  /\ entry'.phase \in {"queued", "running"} /\ (consumed <= entry.rev)'
             /\ Follows(jobs[n].at)'
  <2>1. entry' = new /\ consumed' = consumed
    BY <1>2, <1>6 DEF Update, TaskStreams, refs
  <2>2. Course /\ Follows(from)
    BY <1>2, <1>6 DEF Watched, Course
  <2>3. entry.rev \in Nat /\ consumed \in Nat
    BY DEF SectionInv, SectionShape, FlagsShape, EntryShape, Entries
  <2>4. new.rev # consumed /\ consumed <= new.rev
    BY <1>4, <2>2, <2>3 DEF Course
  <2>5. new.stream # Nothing
    BY <1>4, SectionTexts
  <2>6. to = "draft" => BaseIsOld
    BY <1>1, <2>2 DEF Follows, Unstreamed
  <2>7. BaseIsOld => BaseIsOld'
    BY <1>4, <2>1 DEF BaseIsOld, TaskStreams, ghosts
  <2>8. entry'.phase \in {"queued", "running"} /\ (consumed <= entry.rev)'
    BY <1>4, <2>1, <2>4
  <2>9. CASE to = "draft"
    BY <1>3, <1>4, <2>1, <2>5, <2>6, <2>7, <2>8, <2>9 DEF Follows
  <2>10. CASE to = "drawn"
    BY <1>3, <1>4, <2>1, <2>5, <2>8, <2>10 DEF Follows
  <2>11. CASE to = "composed"
    BY <1>3, <1>4, <2>1, <2>4, <2>5, <2>8, <2>11 DEF Follows, Composed
  <2> QED
    BY <2>8, <2>9, <2>10, <2>11
<1>7. jobs[n].at \in Streaming
  BY <1>2 DEF Streaming
<1> QED
  BY <1>3, <1>5, <1>6, <1>7, EventKeepsInv DEF TaskStreams

LEMMA ReportsKeepInv ==
  ASSUME SectionInv, NEW n \in TaskIds, TaskReports(n)
  PROVE  EditorLeads' /\ FetchedAreRouted' /\ (calm' => Watched')
<1> DEFINE new == [entry EXCEPT !.phase = "running", !.patch = FALSE]
<1>1. /\ jobs[n].at \in Streaming /\ n \in routed /\ entry.phase # "none"
      /\ entry' = new /\ jobs' = jobs
  BY DEF TaskReports, Update
<1>2. /\ new.phase = "running" /\ new.stream = entry.stream /\ new.patch = FALSE
      /\ new.rev = entry.rev /\ new.base = entry.base
  BY DEF SectionInv, SectionShape, EntryShape, Entries
<1> HIDE DEF new
<1>3. ASSUME calm, Watched
      PROVE  /\ entry'.phase \in {"queued", "running"} /\ (consumed <= entry.rev)'
             /\ Follows(jobs[n].at)'
  <2>1. Course /\ Follows(jobs[n].at) /\ consumed' = consumed /\ before' = before
    BY <1>1, <1>3 DEF Watched, Course, TaskReports, refs, ghosts
  <2>2. entry'.phase \in {"queued", "running"} /\ (consumed <= entry.rev)'
    BY <1>1, <1>2, <2>1 DEF Course
  <2>3. /\ (Unstreamed => Unstreamed') /\ (Composed => Composed')
        /\ (BaseIsOld => BaseIsOld')
    BY <1>1, <1>2, <2>1 DEF Unstreamed, Composed, BaseIsOld
  <2> QED
    BY <1>1, <1>2, <2>1, <2>2, <2>3 DEF Follows
<1> QED
  BY <1>1, <1>3, EventKeepsInv DEF TaskReports

LEMMA EndsKeepInv ==
  ASSUME SectionInv, NEW n \in TaskIds, Ends(n)
  PROVE  EditorLeads' /\ FetchedAreRouted' /\ (calm' => Watched')
<1>1. PICK how \in {"completed", "failed"} : TaskEnds(n, how)
  BY DEF Ends
<1>2. /\ \A m \in TaskIds : m # n => jobs'[m] = jobs[m]
      /\ jobs'[n].at = how
  BY <1>1 DEF TaskEnds, SectionInv, SectionShape, JobsShape, Job
<1>3. ASSUME calm, n \in routed, entry.phase # "none", Watched
      PROVE  /\ entry'.phase \in {"queued", "running"} /\ (consumed <= entry.rev)'
             /\ Follows(jobs[n].at)'
  <2>1. Course /\ Follows(jobs[n].at)
    BY <1>3 DEF Watched, Course
  <2>2. entry' = entry /\ consumed' = consumed /\ before' = before
    BY <1>1 DEF TaskEnds, refs, ghosts
  <2>3. entry'.phase \in {"queued", "running"} /\ (consumed <= entry.rev)'
    BY <2>1, <2>2 DEF Follows, Course
  <2>4. (Unstreamed => Unstreamed') /\ (Composed => Composed')
    BY <2>2 DEF Unstreamed, Composed, BaseIsOld
  <2>5. how = "completed" => Unstreamed \/ Composed
    BY <1>1, <2>1 DEF TaskEnds, Follows
  <2> QED
    BY <1>2, <2>3, <2>4, <2>5 DEF Follows
<1> QED
  BY <1>1, <1>2, <1>3, EventKeepsInv DEF TaskEnds

\* The end of the task is judged.  When the text is judged to be as it was, it
\* has nothing that was typed since: it is the baseline, a streamed text or the
\* generated one.
LEMMA StatusKeepsInv ==
  ASSUME SectionInv, NEW n \in TaskIds, StatusFetched(n)
  PROVE  EditorLeads' /\ FetchedAreRouted' /\ (calm' => Watched')
<1> USE DEF texts, refs
<1> DEFINE final == By("final", n)
           phase == TerminalPhase(store, entry.base, entry.stream, final)
           judged == [entry EXCEPT !.gen = final, !.phase = phase]
           broken == [entry EXCEPT !.phase = "failed"]
<1>1. EditorLeads'
  BY DEF StatusFetched, SectionInv, EditorLeads, Active
<1>2. FetchedAreRouted'
  BY DEF StatusFetched, SectionInv, FetchedAreRouted
<1>3. CASE jobs[n].at = "gone"
  <2>1. UNCHANGED <<entry, routed, known>>
    BY <1>3 DEF StatusFetched
  <2>2. ASSUME calm PROVE Watched'
    BY <2>1, <2>2 DEF StatusFetched, SectionInv, Watched, Active, Course, Follows,
                      Unstreamed, Composed, BaseIsOld
  <2> QED
    BY <1>1, <1>2, <2>2 DEF StatusFetched
<1>4. CASE jobs[n].at # "gone"
  <2>1. n \in routed
    BY <1>4 DEF StatusFetched, SectionInv, FetchedAreRouted
  <2> SUFFICES ASSUME calm PROVE Watched'
    BY <1>1, <1>2 DEF StatusFetched
  <2>2. Watched /\ routed = {n} /\ asking = NoCall
    BY <2>1 DEF SectionInv, Watched
  <2>3. routed' = {}
    BY <1>4, <2>2 DEF StatusFetched
  <2>4. /\ UNCHANGED <<editor, store, overwritten, before, consumed, asking>>
        /\ Active' /\ ~locked' /\ restore' = NoRestore
    BY <2>2 DEF StatusFetched, Watched, Active
  <2>5. store.typed \subseteq editor.typed
    BY <2>2 DEF SectionInv, EditorLeads, Watched
  <2>6. known' = known \/ known' = store.typed \ before
    BY DEF StatusFetched
  <2>7. known' \cap overwritten' = {}
    BY <2>2, <2>4, <2>5, <2>6 DEF Watched
  <2>8. ASSUME entry'.phase # "none"
        PROVE  /\ known' # {} => entry'.phase = "conflicted"
               /\ Course'
    <3>1. entry.phase # "none"
      BY <2>8 DEF StatusFetched, Update
    <3>2. Course /\ Follows(jobs[n].at)
      BY <2>2, <3>1 DEF Watched, Course
    <3>3. CASE jobs[n].at = "failed"
      <4>1. entry' = broken /\ known' = known
        BY <2>1, <3>1, <3>3 DEF StatusFetched, Update
      <4>2. entry'.phase = "failed" /\ entry'.rev = entry.rev
        BY <4>1 DEF SectionInv, SectionShape, EntryShape, Entries
      <4>3. known = {}
        BY <2>2, <3>2 DEF Watched, Follows
      <4> QED
        BY <2>2, <2>3, <2>4, <3>2, <4>1, <4>2, <4>3 DEF Course
    <3>4. CASE jobs[n].at = "completed"
      <4>1. entry' = judged /\ known' = store.typed \ before
        BY <2>1, <3>1, <3>4 DEF StatusFetched, Update
      <4>2. phase \in {"completed", "conflicted"}
        BY DEF TerminalPhase
      <4>3. /\ entry'.phase = phase /\ entry'.rev = entry.rev
            /\ entry'.stream = entry.stream
        <5> HIDE DEF phase, final
        <5> QED
          BY <4>1 DEF SectionInv, SectionShape, EntryShape, Entries
      <4>4. entry.rev = consumed \/ entry.stream = Nothing
        <5>1. ~entry.patch
          BY <3>2, <3>4 DEF Follows, Unstreamed, Composed
        <5> QED
          BY <2>2, <5>1 DEF StatusFetched, EffectDue, StreamDue, Patches, Watched
      <4>5. BaseIsOld
        BY <3>2, <3>4, <4>4 DEF Follows, Unstreamed, Composed
      <4>6. phase = "completed" => known' = {}
        <5> SUFFICES ASSUME phase = "completed" PROVE store.typed \subseteq before
          BY <4>1
        <5>1. store \in {entry.base, entry.stream, final}
          BY DEF TerminalPhase
        <5>2. entry.stream.typed = {} /\ final.typed = {}
          BY SectionTexts DEF SectionInv, SectionShape, EntryShape
        <5> HIDE DEF final, phase
        <5> QED
          BY <4>5, <5>1, <5>2 DEF BaseIsOld
      <4> HIDE DEF phase
      <4>7. Course'
        BY <2>2, <2>3, <2>4, <3>2, <4>2, <4>3, <4>4 DEF Course
      <4> QED
        BY <4>2, <4>3, <4>6, <4>7
    <3> QED
      BY <1>4, <3>3, <3>4 DEF StatusFetched
  <2> QED
    BY <2>2, <2>3, <2>4, <2>7, <2>8 DEF Watched
<1> QED
  BY <1>3, <1>4

\* What a replacement leaves of what was typed.
LEMMA ReplaceKeeps ==
  ASSUME SectionInv, Watched, NEW new \in Text, Replace(new, editor.typed),
         new.typed \subseteq editor.typed, UNCHANGED <<before, known>>, known = {}
  PROVE  /\ (overwritten \cap editor.typed \subseteq before)'
         /\ (known \cap overwritten = {})'
         /\ store' = new /\ editor' = new
BY DEF Replace, Watched

\* The effects of the view, and the user's answer.
LEMMA EffectKeepsInv ==
  ASSUME SectionInv,
         SectionEffect \/ \E replace \in BOOLEAN : UserAnswers(replace)
  PROVE  EditorLeads' /\ FetchedAreRouted' /\ (calm' => Watched')
<1> USE DEF texts, refs, ghosts, hook
<1>1. ASSUME NEW new, NEW unasked, Replace(new, unasked), UNCHANGED <<locked, view, loaded>>
      PROVE  EditorLeads'
  BY <1>1 DEF Replace, EditorLeads, Active
<1>2. CASE ClearsSection
  <2>1. EditorLeads' /\ FetchedAreRouted'
    BY <1>1, <1>2 DEF ClearsSection, SectionInv, FetchedAreRouted
  <2>2. ASSUME calm PROVE Watched'
    <3>1. Watched /\ entry.phase # "none" /\ Course /\ known = {}
      BY <1>2, <2>2 DEF ClearsSection, ClearDue, Ended, SectionInv, Watched
    <3>2. /\ (overwritten \cap editor.typed \subseteq before)'
          /\ (known \cap overwritten = {})'
      BY <1>2, <3>1, ReplaceKeeps, SectionTexts DEF ClearsSection
    <3>3. /\ entry'.phase = entry.phase /\ entry'.stream = entry.stream
          /\ entry'.patch = entry.patch /\ entry'.rev = entry.rev
          /\ entry'.base = Empty
      BY <1>2 DEF ClearsSection, SectionInv, SectionShape, EntryShape, Entries
    <3>4. BaseIsOld'
      BY <3>3, SectionTexts DEF BaseIsOld
    <3>5. Course'
      BY <1>2, <3>1, <3>3, <3>4 DEF ClearsSection, Course, Follows, Unstreamed, Composed
    <3> QED
      BY <1>2, <3>1, <3>2, <3>3, <3>5 DEF ClearsSection, Watched, Active
  <2> QED
    BY <1>2, <2>1, <2>2 DEF ClearsSection
<1>3. CASE StreamsIn
  <2> DEFINE new == [entry.stream EXCEPT !.typed = IF entry.patch THEN store.typed ELSE {}]
  <2>1. EditorLeads' /\ FetchedAreRouted'
    BY <1>1, <1>3 DEF StreamsIn, SectionInv, FetchedAreRouted
  <2>2. ASSUME calm PROVE Watched'
    <3>1. Watched /\ entry.phase # "none" /\ entry.stream # Nothing
          /\ entry.rev # consumed
      BY <1>3, <2>2 DEF StreamsIn, StreamDue, SectionInv, SectionShape, EntryShape, Blank
    <3>2. Course /\ asking = NoCall /\ entry.phase \notin {"completed", "conflicted"}
          /\ known = {}
      BY <3>1 DEF Watched, Course, Unstreamed
    <3>3. /\ new \in Text /\ new.typed \subseteq editor.typed
          /\ ~entry.patch => new.typed = {}
      <4>1. store.typed \subseteq editor.typed /\ store.typed \subseteq Edits
        BY <3>1 DEF SectionInv, EditorLeads, Watched, SectionShape, TextsShape, Text
      <4>2. entry.stream \in Text
        BY DEF SectionInv, SectionShape, EntryShape, Entries
      <4>3. new.typed = IF entry.patch THEN store.typed ELSE {}
        BY <4>2 DEF Text
      <4> QED
        BY <4>1, <4>2, <4>3, SectionTexts
    <3>4. Replace(new, editor.typed) /\ entry' = [entry EXCEPT !.base = store']
      BY <1>3 DEF StreamsIn
    <3> HIDE DEF new
    <3>5. /\ (overwritten \cap editor.typed \subseteq before)'
          /\ (known \cap overwritten = {})'
          /\ store' = new
      BY <1>3, <3>1, <3>2, <3>3, <3>4, ReplaceKeeps DEF StreamsIn
    <3>6. /\ entry'.phase = entry.phase /\ entry'.stream = entry.stream
          /\ entry'.patch = entry.patch /\ entry'.rev = entry.rev
          /\ entry'.base = new
      BY <3>4, <3>5 DEF SectionInv, SectionShape, EntryShape, Entries
    <3>7. ~entry'.patch => BaseIsOld'
      BY <3>3, <3>6 DEF BaseIsOld
    <3>8. consumed' = entry'.rev /\ entry'.rev \in Nat
      BY <1>3, <3>6 DEF StreamsIn, SectionInv, SectionShape, EntryShape, Entries
    <3>9. \A t \in routed' : Follows(jobs[t].at)'
      <4> SUFFICES ASSUME NEW t \in routed PROVE Follows(jobs[t].at)'
        BY <1>3 DEF StreamsIn
      <4>1. Follows(jobs[t].at) /\ jobs' = jobs
        BY <1>3, <3>2 DEF Course, StreamsIn
      <4> QED
        BY <3>1, <3>6, <3>7, <4>1 DEF Follows, Unstreamed, Composed
    <3>10. Course'
      BY <1>3, <3>2, <3>6, <3>8, <3>9 DEF Course, StreamsIn
    <3> QED
      BY <1>3, <3>1, <3>2, <3>5, <3>10 DEF StreamsIn, Watched, Active
  <2> QED
    BY <1>3, <2>1, <2>2 DEF StreamsIn
<1>4. CASE FinishesSection
  <2>1. EditorLeads'
    BY <1>1, <1>4 DEF FinishesSection
  <2>2. ASSUME calm
        PROVE  /\ (overwritten \cap editor.typed \subseteq before)'
               /\ (known \cap overwritten = {})'
    <3>1. Watched /\ known = {}
      BY <1>4, <2>2 DEF FinishesSection, SectionInv, Watched
    <3>2. entry.gen \in Text /\ entry.gen.typed \subseteq editor.typed
      BY DEF SectionInv, SectionShape, EntryShape, Entries
    <3> QED
      BY <1>4, <3>1, <3>2, ReplaceKeeps DEF FinishesSection
  <2> QED
    BY <1>4, <2>1, <2>2, DismissKeepsInv DEF FinishesSection
<1>5. CASE AsksTheUser
  BY <1>5 DEF AsksTheUser, SectionInv, EditorLeads, FetchedAreRouted, Active, Watched,
              Course, Follows, Unstreamed, Composed, BaseIsOld
<1>6. ASSUME NEW replace \in BOOLEAN, UserAnswers(replace)
      PROVE  EditorLeads' /\ FetchedAreRouted' /\ (calm' => Watched')
  <2>1. CASE replace
    <3>1. Replace(modal, {})
      BY <1>6, <2>1 DEF UserAnswers
    <3>2. EditorLeads'
      BY <1>1, <1>6, <3>1 DEF UserAnswers
    <3>3. editor'.typed = {} /\ overwritten' = overwritten
      BY <3>1 DEF Replace, SectionInv, SectionShape, TextsShape
    <3>4. calm => /\ (overwritten \cap editor.typed \subseteq before)'
                  /\ (known \cap overwritten = {})'
      BY <1>6, <3>3 DEF UserAnswers, SectionInv, Watched
    <3> QED
      BY <1>6, <3>2, <3>4, DismissKeepsInv DEF UserAnswers
  <2>2. CASE ~replace
    <3>1. EditorLeads'
      BY <1>6, <2>2 DEF UserAnswers, SectionInv, EditorLeads, Active
    <3>2. calm => /\ (overwritten \cap editor.typed \subseteq before)'
                  /\ (known \cap overwritten = {})'
      BY <1>6, <2>2 DEF UserAnswers, SectionInv, Watched
    <3> QED
      BY <1>6, <3>1, <3>2, DismissKeepsInv DEF UserAnswers
  <2> QED
    BY <2>1, <2>2
<1> QED
  BY <1>2, <1>3, <1>4, <1>5, <1>6 DEF SectionEffect

\* Nothing is restored while the user stays.
LEMMA RestorationKeepsInv ==
  ASSUME SectionInv, TasksListed \/ TaskRestored \/ RestoreEnds
  PROVE  EditorLeads' /\ FetchedAreRouted' /\ (calm' => Watched')
<1> USE DEF texts, refs, ghosts
<1>0. TaskRestored => restore.at = "rows" /\ routed \subseteq routed'
  <2> SUFFICES ASSUME NEW n \in restore.left, restore.at = "rows",
                      routed' = IF jobs[n].at \in Streaming THEN routed \cup {n} ELSE routed
               PROVE  restore.at = "rows" /\ routed \subseteq routed'
    BY Zenon DEF TaskRestored
  <2> QED
    OBVIOUS
<1>1. ~calm
  <2>1. restore.at \in {"asked", "rows"}
    BY <1>0 DEF TasksListed, RestoreEnds
  <2> QED
    BY <2>1 DEF SectionInv, Watched, NoRestore
<1>2. CASE TasksListed
  BY <1>1, <1>2 DEF TasksListed, SectionInv, EditorLeads, FetchedAreRouted, Active
<1>3. CASE TaskRestored
  <2>1. UNCHANGED <<texts, locked, view, loaded, fetching, jobs, ghosts>>
    BY <1>3 DEF TaskRestored
  <2> QED
    BY <1>0, <1>1, <1>3, <2>1 DEF SectionInv, EditorLeads, FetchedAreRouted, Active
<1>4. CASE RestoreEnds
  BY <1>1, <1>4 DEF RestoreEnds, SectionInv, EditorLeads, FetchedAreRouted, Active
<1> QED
  BY <1>2, <1>3, <1>4

LEMMA SectionInvStep == SectionInv /\ [SectionNext]_sectionVars => SectionInv'
<1> SUFFICES ASSUME SectionInv, [SectionNext]_sectionVars PROVE SectionInv'
  OBVIOUS
<1>1. SectionShape'
  BY SectionShapeStep DEF SectionInv
<1>2. CASE UNCHANGED sectionVars
  BY <1>2, SectionInvSame
<1>3. CASE SectionNext
  <2>1. EditorLeads' /\ FetchedAreRouted' /\ (calm' => Watched')
    BY <1>3, UserKeepsInv, AskingKeepsInv, StreamsKeepInv, ReportsKeepInv, EndsKeepInv,
       StatusKeepsInv, EffectKeepsInv, RestorationKeepsInv DEF SectionNext
  <2> QED
    BY <1>1, <2>1 DEF SectionInv
<1> QED
  BY <1>2, <1>3

\* As long as the user stays with the section and changes no structure, what
\* had been typed by the time the end of the task was judged is not replaced by
\* the generated text without a question.
THEOREM JudgedEditsAlwaysKept == SectionSpec => []JudgedEditsKept
<1>1. SectionSpec => []SectionInv
  BY SectionInvInit, SectionInvStep, PTL DEF SectionSpec
<1>2. SectionInv => JudgedEditsKept
  BY DEF SectionInv, Watched, JudgedEditsKept
<1> QED
  BY <1>1, <1>2, PTL

-----------------------------------------------------------------------------
(* The types of a batch, also when the user clicks before a click is answered *)

\* A set of natural numbers has a least one.
LEMMA LeastOf ==
  ASSUME NEW B, B \subseteq Nat, B # {}
  PROVE  Min(B) \in B
<1>1. PICK m \in B : \A k \in B : ~ (<<k, m>> \in OpToRel(<, Nat))
  BY WFMin, NatLessThanWellFounded
<1>2. ASSUME NEW k \in B PROVE m <= k
  <2>1. k < m => <<k, m>> \in OpToRel(<, Nat)
    BY SMT DEF OpToRel
  <2>2. ~(k < m)
    BY <1>1, <2>1, Zenon
  <2> QED BY <2>2
<1> QED BY <1>2 DEF Min

Finite == IsFiniteSet(tasks) /\ IsFiniteSet(skips)

BatchTyped == BatchTypeOK /\ Finite

\* There is always an id that nothing refers to.
LEMMA FreshIdIs ==
  ASSUME BatchTyped
  PROVE  FreshId \in Nat
<1> DEFINE ofTasks == {t.id : t \in tasks}
           ofRows  == {taskId[i] : i \in Sections}
           ofSkips == {c.id : c \in skips}
           used == ofTasks \cup ofRows \cup ofSkips
           free == {n \in 1..(Cardinality(used) + 1) : n \notin used}
<1>1. IsFiniteSet(ofTasks)
  <2>1. [t \in tasks |-> t.id] \in Surjection(tasks, ofTasks)
    BY DEF Surjection
  <2> QED BY <2>1, FS_Surjection DEF BatchTyped, Finite
<1>2. IsFiniteSet(ofRows)
  <2>1. [i \in Sections |-> taskId[i]] \in Surjection(Sections, ofRows)
    BY DEF Surjection
  <2>2. IsFiniteSet(Sections)
    BY SectionsAre, FS_Interval DEF Sections
  <2> QED BY <2>1, <2>2, FS_Surjection
<1>3. IsFiniteSet(ofSkips)
  <2>1. [c \in skips |-> c.id] \in Surjection(skips, ofSkips)
    BY DEF Surjection
  <2> QED BY <2>1, FS_Surjection DEF BatchTyped, Finite
<1> HIDE DEF ofTasks, ofRows, ofSkips
<1>4. IsFiniteSet(ofTasks \cup ofRows)
  BY <1>1, <1>2, FS_Union
<1>5. IsFiniteSet(used)
  BY <1>3, <1>4, FS_Union
<1> HIDE DEF used
<1>6. Cardinality(used) \in Nat
  BY <1>5, FS_CardinalityType
<1>7. free # {}
  <2>1. SUFFICES ASSUME 1..(Cardinality(used) + 1) \subseteq used PROVE FALSE
    OBVIOUS
  <2>2. Cardinality(1..(Cardinality(used) + 1)) = Cardinality(used) + 1
    <3>1. 1 \in Int /\ Cardinality(used) + 1 \in Int /\ ~(1 > Cardinality(used) + 1)
      BY <1>6
    <3>2. Cardinality(1..(Cardinality(used) + 1)) = (Cardinality(used) + 1) - 1 + 1
      BY <3>1, FS_Interval
    <3> QED BY <1>6, <3>2
  <2>3. Cardinality(1..(Cardinality(used) + 1)) <= Cardinality(used)
    BY <1>5, <2>1, FS_Subset
  <2> QED BY <1>6, <2>2, <2>3
<1>8. free \subseteq Nat
  BY <1>6
<1>9. Min(free) \in free
  BY <1>7, <1>8, LeastOf
<1>10. FreshId = Min(free)
  BY Zenon DEF FreshId, used, ofTasks, ofRows, ofSkips
<1> QED BY <1>8, <1>9, <1>10

LEMMA DispatchIs ==
  ASSUME NEW id \in Nat, NEW i \in Sections, NEW by \in Origins, NEW from \in 0..NumSections
  PROVE  Dispatch(id, i, by, from) \in Task
BY DEF Dispatch, Task

ShownAs == {"progress", "error", "done", "gone"}

DisplayTyped == shown \in ShownAs /\ failed \subseteq Sections

LEMMA ShowTyped ==
  ASSUME DisplayTyped, NEW what \in ShownAs, NEW failing \in SUBSET Sections, Show(what, failing)
  PROVE  DisplayTyped'
BY DEF Show, DisplayTyped

LEMMA DoomedTyped ==
  ASSUME NEW ids, NEW ts, ts \subseteq Task, IsFiniteSet(ts)
  PROVE  Doomed(ids, ts) \subseteq Task /\ IsFiniteSet(Doomed(ids, ts))
<1> DEFINE d(t) == IF t.id \in ids /\ t.at = "live" THEN [t EXCEPT !.at = "doomed"] ELSE t
<1>1. \A t \in Task : [t EXCEPT !.at = "doomed"] \in Task
  BY DEF Task
<1>2. Doomed(ids, ts) \subseteq Task
  BY <1>1 DEF Doomed
<1>3. [t \in ts |-> d(t)] \in Surjection(ts, Doomed(ids, ts))
  BY DEF Doomed, Surjection
<1> QED BY <1>2, <1>3, FS_Surjection

TasksTyped == tasks \subseteq Task /\ IsFiniteSet(tasks)

LEMMA OneMore ==
  ASSUME NEW S, S \subseteq Task, IsFiniteSet(S), NEW t \in Task
  PROVE  S \cup {t} \subseteq Task /\ IsFiniteSet(S \cup {t})
BY FS_AddElement

\* The chain goes on after section i.
LEMMA ChainTyped ==
  ASSUME BatchTyped, NEW i \in Sections, NEW by \in {"chain", "skip"},
         NEW rest, rest \subseteq Task, IsFiniteSet(rest),
         (state \in [Sections -> States])', Chain(i, by, rest)
  PROVE  TasksTyped' /\ DisplayTyped' /\ (result \subseteq Sections)'
<1>0. DisplayTyped /\ result \subseteq Sections /\ i \in 0..NumSections /\ by \in Origins
      /\ failed \ {i} \in SUBSET Sections /\ {"done", "progress"} \subseteq ShownAs
  BY SectionsAre DEF BatchTyped, BatchTypeOK, DisplayTyped, ShownAs, Origins
<1>1. CASE \E j \in Sections : state'[j] = "pending"
  <2>1. NextPending(state') \in Sections
    <3> DEFINE P == {j \in Sections : state'[j] = "pending"}
    <3>1. P # {} /\ P \subseteq Nat
      BY <1>1, SectionsAre
    <3>2. Min(P) \in P
      BY <3>1, LeastOf
    <3> QED BY <3>2 DEF NextPending
  <2>2. Dispatch(FreshId, NextPending(state'), by, i) \in Task
    BY <1>0, <2>1, FreshIdIs, DispatchIs
  <2>3. tasks' = rest \cup {Dispatch(FreshId, NextPending(state'), by, i)} /\ UNCHANGED display
    BY <1>1 DEF Chain
  <2>4. TasksTyped'
    BY <2>2, <2>3, OneMore DEF TasksTyped
  <2> QED BY <1>0, <2>3, <2>4 DEF display, DisplayTyped
<1>2. CASE ~(\E j \in Sections : state'[j] = "pending")
  <2>1. TasksTyped'
    BY <1>2 DEF Chain, TasksTyped
  <2>2. CASE by = "skip"
    <3>1. Show("done", failed \ {i}) /\ result' = Assembled(state', content')
      BY <1>2, <2>2 DEF Chain
    <3> QED BY <1>0, <2>1, <3>1, ShowTyped DEF Assembled
  <2>3. CASE by # "skip"
    <3>1. Show("progress", failed \ {i}) /\ UNCHANGED result
      BY <1>2, <2>3 DEF Chain
    <3> QED BY <1>0, <2>1, <3>1, ShowTyped
  <2> QED BY <2>2, <2>3
<1> QED BY <1>1, <1>2

\* The rest of the types, when sections and display are known to keep theirs.
SectionsTyped ==
  /\ state \in [Sections -> States] /\ content \in [Sections -> Texts]
  /\ retries \in [Sections -> 0..MaxAutoRetries] /\ taskId \in [Sections -> Nat]

LEMMA BatchTypedIs ==
  BatchTyped <=>
    /\ SectionsTyped /\ TasksTyped /\ DisplayTyped /\ result \subseteq Sections
    /\ skips \subseteq Skip /\ IsFiniteSet(skips)
    /\ timers \in [Sections -> Nat]
    /\ alive \in BOOLEAN /\ rushed \in BOOLEAN /\ faults \in Nat /\ clicks \in Nat
BY DEF BatchTyped, BatchTypeOK, Finite, SectionsTyped, TasksTyped, DisplayTyped, ShownAs, States, Texts

LEMMA BatchTypedThen ==
  ASSUME SectionsTyped', TasksTyped', DisplayTyped', result' \subseteq Sections,
         skips' \subseteq Skip, IsFiniteSet(skips'), timers' \in [Sections -> Nat],
         alive' \in BOOLEAN, rushed' \in BOOLEAN, faults' \in Nat, clicks' \in Nat
  PROVE  BatchTyped'
BY DEF BatchTyped, BatchTypeOK, Finite, SectionsTyped, TasksTyped, DisplayTyped, ShownAs, States, Texts

LEMMA TaskFields ==
  ASSUME BatchTyped, NEW t \in tasks
  PROVE  /\ t \in Task /\ t.id \in Nat /\ t.sec \in Sections /\ t.from \in 0..NumSections
         /\ [t EXCEPT !.at = "live"] \in Task
         /\ tasks \ {t} \subseteq Task /\ IsFiniteSet(tasks \ {t})
<1>1. t \in Task /\ tasks \subseteq Task /\ IsFiniteSet(tasks)
  BY DEF BatchTyped, BatchTypeOK, Finite
<1>2. IsFiniteSet(tasks \ {t})
  BY <1>1, FS_RemoveElement
<1> QED BY <1>1, <1>2 DEF Task

LEMMA DispatchedTyped ==
  ASSUME BatchTyped, NEW t \in tasks, Dispatched(t)
  PROVE  BatchTyped'
<1>1. TasksTyped'
  BY TaskFields, OneMore DEF Dispatched, TasksTyped
<1>2. SectionsTyped'
  <2>1. "running" \in States /\ t.id \in Nat /\ t.sec \in Sections
    BY TaskFields DEF States
  <2> QED BY <2>1, BatchTypedIs DEF Dispatched, MarkSectionRunning, SectionsTyped
<1>3. DisplayTyped'
  <2>1. /\ failed \cup {t.sec} \in SUBSET Sections /\ failed \ {t.from, t.sec} \in SUBSET Sections
        /\ {"error", "progress"} \subseteq ShownAs /\ DisplayTyped
    BY TaskFields, BatchTypedIs DEF DisplayTyped, ShownAs
  <2>2. Show("error", failed \cup {t.sec}) \/ Show("progress", failed \ {t.from, t.sec})
    BY DEF Dispatched
  <2> QED BY <2>1, <2>2, ShowTyped
<1> QED BY <1>1, <1>2, <1>3, BatchTypedIs, BatchTypedThen DEF Dispatched

LEMMA DispatchFailsTyped ==
  ASSUME BatchTyped, NEW t \in tasks, DispatchFails(t)
  PROVE  BatchTyped'
<1>0. /\ failed \cup {t.sec} \in SUBSET Sections /\ failed \ {t.from} \in SUBSET Sections
      /\ failed \in SUBSET Sections /\ {} \in SUBSET Sections
      /\ {"error", "progress", "gone"} \subseteq ShownAs /\ DisplayTyped
  BY TaskFields, BatchTypedIs DEF DisplayTyped, ShownAs
<1>1. /\ \/ Show("error", failed \cup {t.sec}) \/ Show("progress", failed \ {t.from})
         \/ Show("error", failed) \/ Show("gone", {})
      /\ state' \in {state, [state EXCEPT ![t.sec] = "failed"]}
  BY DEF DispatchFails, TimerDispatchFails
<1>2. DisplayTyped'
  BY <1>0, <1>1, ShowTyped
<1>3. SectionsTyped'
  BY <1>1, TaskFields, BatchTypedIs DEF DispatchFails, SectionsTyped, States
<1>4. TasksTyped'
  BY TaskFields DEF DispatchFails, TasksTyped
<1>5. faults' \in Nat
  BY BatchTypedIs DEF DispatchFails
<1> QED BY <1>2, <1>3, <1>4, <1>5, BatchTypedIs, BatchTypedThen DEF DispatchFails

LEMMA CompleteTyped ==
  ASSUME BatchTyped, NEW i \in Sections, NEW what \in {"generated", "skipped"}, Complete(i, what)
  PROVE  (state \in [Sections -> States])' /\ (content \in [Sections -> Texts])'
BY BatchTypedIs DEF Complete, SectionsTyped, States, Texts

LEMMA TaskCompletesTyped ==
  ASSUME BatchTyped, NEW t \in tasks, TaskCompletes(t)
  PROVE  BatchTyped'
<1>1. (state \in [Sections -> States])' /\ (content \in [Sections -> Texts])'
  BY CompleteTyped, TaskFields DEF TaskCompletes
<1>2. SectionsTyped'
  BY <1>1, BatchTypedIs DEF TaskCompletes, SectionsTyped
<1>3. TasksTyped' /\ DisplayTyped' /\ (result \subseteq Sections)' /\ alive' \in BOOLEAN
  <2>1. CASE AllDone(state')
    <3>1. tasks' = tasks \ {t} /\ alive' = FALSE /\ result' = Assembled(state', content')
      BY <2>1 DEF TaskCompletes
    <3>2. Show("error", failed \ {t.sec}) \/ Show("done", failed \ {t.sec})
      BY <2>1 DEF TaskCompletes
    <3>3. failed \ {t.sec} \in SUBSET Sections /\ {"error", "done"} \subseteq ShownAs /\ DisplayTyped
      BY BatchTypedIs DEF DisplayTyped, ShownAs
    <3>4. DisplayTyped'
      BY <3>2, <3>3, ShowTyped
    <3>5. TasksTyped'
      BY <3>1, TaskFields DEF TasksTyped
    <3> QED BY <3>1, <3>4, <3>5 DEF Assembled
  <2>2. CASE ~AllDone(state')
    <3>1. Chain(t.sec, "chain", tasks \ {t}) /\ alive' = alive
      BY <2>2 DEF TaskCompletes
    <3>2. TasksTyped' /\ DisplayTyped' /\ (result \subseteq Sections)'
      BY <1>1, <3>1, ChainTyped, TaskFields
    <3> QED BY <3>1, <3>2, BatchTypedIs
  <2> QED BY <2>1, <2>2
<1> QED BY <1>2, <1>3, BatchTypedIs, BatchTypedThen DEF TaskCompletes

LEMMA TaskFailsTyped ==
  ASSUME BatchTyped, NEW t \in tasks, NEW outcome, TaskFails(t, outcome)
  PROVE  BatchTyped'
<1>0. AutoRetry(t) \/ SectionFails(t)
  BY DEF TaskFails
<1>1. TasksTyped'
  BY <1>0, TaskFields DEF AutoRetry, SectionFails, TasksTyped
<1>2. DisplayTyped'
  <2>1. /\ failed \cup {t.sec} \in SUBSET Sections /\ failed \ {t.sec} \in SUBSET Sections
        /\ {"error", "progress"} \subseteq ShownAs /\ DisplayTyped
    BY TaskFields, BatchTypedIs DEF DisplayTyped, ShownAs
  <2>2. Show("error", failed \cup {t.sec}) \/ Show("progress", failed \ {t.sec})
    BY <1>0 DEF AutoRetry, SectionFails
  <2> QED BY <2>1, <2>2, ShowTyped
<1>3. SectionsTyped' /\ timers' \in [Sections -> Nat]
  <2>0. t.sec \in Sections /\ SectionsTyped /\ timers \in [Sections -> Nat] /\ MaxAutoRetries \in Nat
    BY TaskFields, BatchTypedIs, SectionsAre
  <2>1. CASE AutoRetry(t)
    <3>1. retries[t.sec] + 1 \in 0..MaxAutoRetries /\ timers[t.sec] + 1 \in Nat
      BY <2>0, <2>1 DEF AutoRetry, SectionsTyped
    <3> QED BY <2>0, <2>1, <3>1 DEF AutoRetry, TaskFails, SectionsTyped, States
  <2>2. CASE SectionFails(t)
    BY <2>0, <2>2 DEF SectionFails, TaskFails, SectionsTyped, States
  <2> QED BY <1>0, <2>1, <2>2
<1> QED BY <1>1, <1>2, <1>3, BatchTypedIs, BatchTypedThen DEF TaskFails

LEMMA TaskEndsLateTyped ==
  ASSUME BatchTyped, NEW t \in tasks, TaskEndsLate(t)
  PROVE  BatchTyped'
<1>1. TasksTyped'
  BY TaskFields DEF TaskEndsLate, TasksTyped
<1> QED BY <1>1, BatchTypedIs, BatchTypedThen DEF TaskEndsLate, sections, display, SectionsTyped, DisplayTyped

LEMMA RedispatchTyped ==
  ASSUME BatchTyped, NEW i \in Sections, NEW by \in {"timer", "retry"}, Redispatch(i, by)
  PROVE  /\ (state \in [Sections -> States])' /\ (content \in [Sections -> Texts])'
         /\ (taskId \in [Sections -> Nat])' /\ TasksTyped'
<1>1. Dispatch(FreshId, i, by, 0) \in Task
  BY FreshIdIs, DispatchIs, SectionsAre DEF Origins
<1>2. tasks \subseteq Task /\ IsFiniteSet(tasks)
  BY BatchTypedIs DEF TasksTyped
<1>3. TasksTyped'
  BY <1>1, <1>2, OneMore DEF Redispatch, TasksTyped
<1> QED BY <1>3, BatchTypedIs DEF Redispatch, SectionsTyped, States, Texts

LEMMA RetryTimerFiresTyped ==
  ASSUME BatchTyped, NEW i \in Sections, RetryTimerFires(i)
  PROVE  BatchTyped'
<1>1. timers' \in [Sections -> Nat]
  BY BatchTypedIs DEF RetryTimerFires
<1>2. CASE alive
  <2>1. Redispatch(i, "timer") /\ UNCHANGED <<shown, failed>>
    BY <1>2 DEF RetryTimerFires
  <2>2. TasksTyped' /\ SectionsTyped'
    BY <2>1, RedispatchTyped, BatchTypedIs DEF RetryTimerFires, SectionsTyped
  <2> QED BY <1>1, <2>1, <2>2, BatchTypedIs, BatchTypedThen DEF RetryTimerFires, DisplayTyped
<1>3. CASE ~alive
  <2>1. Show("error", failed \cup {i}) /\ UNCHANGED <<state, content, taskId, tasks>>
    BY <1>3 DEF RetryTimerFires
  <2>2. failed \cup {i} \in SUBSET Sections /\ "error" \in ShownAs /\ DisplayTyped
    BY BatchTypedIs DEF DisplayTyped, ShownAs
  <2>3. DisplayTyped'
    BY <2>1, <2>2, ShowTyped
  <2> QED BY <1>1, <2>1, <2>3, BatchTypedIs, BatchTypedThen DEF RetryTimerFires, SectionsTyped, TasksTyped
<1> QED BY <1>2, <1>3

LEMMA TargetIs ==
  ASSUME BatchTyped, NEW i \in Target
  PROVE  i \in Sections
<1> DEFINE candidates == IF failed # {} THEN failed ELSE {j \in Sections : state[j] = "failed"}
<1>1. candidates \subseteq Sections /\ candidates \subseteq Nat /\ candidates # {}
  BY BatchTypedIs, SectionsAre DEF Target, DisplayTyped
<1>2. i = Min(candidates)
  BY <1>1 DEF Target
<1> QED BY <1>1, <1>2, LeastOf

LEMMA ClickRetryTyped ==
  ASSUME BatchTyped, ClickRetry
  PROVE  BatchTyped'
<1>1. clicks' \in Nat /\ rushed' \in BOOLEAN
  BY BatchTypedIs DEF ClickRetry, Click, Unanswered
<1>2. CASE alive /\ Target # {}
  <2>1. PICK i \in Target : retries' = [retries EXCEPT ![i] = 0] /\ Redispatch(i, "retry")
    BY <1>2 DEF ClickRetry
  <2>2. i \in Sections
    BY TargetIs
  <2>3. TasksTyped' /\ SectionsTyped'
    BY <2>1, <2>2, RedispatchTyped, BatchTypedIs, SectionsAre DEF SectionsTyped
  <2> QED BY <1>1, <2>3, BatchTypedIs, BatchTypedThen DEF ClickRetry, display, DisplayTyped
<1>3. CASE ~(alive /\ Target # {})
  <2>1. UNCHANGED <<state, content, retries, taskId, tasks>>
    BY <1>3 DEF ClickRetry
  <2> QED BY <1>1, <2>1, BatchTypedIs, BatchTypedThen DEF ClickRetry, display, DisplayTyped, SectionsTyped, TasksTyped
<1> QED BY <1>2, <1>3

\* A section is skipped, with or without a deletion before.
LEMMA SkipCompletesTyped ==
  ASSUME BatchTyped, NEW i \in Sections, NEW click \in Nat,
         NEW others, others \subseteq Skip, IsFiniteSet(others),
         NEW ts, ts \subseteq Task, IsFiniteSet(ts), SkipCompletes(i, click, others, ts),
         UNCHANGED <<alive, retries, taskId, timers, faults>>,
         rushed' \in BOOLEAN, clicks' \in Nat,
         ~alive \/ AllDone(state') => UNCHANGED result
  PROVE  BatchTyped'
<1>1. (state \in [Sections -> States])' /\ (content \in [Sections -> Texts])'
  <2>1. CASE alive
    BY <2>1, CompleteTyped DEF SkipCompletes
  <2>2. CASE ~alive
    BY <2>2, BatchTypedIs DEF SkipCompletes, SectionsTyped
  <2> QED BY <2>1, <2>2
<1>2. SectionsTyped'
  BY <1>1, BatchTypedIs DEF SectionsTyped
<1>3. CASE ~alive \/ AllDone(state')
  <2> DEFINE c == [click |-> click, sec |-> i, id |-> 0, at |-> "purge",
                   got |-> IF alive THEN Assembled(state', content') ELSE {}]
  <2>1. c \in Skip
    BY DEF Skip, Assembled
  <2>2. skips' = others \cup {c} /\ tasks' = ts /\ UNCHANGED display
    BY <1>3 DEF SkipCompletes
  <2> HIDE DEF c
  <2>3. skips' \subseteq Skip /\ IsFiniteSet(skips')
    BY <2>1, <2>2, FS_AddElement
  <2>4. TasksTyped'
    BY <2>2 DEF TasksTyped
  <2> QED BY <1>2, <2>2, <2>3, <2>4, BatchTypedIs, BatchTypedThen DEF display, DisplayTyped
<1>4. CASE ~(~alive \/ AllDone(state'))
  <2>1. skips' = others /\ Chain(i, "skip", ts)
    BY <1>4 DEF SkipCompletes
  <2>2. TasksTyped' /\ DisplayTyped' /\ (result \subseteq Sections)'
    BY <1>1, <2>1, ChainTyped
  <2> QED BY <1>2, <2>1, <2>2, BatchTypedIs, BatchTypedThen
<1> QED BY <1>3, <1>4

LEMMA ClickSkipTyped ==
  ASSUME BatchTyped, ClickSkip
  PROVE  BatchTyped'
<1>1. clicks' \in Nat /\ rushed' \in BOOLEAN /\ clicks \in Nat
  BY BatchTypedIs DEF ClickSkip, Click, Unanswered
<1>2. UNCHANGED <<alive, retries, taskId, timers, faults>>
  BY DEF ClickSkip
<1>3. CASE ~alive \/ Target = {}
  <2>1. CASE Show("gone", {}) /\ UNCHANGED <<state, content, tasks, skips, result>>
    <3>1. DisplayTyped /\ "gone" \in ShownAs /\ {} \in SUBSET Sections
      BY BatchTypedIs DEF ShownAs
    <3>2. DisplayTyped'
      BY <2>1, <3>1, ShowTyped
    <3> QED BY <1>1, <1>2, <2>1, <3>2, BatchTypedIs, BatchTypedThen DEF SectionsTyped, TasksTyped
  <2> QED BY <1>3, <2>1 DEF ClickSkip
<1>4. CASE alive /\ Target # {}
  <2>1. PICK i \in Target :
          IF taskId[i] = 0
          THEN SkipCompletes(i, clicks, skips, tasks)
          ELSE /\ skips' = skips \cup
                    {[click |-> clicks, sec |-> i, id |-> taskId[i],
                      at |-> "delete", got |-> {}]}
               /\ UNCHANGED <<state, content, tasks, display>>
    BY <1>4 DEF ClickSkip
  <2>2. i \in Sections
    BY TargetIs
  <2>3. CASE taskId[i] = 0
    <3>1. SkipCompletes(i, clicks, skips, tasks)
      BY <2>1, <2>3
    <3>2. ~alive \/ AllDone(state') => UNCHANGED result
      BY <3>1 DEF SkipCompletes, display
    <3> QED BY <1>1, <1>2, <2>2, <3>1, <3>2, SkipCompletesTyped, BatchTypedIs DEF TasksTyped
  <2>4. CASE taskId[i] # 0
    <3> DEFINE c == [click |-> clicks, sec |-> i, id |-> taskId[i], at |-> "delete", got |-> {}]
    <3>1. c \in Skip
      BY <1>1, <2>2, BatchTypedIs DEF Skip, SectionsTyped
    <3>2. skips' = skips \cup {c} /\ UNCHANGED <<state, content, tasks, display>>
      BY <2>1, <2>4
    <3> HIDE DEF c
    <3>3. skips' \subseteq Skip /\ IsFiniteSet(skips')
      BY <3>1, <3>2, BatchTypedIs, FS_AddElement
    <3> QED BY <1>1, <1>2, <3>2, <3>3, BatchTypedIs, BatchTypedThen DEF SectionsTyped, TasksTyped, display, DisplayTyped
  <2> QED BY <2>3, <2>4
<1> QED BY <1>3, <1>4

LEMMA SkipFields ==
  ASSUME BatchTyped, NEW c \in skips
  PROVE  /\ c.click \in Nat /\ c.sec \in Sections /\ c.got \subseteq Sections
         /\ skips \ {c} \subseteq Skip /\ IsFiniteSet(skips \ {c})
<1>1. c \in Skip /\ skips \subseteq Skip /\ IsFiniteSet(skips)
  BY BatchTypedIs
<1>2. IsFiniteSet(skips \ {c})
  BY <1>1, FS_RemoveElement
<1> QED BY <1>1, <1>2 DEF Skip

LEMMA SkipDeletedTyped ==
  ASSUME BatchTyped, NEW c \in skips, SkipDeleted(c)
  PROVE  BatchTyped'
<1> DEFINE ts == Doomed({c.id}, tasks)
<1>1. ts \subseteq Task /\ IsFiniteSet(ts)
  BY DoomedTyped, BatchTypedIs DEF TasksTyped
<1>2. SkipCompletes(c.sec, c.click, skips \ {c}, ts)
  BY DEF SkipDeleted
<1> HIDE DEF ts
<1>3. ~alive \/ AllDone(state') => UNCHANGED result
  BY <1>2 DEF SkipCompletes, display
<1>4. /\ UNCHANGED <<alive, retries, taskId, timers, faults>>
      /\ rushed' \in BOOLEAN /\ clicks' \in Nat
  BY BatchTypedIs DEF SkipDeleted
<1> QED BY <1>1, <1>2, <1>3, <1>4, SkipFields, SkipCompletesTyped

LEMMA SkipPurgedTyped ==
  ASSUME BatchTyped, NEW c \in skips, SkipPurged(c)
  PROVE  BatchTyped'
<1>1. TasksTyped'
  BY DoomedTyped, BatchTypedIs DEF SkipPurged, TasksTyped
<1>2. skips' \subseteq Skip /\ IsFiniteSet(skips') /\ (result \subseteq Sections)'
  BY SkipFields DEF SkipPurged
<1>3. DisplayTyped'
  <2>1. failed \ {c.sec} \in SUBSET Sections /\ "done" \in ShownAs /\ DisplayTyped
    BY BatchTypedIs DEF DisplayTyped, ShownAs
  <2> QED BY <2>1, ShowTyped DEF SkipPurged
<1> QED BY <1>1, <1>2, <1>3, BatchTypedIs, BatchTypedThen DEF SkipPurged, SectionsTyped

LEMMA BatchTypedInit == BatchInit => BatchTyped
<1> SUFFICES ASSUME BatchInit PROVE BatchTyped
  OBVIOUS
<1>1. 1 \in Sections /\ MaxAutoRetries \in Nat /\ MaxFaults \in Nat /\ MaxClicks \in Nat
  BY BatchAssumption DEF Sections
<1>2. Dispatch(1, 1, "first", 0) \in Task
  BY <1>1, DispatchIs, SectionsAre DEF Origins
<1>3. TasksTyped
  BY <1>2, FS_Singleton DEF BatchInit, TasksTyped
<1>4. IsFiniteSet({})
  BY FS_EmptySet
<1>5. SectionsTyped /\ DisplayTyped
  BY <1>1 DEF BatchInit, SectionsTyped, DisplayTyped, States, Texts, ShownAs
<1> QED BY <1>1, <1>3, <1>4, <1>5, BatchTypedIs DEF BatchInit

LEMMA BatchTypedStep == BatchTyped /\ [BatchNext]_batchVars => BatchTyped'
<1> SUFFICES ASSUME BatchTyped, [BatchNext]_batchVars PROVE BatchTyped'
  OBVIOUS
<1>1. CASE UNCHANGED batchVars
  BY <1>1 DEF batchVars, BatchTyped, BatchTypeOK, Finite
<1>2. CASE BatchNext
  BY <1>2, DispatchedTyped, DispatchFailsTyped, TaskCompletesTyped, TaskFailsTyped,
     TaskEndsLateTyped, RetryTimerFiresTyped, SkipDeletedTyped, SkipPurgedTyped,
     ClickRetryTyped, ClickSkipTyped DEF BatchNext, Progress
<1> QED BY <1>1, <1>2

\* Whatever fails and whatever is clicked in which order: sections, tasks,
\* timers, skips and what is shown keep their types, a section is not retried
\* by itself more often than there are delays, and there is always a task id
\* that nothing refers to.
THEOREM BatchTypeCorrect == BatchSpec => []BatchTypeOK
<1>1. BatchTyped => BatchTypeOK
  BY DEF BatchTyped
<1> QED BY <1>1, BatchTypedInit, BatchTypedStep, PTL DEF BatchSpec
=============================================================================
