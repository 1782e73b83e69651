# BidWise: a TLA+ model of the desktop application

BidWise (标智) is an Electron application in which a pre-sales engineer writes a
bid proposal with the help of AI agents.  The main process keeps projects in
SQLite and one directory of files per project; the renderer holds the editor
and a set of zustand stores; a Python child process renders .docx files.  Both
processes are single-threaded JavaScript, so that everything difficult happens
at `await`s, timers and callbacks, in the order of answers, and at failures and
restarts.  This directory models those parts.

## 1. Inventory

Paths are relative to `src/src/`.

| Component | State it keeps | Operations | What is hard | What makes it correct |
|---|---|---|---|---|
| **Task queue** `main/services/task-queue/queue.ts`, rows in `main/db/repositories/task-repo.ts` | `activeCount`, `controllers`, `timeoutTimers`, `executors`, `pendingQueue`, `_pendingCallbacks`; table `tasks` | enqueue, execute, cancel, retry, delete, recoverPendingTasks | an await between any two row operations; a timeout, a cancel and an answer at once; retry inside the catch block; restart | slots never leak; no queued task and no caller is forgotten; the row follows one lifecycle; every task ends |
| **Document file service** `main/services/document-service.ts` | `proposal.md`, the sidecar `proposal.meta.json`, a save sequence per project | load, save, saveSync | saves overlap; each file operation may fail; quitting during a save | newest content wins; an empty editor never empties the file |
| **Document store and editor** `renderer/.../stores/documentStore.ts`, `modules/editor` | content, load version, autosave state (dirty, saving, timer, queued, token), editing lock | typing, serialization, autosave, retry, load, close, leave | two debounce delays; an answer after a reset; a save asked for during a save | no edit lost, no sleeping change, no eternal "saving" |
| **Structure mutation** `renderer/.../stores/chapterStructureStore.ts`, `main/services/chapter-structure-service.ts` | `mutating`, `editingLocked`; `sectionIndex` in the sidecar | rename, insert, move, indent, ... through `runMutation` and `applyStructureMutation` | flush, lock and rewrite span both processes; two files are written one after the other | the chapter tree and the markdown agree; the editor is unlocked in the end |
| **Outline operations** `main/services/chapter-structure-service.ts`, `shared/chapter-markdown.ts`, `shared/chapter-identity.ts` | headings in `proposal.md`; `sectionIndex` (ids, parents, orders, locators) in the sidecar | rename, insert sibling or child, indent, outdent, move, delete, undo | the same outline is edited twice, once as headings and once as a tree, and the two are paired by position; a heading is found by level, title and occurrence, which twins share | a section keeps its heading; an operation moves one subtree |
| **Soft deletion and undo** `main/services/chapter-structure-delete-service.ts`, `stores/chapterStructureStore.ts` | undo journal in the sidecar (staged and active entries), five stores that know a chapter, undo window and timer in the renderer | requestSoftDelete, undoDelete, finalizeDelete, list, rollback, clean-up at start-up | journal, index, rows, summaries and markdown are written one after the other; undo races the timer and the next deletion; a crash anywhere | no chapter is lost while its window is open; the stores agree; an undo restores everything; a window closes |
| **Batch generation** `main/services/chapter-generation-service.ts`, `agent-orchestrator/batch-orchestration-manager.ts` | per batch: sections with a state, content, task id; retry timers | batchGenerate, dispatch of the next section, retry, skip | a retry timer races the user; answers of replaced tasks; a failed dispatch | no section is generated twice at once; every batch ends, and not early |
| **Single chapter generation** `chapter-generation-service.ts`, `agents/generate-agent.ts`, `modules/editor/hooks/useChapterGeneration.ts`, `EditorView.tsx` | per chapter in the renderer: phase, baseline, streamed and final text, revision; what the editor has taken; the task's row with the baseline at dispatch | generate, regenerate, retry, dismiss, stream, judge the end, ask, restore | the user types, leaves and changes the structure meanwhile; editor, store and disk lag behind each other; the baseline moves with every text put in | nothing the user typed is overwritten unasked; every generation ends |
| **Agent orchestrator** `agent-orchestrator/orchestrator.ts` | registered agents | execute, executeWithCallback, status, cancel | it is the queue's only registered executor | answers are those of the task |
| **Analysis services** `document-parser/*`, lineup, checklist, source attribution | one row of results per project | generate, attribute, validate | an outer task polls an inner task of the same queue, with or without a deadline, while it holds a slot | no circular wait for slots; every analysis ends |
| **Tender analysis** `document-parser/tender-import.ts`, `scoring-extractor.ts`, `fog-map-classifier.ts`, `traceability-matrix-service.ts`, their repositories; `stores/analysisStore.ts`, `modules/analysis` | `tender-parsed.json`, requirements, certainties, traceability links and snapshot; per project in the store: results, task ids, loading flags | import, extraction, fog map, matrix, addendum, links; the task monitor; mounting the view | several tasks write what others have read; foreign keys cascade; the monitor's handlers await between reading and setting; the store lets go of tasks | links the user made survive; a progress bar ends; the screen shows what is in the database |
| **Docx bridge** `main/services/docx-bridge/process-manager.ts` | child, port, health timer, `isRestarting`, `intentionalStop` | start with attempts, READY, exit, restart, health check, stop | three async functions share these fields without a lock; exit events and READY lines of old children | no renderer is lost sight of; none after quit; it comes back after a crash |
| **Chapter identity migration** `main/services/chapter-identity-migration-service.ts` | schema version, index ids, the ids in six stores, a progress file, a memo per project | ensureMigrated at each load | seven writes, each of which may fail or be the last before a crash; a retry must mint nothing twice | one id per chapter in all stores; a project marked v2 has no old id left |
| **Adversarial review** `main/services/adversarial-review-service.ts`, `db/repositories/adversarial-review-repo.ts` | one session row per project (status, a result per role), the findings with the user's verdicts and contradiction groups | startExecution, retryRole, handleFinding | status and results are copies read some awaits before they are written; the queue repeats an attempt that throws; two retries may overlap | a verdict outlives the retry of another role; the session tells what happened |
| AI proxy, agents, prompts, skills | none beyond a call | | model calls | out of scope: text in, text out |
| Summaries, diagrams, export, templates, annotations, notifications, IPC, other stores | mostly single-row operations or caches | | | listed in `PROJECT.json` with the reason each is left out |

How they interact: the renderer calls services by IPC and waits for the answer.
Services run agents as tasks of the one task queue.  Batch generation reacts to
the promise of `execute`, the task monitors of the renderer read rows.  A
structure mutation first makes the document store save, locks the editor, has
the main process rewrite sidecar and markdown, and applies the returned
snapshot to the store.

## 2. The modules

`TaskLifecycle` is the abstract specification of a task row: one status machine
per task.  `TaskQueue` is the queue and `TaskQueueProofs` its theorems.
`DocumentFile` is the main process's side of a document; `DocumentAutosave`
composes it with editor, store and structure mutation.  `BatchGeneration` is
one batch of sub-chapters, from the saga in the main process to what the user
sees of it, `SectionGeneration` the generation of one chapter next to the user's own
edits.  `ChapterTree` is the outline and its operations, `StructureDelete`
a deletion and its undo over all stores, `DocxProcess` the process manager of the
docx renderer, `ChapterIdentity` the upgrade of chapter ids, `AdversarialReview` the
reviews of a proposal by the roles of the line-up.  `NestedTasks` gives the executors of
`TaskQueue` the code of the analyses, whose tasks start tasks; `TenderAnalysis` is what
those about the tender write, and what the screen shows of it.

`MCTaskQueue`, `MCDocument`, `MCBatch`, `MCSection` and `MCNested` give the constants small values for
TLC.
`MCServices` puts `StructureDelete`, `ChapterTree`, `DocxProcess` and
`ChapterIdentity` side by side, `MCWork` the queue, the batch, the section and the
review, `MCProject` the document, the tender and the nested tasks, `MCInterference` the
queue and the document under everything that may come between: they
share no state, so each behaviour is one of one of them, which the variable `part`
names and the initial state chooses, while the others rest in a state where none of
their fair actions is enabled.

Proofs are in modules of their own that extend what they are about:
`TaskQueueProofs`, `DocumentAutosaveProofs`, `GenerationProofs` (the batch and the single
chapter), `StructureDeleteProofs`, `ChapterTreeProofs`, and three that also prove the types of
a composition: `ServicesProofs` (process manager, identity migration; `MCServices`),
`WorkProofs` (review; `MCWork`) and `ProjectProofs` (tender analysis, nested tasks;
`MCProject`).

### TaskQueue

A *run* `<<t, k>>` is one call of `execute` for task `t`.  Its `pc` names what it
awaits; an action is the effect of that operation and all code up to the next
await.  `Holding` are the places between the head of `_executeTask` and its
finally block.

| Code | Model |
|---|---|
| `execute` | `Execute`, then `ExecuteFound` (run, or wait in the queue) |
| `_executeTask`: head; 'running'; executor; 'completed' | `ExecuteTask`; `MarkRunning`; `ExecutorEnds`; `WriteCompleted` |
| its catch block | `CatchPlace` decides, `WriteTimedOut`, `WriteCancelled`, `WriteFailed`, `CheckRetry`, `WriteRetry`, `RetryAttempt`; `RowGone` when the row was deleted |
| its finally block | `Finally`, part of each action that leaves the function, with `ProcessQueue` |
| `_processQueue` after its await | `DequeuedFound` |
| the timeout timer | `TimerFires` |
| `cancel`, over its three awaits | `CancelRead`, `CancelDecide`, `CancelWrite`, `CancelRemove` |
| `retry` | `Retry`, `RetryWrite` |
| `delete` | `Delete` |
| end of the process, `recoverPendingTasks` | `Restart`, `Recover` |

`RetryAttempt` deserves a note.  The code says `return this._executeTask(...)`
in a catch block, without `await`: the head of the new attempt runs (it takes a
slot and files its controller and timer under the task id), then the old
attempt's finally block (it gives a slot back, and removes the controller and
the timer it finds under the task id).  The action is the net effect of the
two, with the queue looked at in between.

Left out: progress reports, priorities (stored and not used), the contents of
input, output and error.  Database errors other than a missing row are not
modelled.  Callers execute an id once, as all callers in the code do: `Calls`
has one element in the runs, and a task is executed again only by `retry` or
after a restart.

### DocumentFile and DocumentAutosave

A content is the set of changes it contains, so that "overwritten by an older
content" is a set difference.  Every character typed belongs to one piece of
text; emptying the editor is its own action.  A save is a record with its
sequence number, its content and the place it has come to.  The renderer's save
token and load version are compared for equality only; a save or load whose
token is outdated is one the store does not await (`awaited`, `load`).

| Code | Model |
|---|---|
| `documentService.save` | `Submit`, `SaveReads`, `SaveWritesTmp`, `SaveWritesBackup`, `SaveRenames`, `SaveWritesMeta` |
| `saveSync` (no await) | `SaveSyncWrites`, `SaveSyncFails` |
| typing and the 300 ms serialization | `Types`, `Clears`, `Echoes`; `Serializes` with `UpdateContent` |
| the 1 s autosave timer, `saveDocument`, its answer | `AutosaveFires`, `SaveDocument`, `SaveAnswered` |
| `loadDocument` | `AskLoad`, `LoadReads`, `LoadAnswered`, `LoadsAgain` |
| `runMutation`, `flushPendingContent` | `MutationStarts`, `MutationCalls`, `FlushSaves`, `FlushFails` |
| `applyStructureMutation` | `MutationLoads`, `MutationIndexes`, `MutationSaved`, `MutationRollsBack` |
| its answer, `applyStructureSnapshot` | `MutationAnswered`, `ApplySnapshot` |
| leaving and entering the editor, `beforeunload`, a crash | `Leaves`, `Enters`, `Closes`, `Crashes` |

`Echoes` stands for every way in which the editor serializes what the store has
already: the user types and takes it back, or Plate reports a value it was
given (`editor.tf.setValue`) as a change.  A structure mutation adds one member
of `Mutations` to the content and to `sectionIndex`: what the tree operation does
to headings is not modelled.  Contents shorter than the 100 characters of the
shrink guard, annotations and debug traces are left out.

### BatchGeneration

A batch generates the sections of one chapter one after the other, because each
is given the text of those before it.  The model has the orchestration (`alive`,
`state`, `content`, `retries`, `taskId`), its tasks, its retry timers, the calls
of `batchSkipSection` that await a deletion, and the status the chapter's heading
shows.  A text is "generated" or "skipped".  Of the task
queue only the promise is used: a task ends completed, failed or cancelled, at
any time, and its callback runs once.  `shown` is "progress" (the bar), "error" (the bar with the
buttons retry and skip), "done" (the assembled result was handed over) or "gone"
(the status was dismissed).

| Code | Model |
|---|---|
| `_dispatchBatchSingleSection` and what its caller does with the task id, or with an error | `Dispatch`; `Dispatched`, `DispatchFails` |
| `_onBatchSectionDone`: completed; failed with and without a retry left; orchestration gone | `TaskCompletes` with `Chain`; `TaskFails` with `AutoRetry`, `SectionFails`; `TaskEndsLate` |
| its `setTimeout` | `RetryTimerFires` |
| `batchRetrySection` | `ClickRetry`, `Redispatch` |
| `batchSkipSection`, over its awaits | `ClickSkip`, `SkipDeleted`, `SkipPurged` |
| `_advanceChain` | `AllDone`, `NextPending`, `Chain` |
| the handlers of the four progress payloads and of the two answers | `Show`, in the action that emits or answers |

Events and answers reach the renderer in the order in which they are sent, so
that their handlers are part of the action that sends them.  A retry that is
refused (`~alive`, or no failed section) leaves the error where it is; a skip
that is refused clears the status.  Left out: the restoration of statuses in a
new renderer, cancelling a task of a batch (which is one of its outcomes), and
the cleanup of the skeleton's metadata after the end.

### SectionGeneration

A section's text is what an AI wrote into it, if anything, and the pieces typed since.
It is held three times: in Plate (`editor`), in the store and on the disk, each behind
the one before.  `entry` is the chapter's entry in `statuses`, `routed` the tasks whose
events reach it, `jobs` the tasks with the baseline in their input.

| Code | Model |
|---|---|
| the buttons of the heading and of the error bar; `startGeneration`, `startRegeneration` | `AsksFor`, `Retries`, `DismissesError`; `Starts` |
| `generateChapter`, `regenerateChapter`, `_dispatchGeneration`, their answer | `CallAnswered` with `Dispatches` or `DispatchRefused` |
| the agent's text, diagrams, composition, end | `TaskStreams`, `TaskReports`, `TaskEnds` |
| `agentStatus` after the end, `resolveTerminalPhase` | `StatusFetched`, `TerminalPhase` |
| the effects of `EditorView` in their order, `replaceSectionContent` | `ClearsSection`, `StreamsIn`, `FinishesSection`, `AsksTheUser`; `Replace` |
| the question, `dismissError` | `UserAnswers`, `Dismiss` |
| the restoration when the workspace mounts | `TasksListed`, `TaskRestored`, `RestoreEnds` |
| typing, serialization, saving; a structure mutation; leaving and coming back | `EntersText`, `EditorSerializes`, `StoreSaves`; `StructureLocks`, `SnapshotApplied`; `LeavesStage`, `LeavesProject`, `ComesBack`, `DocumentLoads` |

History variables: `before` and `known` are what had been typed when the generation was
asked for and, since then, when its end was judged; `overwritten` is what was typed since
and replaced without a question; `calm` holds while the user stays with the generation
and nothing else (another task of the chapter, a restoration, a structure mutation) is
under way.  The order that is assumed: the answer with a task's id comes before the
task's first event (the main process sends it first), and React runs the effects of one
event before the status of an ended task is fetched, which takes a call.  Saving and
structure mutations are steps of their own module (`DocumentAutosave`); here they are one
step each.  Left out: skeletons, source attribution and summaries after the end, other
chapters' tasks in the restored list.

### ChapterTree

A document is the sequence of its headings; a heading has a level, a title and
`id`, the section it was written for, which the code cannot see and the properties
can.  The index is a sequence of rows with parent, order and a locator (level,
title, occurrence).  An operation finds the heading its row's locator points to,
edits the sequence of headings, edits the tree, and pairs the two by position.

| Code | Model |
|---|---|
| `findMarkdownHeading`, `getSectionSubtreeBlock`, `findParentHeading`, `findPreviousSiblingHeading` | `Find`, `BlockEnd` and `Block`, `ParentHeading`, `PreviousHeading` |
| `buildChapterTree`, `rebuildSectionIndex` | `Kids`, `Preorder`; `Rebuilt` |
| `insertSibling`, `insertChild`, `indentSection`, `outdentSection` | `InsertSibling`, `InsertChild`, `Indent`, `Outdent` |
| `moveSubtree` with its three placements | `Move` |
| `updateTitle` with the recount of occurrences | `UpdateTitle` |
| what a soft deletion and its undo do to the outline | `SoftDelete`, `UndoDelete` with `RestoreAt`, `FinalizeWindow` |

Two history variables name what the code does not handle.  `tangled`: twins (same
level and title) were torn apart by a deletion or a move, or counted in an order
that is not the document's.  `touched`: another operation has run between a deletion
and its undo.  A tangled outline is not followed any further.  Operations do not
overlap here: the lock that sees to it is in `DocumentAutosave`.

### StructureDelete

Chapters are siblings, each for its whole subtree.  A handler of the main process
is a record in `calls` with the step it is at and what it has read; one step is one
awaited write.  The five stores are the document, the index, the annotations (which
are counted, because an undo appends them), the SQLite rows and the summaries.

| Code | Model |
|---|---|
| `requestSoftDelete` and its rollback | `DeleteRead`, `DeleteStage`, `DeleteSummaries`, `DeleteRows`, `DeleteSave`, `DeleteFlip`; `Rollback` |
| `replaceActiveEntriesWithStaged`, `flipStagedToActive`, `removeDeletionWindowAndOlderActiveEntries` | `StageEntry`, `FlipEntry`, `WindowAndOlder` |
| `undoDelete`, `runUndo` | `UndoFind` ... `UndoDrop`, `Restored` |
| `finalizeDelete`, `getActivePendingDeletion` | `FinalizeDelete`, `ListPending` |
| a step that throws | `Fail` |
| `cleanupPendingDeletionsOnStartup` | `Crash` copies the journal to `boot`, `CleanUp` |
| the renderer: delete with its flush, undo, five-second timer, project switch, answers | `ClickDelete`, `Flush`, `ClickUndo`, `FinalizeTimer`, `SwitchProject`, `OpenProject`, `Reply` |

Three history variables state what the properties except.  `gone`: chapters whose
journal entry was dropped for good.  `botched`: chapters whose undo was broken off
by a failure or a crash, that the start-up put back although they had not been cut out
yet (the crash came between the staging and the save), or that were deleted again when
a broken-off rollback had left their staged entry in the journal.  `UndoRestores` says
nothing of the place beside such a chapter either.  `rushed`: an undo
has overlapped a deletion or another undo, or was clicked in another project; the
undo takes no lock, so that each may save the document it has read over the
other's.  The service's comment that a deletion "rejects if any active Undo window
already exists" has no code behind it: an older window is replaced, and its entry
dropped, by `StageEntry`.

### DocxProcess

`frames` holds the three calls (start at boot, restart, stop at quit) and the await
each stands at.  A process is what the operating system knows of it: unborn,
booting, serving, deaf, gone (with an exit code) or slain (by a signal, after which
`child.exitCode` stays null).  `jobs` are the promise jobs that an 'exit' event
queues for its listeners; they run, in order, before any other event.

| Code | Model |
|---|---|
| `cleanup`, `spawnOnce`, the attempts of `startProcess` | `Killed`, `SpawnOnce`, `Rejected` |
| the data listener and what follows READY | `Prints`, `OnReady` |
| the exit listeners of `spawnOnce`, of the auto-restart, of `waitForExit` | `Exits`, then `RunJob` |
| `restartProcess`, `stopProcess` over its awaits | `Begins`, `ShutdownAnswered`, `WaitTimeout`, `Terminate`, `StopReturns` |
| the startup timer; the health check | `StartupTimeout`; `Tick`, `Probed` |
| start and stop of the application | `Boot`, `Quit` |

History variables: `gaveUp` (a start used up its attempts; nothing tries again),
`late` (a READY line was read that nobody waited for; its port makes the exit
listener of the next process believe that the start succeeded) and `calm` (nothing
was under way at quit).

### ChapterIdentity

A chapter is a number, and a v1 reference to it is the form it was written in
(locator key, title hash, template key, opaque).  The model has the two branches
(with a section index, and without one, where a progress file keeps the map), one
step per write, and a memo per session.

| Code | Model |
|---|---|
| `ensureMigrated` and its memo, the reads of `performMigration` | `Load` |
| `migrateSectionIndex` with `remapConfirmedSkeletons`; `resolveLegacyAliasMap` | `IndexMap`; `AliasMap` |
| the write of the sidecar, of the progress file, of the two files and SQLite | `WriteMeta`, `WriteProgress`, `RewriteStore` |
| the marker, in either branch, and for a project without ids | `Stamp`; `Remap`, `DropProgress`; `StampEmpty` |
| a step that throws; the end of the application | `StepThrows`; `Restarted` |

`wrote` remembers the form each store was written in.  `Known` are the forms a retry
can still map; an opaque id is forgotten when the indexed branch breaks off after
its first write.  `unscanned`: SQLite could not be read when a map was made, which
the code only logs.

### AdversarialReview

A task is a record in `reviews`: the await it stands at (`at`), the role it is about
or `Everyone`, the attempt, and what it has read (`copy` of the session, `seen`
findings).  A role answers with one finding or none; a contradiction is a pair of
findings.

| Code | Model |
|---|---|
| the executor of `startExecution` | `SaveSession`, `RolesBegin`, `RoleAnswers` (in any order), `Tally`, `Detect`, `Clear`, `Close`, `Store` |
| the executor of `retryRole` | `ReadSession`, `MarkRole`, `CallRole`, `DropFindings`, `InsertFindings`, `Reread`, `ResetGroups`, `DetectAgain`, `Finish` |
| its catch block | `ReadForError`, `Blame` |
| a throw, the queue's next attempt | `Throws` |
| the buttons of trigger, panel and finding | `StartReview`, `RetryRole`, `HandleFinding` |
| a database error, the queue's timeout, the end of the application | `Trips`, `Expires`, `Quits` |

`undisturbed` is a history variable: no mishap so far, and no task has met another
one.  Left out: sort orders, wording and locators of findings, the slots of the queue
(they delay a task), and who cancels.

### NestedTasks

The module extends `TaskQueue` and adds one variable, `polling`: a step is a step of the
queue in which `ExecutorEnds` has been given its reason.  Analysis `a` is the task
`<<a, 0>>`, the agent's task of its n-th attempt `<<a, n>>`.

| Code | Model |
|---|---|
| `enqueue` and `execute` of an analysis | `Request` |
| `agentOrchestrator.execute`: `enqueue`, then `execute` without await | `StartAgent`; the rest is `TaskQueue`'s |
| the polling loop: the row is final; the deadline; `throwIfAborted` | `PollEnds`; `Deadline`; `Heed` |
| the agent's executor | `AgentStep` |

`Untimed` are the analyses that poll without a deadline, `Deaf` those that do not look at
their signal.  In the code, source attribution and baseline validation are both;
extraction, seeds and mandatory items have a deadline and are deaf; fog map, matrix,
line-up and checklist have a deadline and listen.  No screen cancels or deletes one of
these tasks or retries it by hand, except for the fog map's (in `TenderAnalysis`).

### TenderAnalysis

A task is its number, and what it writes carries that number: the element `t` of
`db.reqs` stands for the requirements task `t` has created.  There is one section, so a
link is known by its requirements; it has a source and an id, because a generation gives
links new ids and the screen edits by id.  `screen` is the project's entry in the store;
its `tracked` are the task ids.

| Code | Model |
|---|---|
| `getTender`, `getRequirements`, `getFogMap`, `getMatrix` | `GetTender`, `GetReqs`, `GetFog`, `GetMatrix` |
| the buttons of the analysis view and what the store does before it awaits | `AskImport`, `AskExtraction`, `AskFog`, `AskMatrix`, `AskAddendum`; `CancelImport` |
| the services up to their answer | `Answer` |
| their executors, a write at a time | `ImportStep`, `ExtractionStep`, `FogStep`, `MatrixStep`, `AddendumStep` |
| `replaceAutoByProject`, `buildAutoLinks`; the snapshot file | `Replaced`, `Remaps`; `Snapshot` |
| `checkTaskStatus` of the monitor | `ImportEnds`; `Reads` and `Sets` of a completed task, `Failed` |
| `createLink`, `updateLink`, `deleteLink`, and the matrix read again | `CreateLink`, `UpdateLink`, `DeleteLink`; `Refreshes` |
| mounting the view | `Visit` |

Three history variables name what `ScreenTells` excepts, and TLC finds each exception
necessary.  `detached`: the store has let go of a task that runs on (a new import
replaces the project's state, a cancelled import deletes it, a mount during an import
ends its tracking) or that it is yet to track (a new import while the answer of another
request is under way, whose task the new state will track: then a later extraction can
leave the matrix of an earlier one's requirements on the screen, which a run of seven
tasks shows, and the proof of `ScreenAlwaysTells` cannot do without the exception).
`broken`: a task failed between two of its writes, or the view read nothing.
`overtaken`: a handler has set a matrix the user changed while it was reading
on; the next read of the matrix mends that.

Abstractions: one read and the `set` it leads to are one step, a handler that awaits
another answer in between is two; of the writes of one executor those that no reader
tells apart are one step, and a database or an agent fails once per step at most; an
addendum both changes requirements and adds some; the proposal has its section; the
automatic retries of import and fog map are the queue's business; while an answer is
under way the same button is not pressed again; a mount's reads are answered together.
Strategy seeds, mandatory items, confirmations and edits of requirements or scores are
left out.

## 3. Runs and bounds

| Run | Shows | Bounds |
|---|---|---|
| `Interference` | *queue*: slots are accounted for, no queued task and no caller waits for something that will not come (`NobodyWaitsInVain`: `QueuedOnlyWhenFull` and `NobodyForgotten`); *document*: no lost wake-up of the autosave, the file is not emptied before a file operation has failed | 3 tasks, 1 slot, 1 automatic retry, any three of: one cancel, one delete, one manual retry, one restart. Three tasks give a running one and a queue of two, so that removal from the middle of the queue and a burst of starts happen; they are interchangeable, and the symmetry is used. 2 pieces of text, 1 mutation, 1 failing file operation, 1 failing sidecar write, and any 2 of: leave, close, crash, echo, clear, retry |
| `TaskQueueLimit` | *violation*: more than `MaxConcurrency` tasks run | 3 tasks, 1 slot |
| `TaskQueueLostController` | *violation*: a retried attempt has no controller and no timer | 1 task |
| `Project` | *document*: a mutation overwrites nothing, `dirty = FALSE` can be trusted, tree and markdown agree, edits reach the disk, the lock is released; *tender*: a link the user made outlives generations, a tracked task ends, a quiet screen tells what the database holds; *nested*: an analysis that was asked for ends | 3 pieces of text, one there from the beginning, 1 mutation, 1 failing file operation, the editor emptied or a save retried twice; the user stays in the editor. A new project with 3 tasks and a mount, or one with requirements and a link and 2 more tasks; 1 edit, 1 failure: so that two tasks overlap, one of them with an edit, in every pair. 2 analyses, one of them without deadline and signal, 2 slots: both can hold a slot while their agents' tasks wait |
| `DocumentStaleTick` | *violation*: a left-over autosave tick overwrites a mutation | 1 echo, 1 mutation |
| `DocumentLeaving` | *violation*: leaving the editor loses the last second of typing | 1 text, 1 leave |
| `Work` | *queue*: the rows implement `TaskLifecycle`, the answer is what the row says, registered tasks finish, calls are answered; *batch*: no section is generated twice at once, the result is whole, generated text is not thrown away, the bar gives way to a result or an error; *section*: what was typed by the time the end is judged is not overwritten unasked, a generation the user stays with ends in its text, a question or an error; *review*: verdicts are kept, session, findings and badges agree after an undisturbed review | 2 tasks of which one has an executor at start-up, 1 slot, a delete and a restart; no cancel and no manual retry, which write the status whatever it is (`cancel` overwrites a status that has become final during its await). 3 sections, so that there is one to go on with after a skip in the middle; 1 automatic retry (the code has 3), so that a failure with and one without a retry left happen; 1 dispatch that fails; 2 clicks, one of them before the last was answered. 1 task of the chapter, which streams all it can, 1 piece of text, and 1 leave or structure mutation, so that each of them meets every phase. 2 roles, which is what a contradiction takes, 2 tasks, 1 repetition, 1 mishap |
| `NestedStall` | *violation*: a task whose timeout has fired goes on polling for ever | 2 analyses without deadline and signal, 2 slots |
| `SectionOverwritten` | *violation*: streamed text takes the place of what was typed since the generation was asked for | 1 task, 1 piece of text |
| `BatchImpatient` | *violation*: a second click on skip ends the batch on the screen while a section is generated | 2 sections, 2 clicks |
| `Services` | *deletion*: nothing is lost, the stores agree, an undo restores everything, a window closes; *outline*: sections keep their headings, an operation moves one subtree, an undo is exact; *docx*: no orphan, none after quit, it serves again; *identity*: one id per chapter and none shared, marked is migrated, the migration ends | 2 chapters, 2 clicks and 2 of: failed step, crash, project switch; 3 sections with 2 titles, one of them that of every inserted section, so that twins are common; 3 processes, 2 attempts, 2 failed probes (the code has 3), so that there is a process before and after the one that is restarted; 2 chapters to migrate, 2 failures or restarts |
| `TreeOrder` | *violation*: a move looks its target up in the document without the moved subtree, and a twin in that subtree was counted before | 3 sections, 2 titles |

Every bound is a constant spent by a guard: `MaxCancels`, `MaxDeletes`,
`MaxManualRetries`, `MaxRestarts`; `MaxFileFaults`, `MaxSidecarFaults`,
`MaxDisturbances` (with `Disturbances`, what they may be), `MaxFaults`, `MaxClicks`;
`MaxDeleteClicks`, `MaxTroubles`, `MaxMishaps`; `MaxReviews`, `MaxReviewRetries`,
`MaxReviewMishaps`; `MaxTasks` (`FreshTasks` in a new project), `MaxEdits`, `MaxVisits`,
`MaxAnalysisTroubles`; `NumTasks`, `MaxMoves`.  `MaxSections` limits the sections at a
time.  `MaxSpawns` is the number of processes there can be; after the last one the
interpreter is missing, which is one more failure the code handles.
`CHECK_DEADLOCK FALSE` is right everywhere: once all tasks are final, everything is
typed and saved, the batch has ended or waits for a click, the window is closed,
the outline is tangled, the application has quit, the project is migrated or the
reviews are over, the system waits for a user the bounds keep still.

What the passing runs *assume* by their bounds matters as much.
`NothingOverwritten` and `CleanIsSaved` hold without echoes, leaves and closes;
the violating run shows what one echo does, and two saves at once (a close or a
re-entry during a save) may pass each other between the sequence check and the
rename.  The document of `Project` has one mutation: with a second one, text typed during the
first flush is serialized after the snapshot, which arms the timer of a clean store,
and the second mutation meets the stale tick without any echo.  The properties of the batch in `Work` are stated for a user who waits for the
answer to a click (`~rushed`); the violating run shows what one impatient click
does.  `rushed` is a history variable, and `Click` lets the user be impatient once.
`Faulty` leaves out the dispatch of the next section by the chain: when it fails
the code only logs it, and the progress bar stays.  `FilesAligned` holds without crashes and sidecar failures, because the
sidecar and the markdown are two writes.  Of the deletion, `WindowCloses` needs the bound of 2 troubles: a switch of the
project, a finalize that fails behind it and a hydration that fails on the way back
leave the entry active until the next start of the application.  These limits are
listed as hazards.

`OneAtATime` says that of all tasks, retry timers and skips of a batch there is one at
a time.  It speaks of pairs and not of a count, which leaves the theorem about it free
of cardinalities.

### The eight violations

1. `_processQueue` tests a counter that only an awaited continuation increments,
   so that one free slot starts the whole queue.
2. The missing `await` above: a retried attempt can neither be cancelled nor
   time out.
3. `flushPendingContent` returns when nothing is dirty and leaves an armed timer
   armed; `saveDocument` does not look at the lock.
4. Unmounting the editor drops the pending serialization and the autosave timer.
5. The error bar's buttons stay enabled while a click is answered, and every
   answer to a skip that names no next task is taken for the end of the batch.
6. `moveSubtreeInMarkdown` resolves the drop locator again after the cut: the subtree
   lands after another heading than the tree says, and the pairing by position
   gives chapters each other's headings.
7. Source attribution and baseline validation poll for their agents' tasks without a
   deadline and without looking at their signal, each while it holds a slot.  Enough of
   them at once (every generated chapter starts both) stop the queue until the
   application is restarted; their timeouts abort signals nobody reads.
8. Streamed text replaces the whole section and takes the baseline of the final
   comparison with it: what was typed into the chapter meanwhile is gone unasked.

One more divergence has no run.  The panel of the review never learns which role is being
tried again (`retryingRoleId` is never passed), so that its button can be pressed twice:
two retries compute status and results from copies, and the one that fails writes the
failed role into a session the other has completed.  `WholeWhenAlone` is therefore stated
for reviews that meet no other.

Nor have three of the generation of a chapter, which lie outside `calm`.  The restoration
goes through the rows from the newest to the oldest and keeps the last one it looks at, so
that an old failure of a chapter covers a newer task.  Between the row of a running task
and the end of that loop the task's events are dropped (its entry is not set yet): if it
ends there, with another row still to be asked about, its bar stays.  And a text that is
put in while a structure mutation holds the lock is refused by the store and replaced in the
editor by the snapshot, while its task's row is deleted.

`PROJECT.json` quotes, under "findings", the document each one contradicts.

### Fairness

`TaskQueue!Fairness`: Node's event loop resumes each function whose database
operation has ended and fires each timer; an executor whose signal is aborted
gives up, as all agent handlers do at `throwIfAborted`.  `EndingSpec` adds that every
executor ends by itself (agent calls have time limits of their own); without
it the retried attempts, which have no timer, could run for ever.  Nothing is
assumed of users, of restarts or of deletions.

`DocumentAutosave!DocumentFairness`: the serialization and autosave timers fire, file
operations end, answers arrive, and a mutation goes on.  `FlushFails` is fair
only when an error is shown: its five-second limit is not needed to end.  Users
are not fair.

`BatchFairSpec`: every task ends (sub-chapter tasks have a time limit,
and a cancelled or failed one is answered), dispatches and deletions return,
timers fire.  One weak fairness condition on all of it is enough, because each
of these steps uses something up.  Clicks are not fair.

`SectionProgress`: calls are answered, the task ends (half an hour at most, or an error), the
effects run, a document that is asked for is loaded, a restoration goes on.  One condition
is enough for the same reason.  The user need not type, save, answer or come back.

`DeleteFairness`: a handler goes on, an answer is handled, a timer fires, the
start-up cleans up.  `DocxFairness`: timers and requests with a time limit end,
promise jobs run, a printed line is read; nothing makes a renderer print READY,
exit or hang.  `IdentityFairness`: a migration that started goes on, and a project
that is not migrated is loaded again, which every opening of it does.  Nothing is
assumed of reviews, of which only safety is stated.

`NestedFairness`: the event loop resumes the functions of every run and fires its timers,
those of the polling loops included; a call of the model ends, or the time limit of the
agent's task ends it.  `TenderFairness`: the main process answers, tasks go on, the monitor
polls and handles, the matrix is read again after an edit.  One weak fairness condition on
each kind is enough, because there are never endlessly many of such steps.  Nothing is
assumed of users.

## 4. Proofs

All theorems hold for every value of the constants; the assumptions on these
(`QueueAssumption`, `BatchAssumption`, ...) only say that they are numbers or finite
sets, and TLC evaluates them in the runs.  Two say a little more: a proposal has room for the
two sections it begins with (`TreeAssumption`), and the tasks of a queue of analyses are
theirs and their agents' (`NestedAssumption`).

### The task queue

`TaskQueueProofs` proves, for any finite set of tasks and calls, any
`MaxConcurrency > 0` and any bounds (the assumption `QueueAssumption`, which TLC
evaluates in every run), `TypeCorrect`, `SlotsAreAccounted`, `NoLostWakeUp` (the half of
`NobodyWaitsInVain` that is about the queue), `QueueHoldsWaitingRuns` and
`NobodyWaitsInVainOnceCalled`.

The inductive invariant is `TypeOK /\ SlotInv` with `SlotInv` the conjunction of
the other three, because none is inductive alone:

- `SlotsAccounted` counts runs by place.  An action that moves a set of queued runs
  (`ProcessQueue`) keeps the count only if what is in the queue holds no slot:
  `QueueOfWaiting`.
- `QueuedOnlyWhenFull` is at risk when a slot comes back.  `ProcessQueue` then
  empties the queue if a slot is free, and it is only by `SlotsAccounted` that the
  count it tests is the true one.
- `QueueOfWaiting` needs that a run is appended only from "finding", so never
  twice, and that `CancelRemove` takes out the run it ends.

The proof has one lemma per group of actions (`ExecuteFoundKeeps`,
`DequeuedFoundKeeps`, `RunStepKeeps`, `RemovalKeeps`), after the typing lemmas and two
facts on finite sets (`RunsFinite`, `HoldersFinite`) that the cardinalities rest on.

`NobodyWaitsInVainOnceCalled` is about the callers of `execute`, with every cancellation,
deletion, manual retry and restart.  A promise is settled by the run that was called or,
while it is queued, through the callbacks filed under its task.  The invariant `WaitInv`
says that a waiting caller is `Answerable` in one of these ways; each step of a run either
leaves the others alone and its own caller answerable, or tells it (`FairToAll`).  The
theorem assumes `[]OneRun`: a task is not executed again while an execution of it is under
way.  The code checks this nowhere and leaves it to its callers; a second `execute`
replaces the callbacks of the first, which is a hazard of the list.  Without cancellations
and manual retries `OneRun` is proved to hold, and with it the property
(`NobodyWaitsInVainUndisturbed`).

The second half of `TaskQueueProofs` shows that the queue implements `TaskLifecycle`
(`QueueImplementsLifecycle`, a property of the run `Work`), that a
caller is told what its row says (`ReportsMatchRows`) and that a first attempt keeps
its controller and timer (`FirstAttemptsAreAbortable`), on the assumption
`Undisturbed`: nobody cancels or retries by hand.  The assumption is that of the run;
a `cancel` writes the row whatever it has become, which is no step of the lifecycle.
The argument: a task has one run under way at a time (`OneRun`), so the row follows the
place of that run (`RowFollows`: pending before `MarkRunning`, running until the final
write); then the step of a run to its next place is the lifecycle's step of the row.
Callbacks and timers are filed under the run's own task (`Filed`), so an answer reaches
the caller it belongs to.

### The document

`DocumentAutosaveProofs` proves of the composition of editor, store, main process
and mutation, with all its failing writes, leaves, closes, crashes and echoes:
`AutosaveTypeCorrect`, `ChangesAreScheduled` (no unsaved change is asleep) and
`SavingIsNeverStuck`.  The inductive invariant adds that a sequence number names one
save (`SeqsOnce`), so that the awaited save is one save; that without a document on
the screen there is neither timer nor save to await (`QuietWhileAway`), so that an
answer of the last stay finds nothing to change; and that whatever changed since the
awaited save was begun is dirty (`DirtyIfChanged`), so that its answer schedules the
next.  `DocumentIsNeverEmptied` is about the shrink guard: if the document holds
something at first (`GuardLooks`), no save in any order, and no mutation, empties it
before an operation on the markdown file has failed.  A read that fails skips the
guard, and then only the store's own check is left: with one failing read and three
of the user's steps the model empties the file.

Three theorems are about what is on the disk: `CleanStoreIsSaved`, `NothingIsOverwritten`
and `FilesStayAligned`.  Their hypotheses exclude the ways in which TLC shows the properties
to break.  `Undamaged`: nobody closes the window over unsaved changes (its
synchronous write passes a save that is under way), and no sidecar write fails (`CleanIsSaved`
compares with a save that is answered after its sidecar).  `[]Orderly`, on the
behaviour: no document is loaded while one is saved or rewritten (`LoadsAlone`), and no
autosave timer is left over when the main process begins a mutation (`NoStaleTick`, which
`DocumentStaleTick` refutes for the code).  Leaves, crashes, echoes, clearing, retries, any
number of mutations and any failing operation on the document are allowed as long as they
do not bring these about.  The invariants:

- `CleanInv`: there is at most one save, and it is the store's latest or the mutation's
  (`OnlyLatest`); while a mutation is at work the store is clean and quiet
  (`BusyIsQuiet`); and the store's content, the disk's and that of the save under way
  differ only by what is dirty or on its way.
- `NothingMissing`: what is on the disk is in the content of every save and of the mutation,
  but for what the user has cleared.
- `Aligned`: which chapters the index names, at each place of a mutation and of its
  rollback; it needs the other two, because the markdown it is compared with is written by
  the store as well.

`CalmIsOrderly` removes the temporal hypothesis where it can be: one structure mutation
(`Calm`), in an editor that is not left, is always orderly, with crashes, failing files,
clearing and retries.  The argument is that a timer stands for a change
(`TimersMeanChanges`): until the mutation is sent, a running autosave timer means that the
store is dirty, so that the flush, which ends with a clean store, has stopped it.  With a
second mutation this is false without any echo (section 3).  `CalmDocument` collects the
three properties; its hypotheses are those of the run `Project`.

### The batch

`GenerationProofs` proves the five safety properties of the batch for any
number of sections, retries, clicks and failing dispatches.  The invariant `BInv`
describes the whole saga: as long as the user waits for answers, there is a frontier
`f` with the sections before it whole, those after it pending, and `f` in exactly one
of seven phases (being dispatched, generated, waiting for its retry, waiting for the
user, being skipped, purged with its batch, or lost by a dispatch nobody reports), or
the batch has ended.  Each action takes the frontier from one phase to another or to
the next section.  `BarIsMoved` needs the assumption that the chain's own dispatch does
not fail: the phase "lost" is the code's gap.  The others hold with it.

`BatchTypeCorrect` has no such condition: with an impatient user several tasks of a section
may be under way and nothing is sequential any more.  Ids are then chosen as the least number
nothing refers to, and the invariant `BatchTyped` adds what that needs: tasks and skips are
finite sets (`FreshIdIs`).

### The chapter and its user

`GenerationProofs` also proves `SectionTypeCorrect`, without any condition, and
`JudgedEditsAlwaysKept`, for any number of tasks, moves and pieces of text.  The property
speaks of two moments, the judgement (`known`) and the replacement (`overwritten`); in
between and before, the invariant `SectionInv` has to follow one task:

- An editor that can be typed into is ahead of the store (`EditorLeads`), so that the
  baseline, which is taken from the store, has nothing the user had not typed before he
  asked.  A status that is fetched is of a task that is still listened to, unless the task
  was deleted (`FetchedAreRouted`).
- While the user stays, one task at most is listened to.  `Follows` says what the entry
  shows by how far the task is: nothing streamed and an old baseline (`Unstreamed`), a
  draft, a drawn placeholder, whose patch may move the baseline to what the user has typed,
  or the whole text, which takes it back (`Composed`).  Before the end of a task is judged
  every effect has run (`EffectDue`), so that the baseline is old again: a text that
  equals the baseline, a streamed text or the generated one has nothing of the user's in
  it, and only such a text is replaced without a question.
- Once judged, nothing is on its way that could replace it: no task is listened to and
  nothing streamed is left to be put in (`Course`).

The patch is why the invariant is not simply that the baseline is old: between the
placeholder and the composed text it is not, and a task that ended there would lose what
was typed.  It cannot complete there.

### The docx bridge

`ServicesProofs` proves `NoRendererIsOrphaned` and `QuitLeavesNoRenderer`.  The
first is inductive once every call is seen either to leave the child alone or to
kill it before it forgets it (`Keep`, `Clean`).  The second needs to know that at a
quit with nothing under way a child has a port (`ChildHasPort`; otherwise the stop
might return at once without having set `intentionalStop`), that
no booting process is left whose READY could come later (`BootingIsAwaited`,
`ReadyHasBooted`), and that the jobs of an exit begin a restart first or not at all
(`BeginsFirst`).

### Chapter identity

`ServicesProofs` also proves `ChaptersHaveOneId` and `MarkedProjectsAreMigrated`, for
any number of chapters, failures and restarts.  With an index the ids are those of
the index from its first write on, and every attempt's map sends the known forms of
a chapter there (`IndexMapInv`, `IndexRefsInv`).  Without one they are those of the
progress file, which is written before any store and which every later map extends;
in it locator key and title hash never part (`AliasMapInv`, `ProgressInv`,
`AliasRefsInv`).  `SoFar` names the stores a step has behind it; they are rewritten
(`RewrittenInv`), and the marker comes when `SoFar` is all of them.

`OneIdPerChapter` also says that no two chapters share an id, which no v1 form is excepted
from.  That is `ApartInv`: every id that index, stores, progress file or map have of a chapter
(`Used`) is below the next one to be minted and is no other chapter's.  A step that mints
nothing only moves ids of a chapter about (`UsedStep`), and what `Load` mints for a chapter
lies in a range of its own (`FreshWithin`).  It rests on v1 ids of different chapters being
different strings: locator key and title hash carry the occurrence of a title, the keys of
templates and the other ids are taken to be unique.

### The adversarial review

`WorkProofs` proves `ReviewTypeCorrect`, `VerdictsAreKept` and
`QuietReviewsAreWhole`, for any roles, tasks, repetitions and mishaps.  `WholeWhenAlone`
speaks of the end only, so that the invariant `ReviewInv` has to say what the one
task under way has read, done and has still to do: `ReviewTyped` are the types, `Placed`
ties a place to what the task is about (a retry never stands in the full review's
places and the other way round), and `Calm` is the story of the sole task of an
undisturbed session, place by place.

### The tender analysis

`ProjectProofs` proves `TenderTypeCorrect`, which holds the foreign keys
(certainties and links belong to requirements that exist) and that a progress bar
belongs to a task of its kind, and `ManualLinksKept`, for any number of tasks, edits,
mounts and failures (`TenderAssumption`).  What makes the keys hard is an edit of a
matrix that is no longer true: the user changes a link by its id, and `TInv` has to say
that no link on any screen, nor in what a handler still holds (`held`), lacks an id
(`Cell`), so that an edit that is accepted finds a link, and with it a requirement.
`Shows` names the screens that track what is tracked, or less; only the answer of the
main process goes beyond it.  `ManualLinksKept` then follows from what a mapping may
replace (`ReplacedTyped`) and from the extraction, which leaves no requirement behind.

`ScreenAlwaysTells` proves `ScreenTells`.  The property speaks of the moments when nothing
is under way; `Story` says of every moment what the screen may owe, and to which task.
Every task under way is the one the store tracks for its kind (`Followed`), and a kind that
is asked for is not tracked (`Waits`), so that `Place(k)`, the place of the tracked task,
is all there is to know of a kind.  Each part of the screen then tells what the rows say
unless a task in a place after its write is still tracked (`TellsTender`, `TellsReqs`,
`TellsFog`, `TellsMatrix`), and what a handler still holds has not gone out of date
(`HeldIsFresh`).  Why no extraction can empty the rows behind a fog map, a mapping or an
addendum is in `Phase`: as long as no extraction is through there is nothing but the
tender (`Untouched`), and from then on the requirements are on the screen or on their way
to it, where they withhold the button of another one (`Extracted`); a new import is
withheld because the tender stays with them (`TenderStays`).  `Story` is claimed while
`detached` and `broken` are false, which no step makes them again (`IntactBefore`); `overtaken`
is a case of `TellsMatrix`, because the next read mends it.

### The deletion

`StructureDeleteProofs` proves the three safety properties of the deletion,
`NoChapterLost`, `StoresAlwaysAgree` and `UndoAlwaysRestores`, for any number of chapters,
clicks, failed steps, crashes and switches of the project.  They except what the model
names as the code's gaps (`gone`, `botched`, `rushed`) and nothing else.  The invariant
comes in five layers, each inductive with those before it:

- `Sane`, without any condition: the types, and that whatever carries the number of a
  deletion (journal entry, entry the start-up has read, handler, answer, window) carries
  the same chapter.  The numbers are fresh because a click uses one up.
- `Alone`: one handler writes at a time.  A deletion holds the lock from the click until
  its answer has been taken, and until the start-up is over nothing else runs.  This and
  what follows hold until an undo has overlapped (`~rushed`), because an undo takes no lock.
- `Safe`: what may be thrown away.  A number is open while a finalize of it may come, and
  no staged entry is (`Closed`); a handler that writes has read the document as it still
  is, its entry is in the journal while the chapter is cut out, and the chapter is back
  before the entry goes (`Places`).  `NothingLost` is what it says of a chapter that is
  not `gone` (`Kept`).
- `Tidy`: what the stores hold of each chapter that is not `botched`: all of it or nothing
  when no handler has it in hand (`Settled`), and else what the handler has left and put
  back so far (`DeletesWhole`, `RestoresWhole`).  An entry has kept all of its chapter
  (`Whole`); a document has a chapter once at most, without which cutting one out would
  leave another.  `StoresAgree` is its case without handlers and without an entry.
- `Ordered`: where a deleted chapter belongs.  At most one entry is active, and with the
  entry of a deletion or an undo under way it has a place: among the chapters of which the
  document says whether they exist, none stands between it and its previous sibling, and
  that sibling stands there (`Placed`).  An undo that saves then keeps the order of the
  siblings (`RestoredAscends`, a lemma about inserting into a sequence).

What the journal and the document look like after an operation is in lemmas about
sequences (`WithoutIs`, `InsertedIs`, `RemovedIs`, `RestoredIs`, `WindowIs`).  They are
proved without an induction theorem that takes an operator: a set of natural numbers that
is not empty has a least element (`LeastNumber`, from `WFMin` of the library), and the
first position at which a recursive function of the model would go wrong cannot exist
(`UpTo`).

### The outline

`ChapterTreeProofs` proves `SectionsAlwaysKeepHeadings`, `OneSubtreeAlwaysMoves`,
`UndosAreExact` and `TreeTypeCorrect`, for any number of sections and titles and any sequence
of operations.  The first is not inductive: an operation finds its place through the rows of
several sections at once (the section, its parent, its previous sibling, the drop target), so
that all of them must be right.  The invariant `TreeInv` has, besides the types:

- `Sound`, as long as nothing is tangled.  The headings are an `Outline` (no section twice, no
  level skipped); there is one row for each; every row has the level, title, occurrence and
  parent of its section's heading (`RowDescribes`); the orders of siblings follow the document,
  and so do twins in the array, because occurrences are counted along the array.
- `Window`: while a deletion can be undone and nothing else has run since, what was kept and
  what is left are those of one deletion of a sound outline (`Deleted`).

The argument follows the code, which edits the outline twice and pairs the two:

1. The tree a sound index stands for is that of its headings (`KidsIs`), and the preorder of
   the tree of an outline is the outline (`PreorderIs`).  The walk is a recursive function over
   levels; the proof goes up them one by one (`WalkStep`): the walk below a heading is the walks
   below its children, one after the other, and their stretches of the document join
   (`Chain`, `StretchesJoin`).
2. A subtree that is cut out leaves an outline and is one, and nothing but the parent of its
   first heading changes (`Apart`); its section taken out of the tree leaves the tree of what is
   left (`Detaching`).  A subtree put in at a place where a child of `q` goes, and its section
   put into the list of `q` at the index that splits the list there, give an outline and its
   tree (`Pasting`, `Attaching`).  Indent, outdent and move are a cut and a paste
   (`Regrafting`); an insertion pastes one heading (`Inserting`).
3. Each operation finds the right place: the previous sibling, the parent and the drop target
   found by their locators are those of the tree (`FindIs`, `PreviousIs`, `MoveIs`, ...).  For a
   move the target is looked up again after the cut; `Elsewhere` shows that it is found where
   it is unless a twin of it was in the subtree, which is what `tangled` records and the run
   `TreeOrder` shows.
4. When preorder and headings pair, the rows that `rebuildSectionIndex` writes are sound
   (`RebuiltIs`).  A renaming keeps the shape and counts occurrences anew (`RetitledIs`,
   `RetitledRowsIs`); a deletion keeps the rest sound if no twins are torn apart (`DeleteIs`),
   and its undo finds the old place after the previous sibling or the parent (`BackIs`,
   `UndoIs`).

`Sound` holds in every state of the run `Services`; `Window` quantifies over all indexes, which
TLC cannot, and is seen there through `UndoIsExact`.

For the proofs the operators of the model that picked by position or sorted (`Row`, `Place`,
`Kids`, the filters of rows) were restated without recursive library operators, by what they
return: the row with this id, the children ranked by order (`Arranged`), the rows kept in their
order (`RowsOf`).

### Tasks that start tasks

`NestedTasksAreClients` in `ProjectProofs`: every step of `NestedTasks` is a step of
`TaskQueue`, for any number of analyses, with or without deadlines and deaf or not, so that
what is proved of the queue is true of theirs (`NestedSlotsAccounted`).  What has to be shown
is that an analysis only starts tasks there are: its n-th attempt starts the agent's task `n`,
and `NestedBound` says that nobody counts an attempt beyond the retries, which without manual
retries depends on the count a run has read before it writes it back (`seen`).

### The compositions

`ServicesTypeCorrect`, `WorkTypeCorrect` and `ProjectTypeCorrect` prove the type invariants of
the three composed runs: the invariant of each part holds where it rests and is kept by its own
steps, whichever part moves.

### Only model-checked

- Every liveness property, which is out of the prover's reach.
- What is left of `NobodyWaitsInVain`, `CleanIsSaved`, `NothingOverwritten` and
  `FilesAligned` outside the hypotheses above; for the queue that is part of what
  `Interference` checks.

## 5. What is not modelled

Of what is modelled in part: seeds, mandatory items, line-up, checklist and attributions
are tasks without results (`NestedTasks`); the document model stops at the changes a content
contains (no layout, no annotations in the sidecar), the batch model leaves out the
restoration of statuses in a new renderer, the model of a chapter its skeleton, the outline model leaves out the text
under the headings, and section weights, baselines and the traceability snapshot go
with the stores they are rewritten with.

Not modelled at all: prompts, agents and model calls, document conversion, diagrams,
views, and single-row services, which have no behaviour over time of their own.
