--------------------------- MODULE SectionGeneration ---------------------------
(* The generation of one chapter while its user works on it: the entry of the *)
(* chapter in `statuses` (renderer, useChapterGeneration.ts), the effects of  *)
(* EditorView.tsx that put streamed and final text into the section           *)
(* (PlateEditor.tsx, replaceSectionContent), the question that is asked when  *)
(* the section was changed by hand, and the restoration of the entry when the *)
(* project is opened again.  In the main process: generateChapter and         *)
(* regenerateChapter (chapter-generation-service.ts) and what the agent       *)
(* streams (generate-agent.ts).                                               *)
(*                                                                            *)
(* A section's text is what an AI wrote into it, if anything, and what was    *)
(* typed since.  The rest of the document is left alone by all of this.       *)
(* React runs an effect before the next answer from the main process; the     *)
(* answer with a task's id comes before the first event of the task counts.   *)
EXTENDS Naturals

CONSTANTS Edits,     \* what the user types into the section, piece by piece
          NumTasks,  \* bounds: tasks there may be,
          MaxMoves   \* times the user goes elsewhere or changes the structure

ASSUME SectionAssumption == NumTasks \in Nat /\ MaxMoves \in Nat

TaskIds == 1..NumTasks

AiTexts == {"guidance", "empty", "nothing"} \X {0}
             \cup {"draft", "drawn", "final"} \X TaskIds
Text == [ai : AiTexts, typed : SUBSET Edits]

By(what, n) == [ai |-> <<what, n>>, typed |-> {}]
Empty   == By("empty", 0)
Nothing == By("nothing", 0)   \* undefined: equal to no text

\* isMarkdownSectionContentEmpty
IsEmpty(text) == text.ai[1] \in {"guidance", "empty"} /\ text.typed = {}

VARIABLES
  editor, store, disk, \* the section in Plate, in documentStore, in proposal.md
  pending,     \* the editor's serialization timer is set
  locked,      \* editingLocked: a structure mutation is under way
  view,        \* "writing" (EditorView), another "stage", or "away"
  loaded,      \* the document is loaded, in "writing" the Plate editor is there
  entry,       \* statuses.get(key); its phase is "none" when there is none
  routed,      \* taskToLocatorRef
  asking,      \* the call that asks for a generation
  jobs,        \* the tasks: how far they are and the baseline in their input
  fetching,    \* the agentStatus calls of ended tasks
  restore,     \* the restoration after mounting
  consumed, clearedKey, taken, \* EditorView's refs: last streamed revision put
               \* in, section cleared, terminal phase seen
  modal,       \* the text the user is asked about, Nothing when none
  before,      \* what had been typed when the generation was asked for
  known,       \* what had been typed since when the end of the task was judged
  overwritten, \* what was typed since and overwritten without asking
  calm,        \* since then the user has stayed and changed no structure, and
               \* it was asked for with no other task or restoration under way
  moves        \* what is left of the bound

texts == <<editor, store, disk, pending>>
refs  == <<consumed, clearedKey, taken>>
ghosts == <<before, known, overwritten, calm>>
hook  == <<entry, routed, fetching, restore>>
sectionVars == <<editor, store, disk, pending, locked, view, loaded, entry, routed,
                 asking, jobs, fetching, restore, consumed, clearedKey, taken,
                 modal, before, known, overwritten, calm, moves>>

Streaming == {"running", "draft", "drawn", "composed"}
Job == [at : {"none", "completed", "failed", "gone"} \cup Streaming,
        op : {"generate", "regenerate"}, base : Text]

Blank == [phase |-> "none", op |-> "generate", task |-> 0, base |-> Nothing,
          stream |-> Nothing, patch |-> FALSE, rev |-> 0, gen |-> Nothing]
Ended == {"completed", "conflicted", "failed"}

NoRestore == [at |-> "idle", left |-> {}, text |-> Nothing, found |-> Blank]
NoCall    == [op |-> "none", here |-> FALSE]

Active == view = "writing" /\ loaded

SectionInit ==
  /\ editor = By("guidance", 0) /\ store = editor /\ disk = editor /\ pending = FALSE
  /\ locked = FALSE /\ view = "writing" /\ loaded = TRUE
  /\ entry = Blank /\ routed = {} /\ asking = NoCall /\ fetching = {}
  /\ jobs = [n \in TaskIds |-> [at |-> "none", op |-> "generate", base |-> Nothing]]
  /\ restore = NoRestore
  /\ consumed = 0 /\ clearedKey = FALSE /\ taken = FALSE /\ modal = Nothing
  /\ before = {} /\ known = {} /\ overwritten = {} /\ calm = FALSE
  /\ moves = MaxMoves

-----------------------------------------------------------------------------
(* The user in the editor.  Operators named ...Mutant are plausible mistakes  *)
(* in the definition that follows them; they are not part of the system.      *)

Typed == editor.typed \cup store.typed \cup disk.typed \cup overwritten

EntersText(e) ==
  /\ Active /\ ~locked /\ modal = Nothing /\ e \notin Typed
  /\ editor' = [editor EXCEPT !.typed = @ \cup {e}] /\ pending' = TRUE
  /\ UNCHANGED <<store, disk, locked, view, loaded, hook, asking, jobs, refs, modal,
                 ghosts, moves>>

\* commitSerializedMarkdown; updateContent refuses it during a mutation.
EditorSerializes ==
  /\ pending /\ pending' = FALSE
  /\ store' = IF locked THEN store ELSE editor
  /\ UNCHANGED <<editor, disk, locked, view, loaded, hook, asking, jobs, refs, modal,
                 ghosts, moves>>

StoreSaves ==
  /\ view # "away" /\ loaded /\ disk # store
  /\ disk' = store
  /\ UNCHANGED <<editor, store, pending, locked, view, loaded, hook, asking, jobs,
                 refs, modal, ghosts, moves>>

\* A mutation of another chapter flushes and locks; the snapshot it comes back
\* with is what the main process has of this one.
StructureLocks ==
  /\ Active /\ ~locked /\ modal = Nothing
  /\ moves > 0 /\ moves' = moves - 1
  /\ locked' = TRUE /\ calm' = FALSE
  /\ store' = editor /\ disk' = editor /\ pending' = FALSE
  /\ UNCHANGED <<editor, view, loaded, hook, asking, jobs, refs, modal, before,
                 known, overwritten>>

SnapshotApplied ==
  /\ locked /\ locked' = FALSE
  /\ editor' = disk /\ store' = disk /\ pending' = FALSE
  /\ UNCHANGED <<disk, view, loaded, hook, asking, jobs, refs, modal, ghosts, moves>>

\* EditorView unmounts (resetDocument): what is not saved is gone, its refs too.
EditorGoes(to) ==
  /\ ~locked /\ modal = Nothing
  /\ moves > 0 /\ moves' = moves - 1
  /\ view' = to /\ loaded' = FALSE /\ calm' = FALSE
  /\ editor' = Empty /\ store' = Empty /\ pending' = FALSE
  /\ consumed' = 0 /\ clearedKey' = FALSE /\ taken' = FALSE
  /\ UNCHANGED <<disk, locked, jobs, modal, before, known, overwritten>>

LeavesStage ==
  /\ view = "writing" /\ EditorGoes("stage")
  /\ UNCHANGED <<hook, asking>>

\* The hook unmounts with the workspace; answers to it are lost.
LeavesProject ==
  /\ view # "away" /\ EditorGoes("away")
  /\ entry' = Blank /\ routed' = {} /\ fetching' = {} /\ restore' = NoRestore
  /\ asking' = [asking EXCEPT !.here = FALSE]

ComesBack ==
  /\ view # "writing" /\ view' = "writing" /\ loaded' = FALSE
  /\ restore' = IF view = "away" THEN [NoRestore EXCEPT !.at = "asked"] ELSE restore
  /\ UNCHANGED <<texts, locked, entry, routed, fetching, asking, jobs, refs, modal,
                 ghosts, moves>>

\* loadDocument, by EditorView or by the workspace.
DocumentLoads ==
  /\ view # "away" /\ ~loaded /\ loaded' = TRUE
  /\ store' = disk /\ editor' = IF view = "writing" THEN disk ELSE editor
  /\ UNCHANGED <<disk, pending, locked, view, hook, asking, jobs, refs, modal,
                 ghosts, moves>>

-----------------------------------------------------------------------------
(* Asking for a generation *)

\* startGeneration and startRegeneration up to their await.
Starts(op) ==
  /\ asking = NoCall /\ asking' = [op |-> op, here |-> TRUE]
  /\ \E n \in TaskIds : jobs[n].at = "none"
  /\ entry' = [Blank EXCEPT !.phase = "queued", !.op = op, !.base = store]
  /\ consumed' = 0
  /\ before' = editor.typed /\ known' = {} /\ calm' = (~locked /\ restore = NoRestore /\ routed = {})
  /\ UNCHANGED <<texts, locked, view, loaded, routed, jobs, fetching, restore,
                 clearedKey, taken, modal, overwritten, moves>>

\* The buttons of the heading.
AsksFor ==
  /\ Active /\ entry.phase = "none" /\ modal = Nothing
  /\ Starts(IF IsEmpty(store) THEN "generate" ELSE "regenerate")

\* The error bar: retry, or dismissError and manualEdit.
Retries == Active /\ entry.phase = "failed" /\ Starts(entry.op)

\* The entry and its task's row are deleted; the effects forget the entry.
Dismiss ==
  /\ entry' = Blank /\ routed' = routed \ {entry.task}
  /\ jobs' = [n \in TaskIds |->
               IF n = entry.task THEN [jobs[n] EXCEPT !.at = "gone"] ELSE jobs[n]]
  /\ consumed' = 0 /\ clearedKey' = FALSE /\ taken' = FALSE

DismissesError ==
  /\ Active /\ entry.phase = "failed" /\ Dismiss
  /\ UNCHANGED <<texts, locked, view, loaded, asking, fetching, restore, modal,
                 ghosts, moves>>

\* The answer's task id is not filed.
DispatchesMutant(n) ==
  /\ jobs[n].at = "none" /\ \A m \in 1..(n - 1) : jobs[m].at # "none"
  /\ asking.op = "generate" => IsEmpty(disk)
  /\ jobs' = [jobs EXCEPT ![n] = [at |-> "running", op |-> asking.op, base |-> disk]]
  /\ UNCHANGED <<routed, entry>>

\* The main process reads the document and dispatches the task, with the section
\* as it is on the disk for its baseline.
Dispatches(n) ==
  /\ jobs[n].at = "none" /\ \A m \in 1..(n - 1) : jobs[m].at # "none"
  /\ asking.op = "generate" => IsEmpty(disk)
  /\ jobs' = [jobs EXCEPT ![n] = [at |-> "running", op |-> asking.op, base |-> disk]]
  /\ IF asking.here
     THEN /\ routed' = routed \cup {n}
          /\ entry' = IF entry.phase = "none" THEN entry ELSE [entry EXCEPT !.task = n]
     ELSE UNCHANGED <<routed, entry>>

\* generateChapter refuses a chapter that has content; anything else may fail.
DispatchRefused ==
  /\ entry' = IF asking.here
              THEN [Blank EXCEPT !.phase = "failed", !.op = asking.op, !.base = entry.base]
              ELSE entry
  /\ UNCHANGED <<jobs, routed>>

\* While a call is under way its button is not pressed again.
CallAnswered ==
  /\ asking # NoCall /\ asking' = NoCall
  /\ (\E n \in TaskIds : Dispatches(n)) \/ DispatchRefused
  /\ UNCHANGED <<texts, locked, view, loaded, fetching, restore, refs, modal,
                 ghosts, moves>>

-----------------------------------------------------------------------------
(* The task and its events.  updateStatus changes nothing without an entry.   *)

Update(n, new) == entry' = IF n \in routed /\ entry.phase # "none" THEN new ELSE entry

\* runChapterDiagramPipeline: the text with a placeholder, the diagram as a
\* patch, the composed text, which is the draft when it has no diagrams.
Streams(n, from, to, what) ==
  /\ jobs[n].at = from /\ jobs' = [jobs EXCEPT ![n].at = to]
  /\ Update(n, [entry EXCEPT !.phase = "running", !.stream = By(what, n),
                             !.patch = (to = "drawn"), !.rev = entry.rev + 1])

TaskStreams(n) ==
  /\ \/ Streams(n, "running", "draft", "draft")
     \/ Streams(n, "draft", "drawn", "drawn")
     \/ Streams(n, "draft", "composed", "draft")
     \/ Streams(n, "drawn", "composed", "drawn")
  /\ UNCHANGED <<texts, locked, view, loaded, routed, asking, fetching, restore, refs,
                 modal, ghosts, moves>>

\* The baseline moves with every event.
TaskReportsMutant(n) ==
  /\ jobs[n].at \in Streaming /\ n \in routed /\ entry.phase # "none"
  /\ Update(n, [entry EXCEPT !.phase = "running", !.patch = FALSE, !.base = store])
  /\ UNCHANGED <<texts, locked, view, loaded, routed, asking, jobs, fetching, restore,
                 refs, modal, ghosts, moves>>

\* Progress without text.
TaskReports(n) ==
  /\ jobs[n].at \in Streaming /\ n \in routed /\ entry.phase # "none"
  /\ Update(n, [entry EXCEPT !.phase = "running", !.patch = FALSE])
  /\ UNCHANGED <<texts, locked, view, loaded, routed, asking, jobs, fetching, restore,
                 refs, modal, ghosts, moves>>

\* A chapter without diagrams ends without having streamed.
TaskEnds(n, how) ==
  /\ jobs[n].at \in Streaming
  /\ how = "completed" => jobs[n].at \in {"running", "composed"}
  /\ jobs' = [jobs EXCEPT ![n].at = how]
  /\ fetching' = IF n \in routed THEN fetching \cup {n} ELSE fetching
  /\ UNCHANGED <<texts, locked, view, loaded, entry, routed, asking, restore, refs,
                 modal, ghosts, moves>>

\* resolveTerminalPhase
TerminalPhase(current, base, stream, final) ==
  IF current \in {base, stream, final} THEN "completed" ELSE "conflicted"

-----------------------------------------------------------------------------
(* The effects of EditorView, in their order *)

\* replaceSectionContent, in the editor and, through updateContent, in the store.
Replace(new, unasked) ==
  /\ editor' = new /\ pending' = FALSE
  /\ store' = IF locked THEN store ELSE new
  /\ overwritten' = overwritten \cup (unasked \ (new.typed \cup before))

ClearDue == /\ entry.op = "regenerate" /\ ~clearedKey
            /\ entry.stream = Nothing /\ entry.gen = Nothing
            /\ entry.phase \notin Ended \cup {"none"}

\* The old text goes when a regeneration starts; notifySectionCleared.
ClearsSection ==
  /\ Active /\ ClearDue /\ clearedKey' = TRUE
  /\ Replace(Empty, editor.typed)
  /\ entry' = [entry EXCEPT !.base = Empty]
  /\ UNCHANGED <<disk, locked, view, loaded, routed, asking, jobs, fetching, restore,
                 consumed, taken, modal, before, known, calm, moves>>

\* applyDiagramPatchToSection finds its placeholder in the text of the store.
Patches == entry.patch => store.ai[1] = "draft"
StreamDue == entry.rev # consumed /\ entry.stream # Nothing /\ Patches

\* A patch keeps what is typed around the placeholder; advanceBaseline.
StreamsIn ==
  /\ Active /\ ~ClearDue /\ StreamDue /\ consumed' = entry.rev
  /\ Replace([entry.stream EXCEPT !.typed = IF entry.patch THEN store.typed ELSE {}],
             editor.typed)
  /\ entry' = [entry EXCEPT !.base = store']
  /\ UNCHANGED <<disk, locked, view, loaded, routed, asking, jobs, fetching, restore,
                 clearedKey, taken, modal, before, known, calm, moves>>

\* The generated text goes in and the entry is dismissed.
FinishesSection ==
  /\ Active /\ ~ClearDue /\ ~StreamDue
  /\ entry.phase = "completed" /\ ~taken
  /\ Replace(entry.gen, editor.typed) /\ Dismiss
  /\ UNCHANGED <<disk, locked, view, loaded, asking, fetching, restore, modal, before,
                 known, calm, moves>>

AsksTheUser ==
  /\ Active /\ ~ClearDue /\ ~StreamDue
  /\ entry.phase = "conflicted" /\ ~taken
  /\ taken' = TRUE /\ modal' = entry.gen
  /\ UNCHANGED <<texts, locked, view, loaded, hook, asking, jobs, consumed, clearedKey,
                 ghosts, moves>>

\* modal.confirm: replace, or keep what was typed.
UserAnswers(replace) ==
  /\ modal # Nothing /\ modal' = Nothing /\ Dismiss
  /\ IF replace THEN Replace(modal, {}) ELSE UNCHANGED <<editor, store, pending, overwritten>>
  /\ UNCHANGED <<disk, locked, view, loaded, asking, fetching, restore, before, known,
                 calm, moves>>

EffectDue == Active /\ \/ ClearDue \/ StreamDue
                       \/ entry.phase \in {"completed", "conflicted"} /\ ~taken

\* The answer of agentStatus for a task that has ended.  A deleted one has none.
StatusFetched(n) ==
  /\ n \in fetching /\ fetching' = fetching \ {n} /\ ~EffectDue
  /\ LET final == By("final", n) IN
     \/ /\ jobs[n].at = "completed"
        /\ Update(n, [entry EXCEPT !.gen = final,
             !.phase = TerminalPhase(store, entry.base, entry.stream, final)])
     \/ jobs[n].at = "failed" /\ Update(n, [entry EXCEPT !.phase = "failed"])
     \/ jobs[n].at = "gone" /\ UNCHANGED entry
  /\ routed' = IF jobs[n].at = "gone" THEN routed ELSE routed \ {n}
  /\ known' = IF jobs[n].at = "completed" THEN store.typed \ before ELSE known
  /\ UNCHANGED <<texts, locked, view, loaded, asking, jobs, restore, refs, modal,
                 before, overwritten, calm, moves>>

-----------------------------------------------------------------------------
(* The restoration when the workspace mounts *)

Stored == {n \in TaskIds : jobs[n].at \notin {"none", "gone"}}

\* taskList and documentLoad.
TasksListed ==
  /\ restore.at = "asked"
  /\ restore' = [at |-> "rows", left |-> Stored, text |-> disk, found |-> Blank]
  /\ UNCHANGED <<texts, locked, view, loaded, entry, routed, fetching, asking, jobs,
                 refs, modal, ghosts, moves>>

\* agentStatus of the next one, the latest task first; what is found for an
\* earlier task replaces what was found for a later one.
TaskRestored == \E n \in restore.left :
  /\ restore.at = "rows" /\ \A m \in restore.left : m <= n
  /\ LET r == jobs[n]
         known_ == [Blank EXCEPT !.op = r.op, !.task = n, !.base = r.base]
         found == CASE r.at = "gone" -> restore.found
                    [] r.at = "failed" -> [known_ EXCEPT !.phase = "failed"]
                    [] r.at = "completed" ->
                         [known_ EXCEPT !.gen = By("final", n), !.phase =
                            TerminalPhase(restore.text, r.base, Nothing, By("final", n))]
                    [] OTHER -> [known_ EXCEPT !.phase = "running"]
     IN /\ restore' = [restore EXCEPT !.left = @ \ {n}, !.found = found]
        /\ routed' = IF r.at \in Streaming THEN routed \cup {n} ELSE routed
  /\ UNCHANGED <<texts, locked, view, loaded, entry, fetching, asking, jobs, refs,
                 modal, ghosts, moves>>

\* An entry that has come in the meantime stays.
RestoreEnds ==
  /\ restore.at = "rows" /\ restore.left = {} /\ restore' = NoRestore
  /\ entry' = IF entry.phase = "none" THEN restore.found ELSE entry
  /\ UNCHANGED <<texts, locked, view, loaded, routed, fetching, asking, jobs, refs,
                 modal, ghosts, moves>>

-----------------------------------------------------------------------------
SectionEffect == ClearsSection \/ StreamsIn \/ FinishesSection \/ AsksTheUser

Ends(n) == \E how \in {"completed", "failed"} : TaskEnds(n, how)

SectionNext ==
  \/ \E e \in Edits : EntersText(e)
  \/ EditorSerializes \/ StoreSaves \/ StructureLocks \/ SnapshotApplied
  \/ LeavesStage \/ LeavesProject \/ ComesBack \/ DocumentLoads
  \/ AsksFor \/ Retries \/ DismissesError \/ CallAnswered
  \/ \E n \in TaskIds : TaskStreams(n) \/ TaskReports(n) \/ Ends(n) \/ StatusFetched(n)
  \/ SectionEffect \/ \E replace \in BOOLEAN : UserAnswers(replace)
  \/ TasksListed \/ TaskRestored \/ RestoreEnds

\* Calls are answered, tasks end (they have a time limit), effects run.
SectionProgress ==
  \/ CallAnswered \/ SectionEffect \/ SnapshotApplied \/ DocumentLoads
  \/ \E n \in TaskIds : Ends(n) \/ StatusFetched(n)
  \/ TasksListed \/ TaskRestored \/ RestoreEnds

SectionSpec == SectionInit /\ [][SectionNext]_sectionVars /\ WF_sectionVars(SectionProgress)

-----------------------------------------------------------------------------
Phases == {"none", "queued", "running", "completed", "conflicted", "failed"}

\* The variables keep their types; what streams in has no typed text.
SectionTypeOK ==
  /\ {editor, store, disk} \subseteq Text /\ modal \in Text
  /\ {pending, locked, loaded, clearedKey, taken, calm} \subseteq BOOLEAN
  /\ view \in {"writing", "stage", "away"} /\ consumed \in Nat /\ moves \in 0..MaxMoves
  /\ entry \in [phase : Phases, op : {"generate", "regenerate"}, task : {0} \cup TaskIds,
                base : Text, stream : Text, patch : BOOLEAN, rev : Nat, gen : Text]
  /\ entry.stream.typed = {} /\ entry.gen.typed = {}
  /\ routed \cup fetching \subseteq TaskIds /\ jobs \in [TaskIds -> Job]
  /\ asking \in [op : {"none", "generate", "regenerate"}, here : BOOLEAN]
  /\ restore.at \in {"idle", "asked", "rows"} /\ restore.left \subseteq TaskIds
  /\ before \cup known \cup overwritten \subseteq Edits

\* What the user had typed into the section by the time the end of the task was
\* judged is not replaced by the generated text unless the user says so, as
\* long as the user stays in the editor and changes no structure
\* (resolveTerminalPhase and the baselines the effects move).
JudgedEditsKept == calm => known \cap overwritten = {}

\* What is typed into the section after its generation was asked for is never
\* overwritten without a question (story 3-4, AC 7).  It is: a streamed text
\* replaces the section whatever is in it.
NeverSilently == overwritten = {}

\* A generation the user stays with ends: its text is put in, or the user is
\* asked about it, or its failure is shown (useChapterGeneration's events,
\* EditorView's effects).
Going == {"queued", "running", "completed"}

SectionSettles == (calm /\ entry.phase \in Going) ~> (~calm \/ entry.phase \notin Going)
=============================================================================
