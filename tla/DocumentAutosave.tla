-------------------------- MODULE DocumentAutosave --------------------------
(* One proposal document in the renderer and in the main process: the editor  *)
(* (PlateEditor.tsx, useDocument.ts), the document store with its autosave    *)
(* (stores/documentStore.ts), a structure mutation that flushes the store,    *)
(* locks it and rewrites the document in the main process                     *)
(* (stores/chapterStructureStore.ts, chapter-structure-service.ts), and the   *)
(* file they share (DocumentFile).                                            *)
(*                                                                            *)
(* A token or version is only ever compared with the latest one, so that an   *)
(* outdated request is simply one the store does not await any more.          *)
EXTENDS DocumentFile

CONSTANTS Typed,      \* what the user types, piece by piece
          Mutations,  \* the structure mutations the user asks for
          Skeleton,   \* what the document contains to begin with
          Disturbances, MaxDisturbances \* bounds: what else may happen

ASSUME AutosaveAssumption ==
  /\ Typed \cap Mutations = {} /\ Changes = Typed \cup Mutations
  /\ Skeleton \subseteq Typed
  /\ Disturbances \subseteq {"leave", "close", "crash", "echo", "clear", "retry"}
  /\ MaxDisturbances \in Nat

VARIABLES
  view,         \* "writing" when EditorView is mounted
  editor,       \* the value of the Plate editor
  unserialized, \* serializeTimerRef or idleCallbackRef is set
  content, loaded, loading,      \* the store: content, loadedProjectId, loading
  dirty, saving, error,          \* the store: autoSave
  timer,        \* debounceTimer
  queued,       \* saveQueuedWhileSaving
  awaited,      \* the save with the latest token, 0 when there is none
  load,         \* the load with the latest version: "none", "asked" or "read"
  got,          \* what it has read
  locked,       \* editingLocked
  mut,          \* the structure mutation: where it is, whose it is, ...
  index,        \* the mutations in proposal.meta.json's sectionIndex
  done,         \* the changes that have been made
  cleared,      \* those the user has taken out of the editor again
  mayDisturb    \* what is left of the bounds

autoSave  == <<dirty, saving, error, timer, queued, awaited>>
editorVars == <<editor, unserialized>>
loadVars  == <<loading, load, got>>
mutVars   == <<mut, index, locked>>
history   == <<done, cleared>>
documentVars ==
  <<proposal, sequence, saves, faults, view, editor, unserialized, content,
    loaded, loading, dirty, saving, error, timer, queued, awaited, load, got,
    locked, mut, index, done, cleared, mayDisturb>>

\* The renderer's half ("flush"), then the main process's, then the answer.
MutationPlaces == {"idle", "flush", "load", "index", "saving", "rollback",
                   "ok", "error"}
Idle == [at |-> "idle", heard |-> TRUE, base |-> {}, new |-> {}]

Mounted == view = "writing" /\ loaded /\ ~loading   \* the Plate editor is there

Disturb(what) == /\ what \in Disturbances /\ mayDisturb > 0
                 /\ mayDisturb' = mayDisturb - 1

DocumentInit ==
  /\ FileInit /\ proposal = Skeleton
  /\ view = "writing"
  /\ editor = {} /\ unserialized = FALSE
  /\ content = {} /\ loaded = FALSE
  /\ loading = TRUE /\ load = "asked" /\ got = {}
  /\ dirty = FALSE /\ saving = FALSE /\ error = FALSE
  /\ timer = FALSE /\ queued = FALSE /\ awaited = 0
  /\ locked = FALSE /\ mut = Idle /\ index = {}
  /\ done = Skeleton /\ cleared = {}
  /\ mayDisturb = MaxDisturbances

-----------------------------------------------------------------------------
(* The editor *)

Types(change) ==
  /\ Mounted /\ ~locked /\ change \in Typed \ done
  /\ editor' = editor \cup {change}
  /\ done' = done \cup {change}
  /\ unserialized' = TRUE
  /\ UNCHANGED <<cleared, fileVars, view, content, loaded, loadVars, autoSave, mutVars,
                 mayDisturb>>

\* The user types something and takes it back, or Plate reports the value it
\* was just given as a change.
Echoes ==
  /\ Mounted /\ ~locked
  /\ Disturb("echo")
  /\ unserialized' = TRUE
  /\ UNCHANGED <<fileVars, view, editor, content, loaded, loadVars, autoSave,
                 mutVars, history>>

\* The editor is emptied.
Clears ==
  /\ Mounted /\ ~locked
  /\ Disturb("clear")
  /\ editor' = {} /\ cleared' = cleared \cup editor
  /\ unserialized' = TRUE
  /\ UNCHANGED <<fileVars, view, content, loaded, loadVars, autoSave, mutVars,
                 done>>

\* The lock of a structure mutation is not looked at.
UpdateContentMutant(new, schedule) ==
  IF Collapses(content, new)
  THEN UNCHANGED <<content, dirty, error, timer>>
  ELSE /\ content' = new
       /\ dirty' = (dirty \/ content # new)
       /\ error' = FALSE
       /\ timer' = (timer \/ schedule)

\* updateContent, up to scheduleSave; `schedule` is false for the last flush.
UpdateContent(new, schedule) ==
  IF locked \/ Collapses(content, new)
  THEN UNCHANGED <<content, dirty, error, timer>>
  ELSE /\ content' = new
       /\ dirty' = (dirty \/ content # new)
       /\ error' = FALSE
       /\ timer' = (timer \/ schedule)

\* The serialization timer of the editor fires (commitSerializedMarkdown).
Serializes ==
  /\ unserialized /\ Mounted
  /\ unserialized' = FALSE
  /\ UpdateContent(editor, TRUE)
  /\ UNCHANGED <<fileVars, view, editor, loaded, loadVars, saving, queued,
                 awaited, mutVars, history, mayDisturb>>

-----------------------------------------------------------------------------
(* The store *)

\* A save that comes while another is in flight is dropped.
SaveDocumentMutant ==
  IF saving
  THEN UNCHANGED <<fileVars, saving, error, queued, awaited>> /\ timer' = FALSE
  ELSE /\ Submit("store", content)
       /\ saving' = TRUE /\ error' = FALSE /\ timer' = FALSE
       /\ awaited' = sequence + 1
       /\ UNCHANGED <<proposal, faults, queued>>

\* saveDocument up to its await.  (The timer that called it is gone, too.)
SaveDocument ==
  IF saving
  THEN /\ queued' = TRUE /\ timer' = FALSE
       /\ UNCHANGED <<fileVars, saving, error, awaited>>
  ELSE /\ Submit("store", content)
       /\ saving' = TRUE /\ error' = FALSE /\ timer' = FALSE
       /\ awaited' = sequence + 1
       /\ UNCHANGED <<proposal, faults, queued>>

AutosaveFires ==
  /\ timer
  /\ SaveDocument
  /\ UNCHANGED <<view, editorVars, content, loaded, loadVars, dirty, mutVars,
                 history, mayDisturb>>

\* The retry button of AutoSaveIndicator.
UserRetries ==
  /\ error /\ view = "writing"
  /\ Disturb("retry")
  /\ SaveDocument
  /\ UNCHANGED <<view, editorVars, content, loaded, loadVars, dirty, mutVars,
                 history>>

Answered(by) == {s \in saves : s.by = by /\ s.at \in {"ok", "error"}}

\* saveQueuedWhileSaving is cleared before it is read.
SaveAnsweredMutant(s) ==
  /\ saves' = saves \ {s}
  /\ IF s.seq # awaited
     THEN UNCHANGED autoSave
     ELSE /\ saving' = FALSE /\ awaited' = 0 /\ queued' = FALSE
          /\ error' = (s.at = "error")
          /\ dirty' = IF s.at = "ok" THEN content # s.content ELSE dirty
          /\ UNCHANGED timer
  /\ UNCHANGED <<proposal, sequence, faults, view, editorVars, content,
                 loaded, loadVars, mutVars, history, mayDisturb>>

\* saveDocument after its await: the result, then the finally block.
SaveAnswered(s) ==
  /\ saves' = saves \ {s}
  /\ IF s.seq # awaited
     THEN UNCHANGED autoSave
     ELSE LET changed == content # s.content IN
          /\ saving' = FALSE /\ awaited' = 0 /\ queued' = FALSE
          /\ error' = (s.at = "error")
          /\ dirty' = IF s.at = "ok" THEN changed ELSE dirty
          /\ timer' = (timer \/ (queued /\ dirty' /\ changed))
  /\ UNCHANGED <<proposal, sequence, faults, view, editorVars, content,
                 loaded, loadVars, mutVars, history, mayDisturb>>

\* resetAutoSaveQueue and the next token
DropQueue == timer' = FALSE /\ queued' = FALSE /\ awaited' = 0

CleanSlate == DropQueue /\ dirty' = FALSE /\ saving' = FALSE /\ error' = FALSE

\* loadDocument up to its await
AskLoad == loading' = TRUE /\ load' = "asked" /\ got' = {}

\* documentService.load in the main process, or its failure
LoadReads ==
  /\ load = "asked"
  /\ \/ load' = "read" /\ got' = proposal /\ UNCHANGED <<loading, loaded, faults>>
     \/ Fails("file") /\ load' = "none" /\ loading' = FALSE /\ loaded' = FALSE
        /\ UNCHANGED got
  /\ UNCHANGED <<proposal, sequence, saves, view, editorVars, content,
                 autoSave, mutVars, history, mayDisturb>>

\* The rest of loadDocument.
LoadAnswered ==
  /\ load = "read"
  /\ load' = "none" /\ loading' = FALSE /\ loaded' = TRUE
  /\ content' = got
  /\ editor' = IF view = "writing" THEN got ELSE {}
  /\ dirty' = FALSE /\ saving' = FALSE /\ error' = FALSE
  /\ UNCHANGED <<fileVars, view, unserialized, timer, queued, awaited, got,
                 mutVars, history, mayDisturb>>

\* The retry button of a document that could not be loaded, or a new visit.
LoadsAgain ==
  /\ ~loaded /\ ~loading
  /\ DropQueue /\ AskLoad
  /\ UNCHANGED <<fileVars, view, editorVars, content, loaded, dirty, saving,
                 error, mutVars, history, mayDisturb>>

-----------------------------------------------------------------------------
(* A structure mutation *)

\* acquireMutationLock, at the head of runMutation
MutationStarts(m) ==
  /\ mut.at = "idle" /\ loaded /\ m \in Mutations \ done
  /\ done' = done \cup {m} /\ UNCHANGED cleared
  /\ mut' = [Idle EXCEPT !.at = "flush", !.new = {m}]
  /\ locked' = TRUE
  /\ UNCHANGED <<fileVars, view, editorVars, content, loaded, loadVars,
                 autoSave, index, mayDisturb>>

Release == mut' = Idle /\ locked' = FALSE

\* The flush forgets what was not sent yet.
FlushOverMutant == ~loaded \/ (~error /\ ~saving)

FlushOver == ~loaded \/ (~error /\ ~dirty /\ ~saving)

\* flushPendingContent finds nothing to save: the call to the main process.
MutationCalls ==
  /\ mut.at = "flush" /\ FlushOver
  /\ mut' = [mut EXCEPT !.at = "load"]
  /\ UNCHANGED <<fileVars, view, editorVars, content, loaded, loadVars,
                 autoSave, index, locked, history, mayDisturb>>

\* flushPendingContent drives a save.
FlushSaves ==
  /\ mut.at = "flush" /\ loaded /\ ~error /\ dirty /\ ~saving
  /\ SaveDocument
  /\ UNCHANGED <<view, editorVars, content, loaded, loadVars, dirty, mutVars,
                 history, mayDisturb>>

\* It gives up: a save has failed, or five seconds are over.
FlushFails ==
  /\ mut.at = "flush" /\ ~FlushOver
  /\ Release
  /\ UNCHANGED <<fileVars, view, editorVars, content, loaded, loadVars,
                 autoSave, index, history, mayDisturb>>

\* applyStructureMutation reads the document ...
MutationLoads ==
  /\ mut.at = "load"
  /\ \/ mut' = [mut EXCEPT !.at = "index", !.base = proposal] /\ UNCHANGED faults
     \/ Fails("file") /\ mut' = [mut EXCEPT !.at = "error"]
  /\ UNCHANGED <<proposal, sequence, saves, view, editorVars, content, loaded,
                 loadVars, autoSave, index, locked, history, mayDisturb>>

\* ... commits the new sectionIndex and calls save.
MutationIndexes ==
  /\ mut.at = "index"
  /\ \/ /\ index' = index \cup mut.new
        /\ Submit("structure", mut.base \cup mut.new)
        /\ mut' = [mut EXCEPT !.at = "saving"]
        /\ UNCHANGED faults
     \/ /\ Fails("sidecar")
        /\ mut' = [mut EXCEPT !.at = "error"]
        /\ UNCHANGED <<index, sequence, saves>>
  /\ UNCHANGED <<proposal, view, editorVars, content, loaded, loadVars,
                 autoSave, locked, history, mayDisturb>>

MutationSaved(s) ==
  /\ mut.at = "saving"
  /\ saves' = saves \ {s}
  /\ mut' = [mut EXCEPT !.at = IF s.at = "ok" THEN "ok" ELSE "rollback"]
  /\ UNCHANGED <<proposal, sequence, faults, view, editorVars, content,
                 loaded, loadVars, autoSave, index, locked, history, mayDisturb>>

\* The error is reported and the new sectionIndex stays.
MutationRollsBackMutant ==
  /\ mut.at = "rollback"
  /\ mut' = [mut EXCEPT !.at = "error"]
  /\ UNCHANGED <<fileVars, view, editorVars, content, loaded, loadVars,
                 autoSave, index, locked, history, mayDisturb>>

\* The save has failed: the sectionIndex is set back, if that succeeds.
MutationRollsBack ==
  /\ mut.at = "rollback"
  /\ \/ index' = index \ mut.new /\ UNCHANGED faults
     \/ Fails("sidecar") /\ UNCHANGED index
  /\ mut' = [mut EXCEPT !.at = "error"]
  /\ UNCHANGED <<proposal, sequence, saves, view, editorVars, content, loaded,
                 loadVars, autoSave, locked, history, mayDisturb>>

\* applyStructureSnapshot; a load in flight becomes outdated.
ApplySnapshot(new) ==
  IF loaded
  THEN /\ content' = new
       /\ editor' = IF view = "writing" /\ ~loading THEN new ELSE editor
       /\ load' = "none" /\ got' = {}
       /\ CleanSlate
  ELSE UNCHANGED <<content, editor, load, got, autoSave>>

\* Only a mutation that succeeds gives the lock back.
MutationAnsweredMutant ==
  /\ mut.at \in {"ok", "error"}
  /\ IF mut.heard /\ mut.at = "ok"
     THEN ApplySnapshot(mut.base \cup mut.new) /\ locked' = FALSE
     ELSE UNCHANGED <<content, editor, load, got, autoSave, locked>>
  /\ mut' = Idle
  /\ UNCHANGED <<fileVars, view, unserialized, loaded, loading, index, history,
                 mayDisturb>>

\* The answer reaches the renderer, which releases the lock.
MutationAnswered ==
  /\ mut.at \in {"ok", "error"}
  /\ IF mut.heard /\ mut.at = "ok"
     THEN ApplySnapshot(mut.base \cup mut.new)
     ELSE UNCHANGED <<content, editor, load, got, autoSave>>
  /\ mut' = Idle
  /\ locked' = FALSE
  /\ UNCHANGED <<fileVars, view, unserialized, loaded, loading, index, history,
                 mayDisturb>>

-----------------------------------------------------------------------------
(* Coming and going *)

\* EditorView is unmounted: the serialization timer is cleared and the store
\* reset, and the workspace loads the document again.
Leaves ==
  /\ view = "writing"
  /\ Disturb("leave")
  /\ view' = "elsewhere" /\ editor' = {} /\ unserialized' = FALSE
  /\ content' = {} /\ loaded' = FALSE
  /\ CleanSlate /\ AskLoad
  /\ locked' = FALSE
  /\ UNCHANGED <<fileVars, mut, index, history>>

\* EditorView is mounted.
Enters ==
  /\ view = "elsewhere"
  /\ view' = "writing" /\ editor' = {}
  /\ DropQueue /\ AskLoad
  /\ UNCHANGED <<fileVars, unserialized, content, loaded, dirty, saving, error,
                 mutVars, history, mayDisturb>>

\* A renderer that has just started.
NewRenderer ==
  /\ view' = "writing" /\ editor' = {} /\ unserialized' = FALSE
  /\ content' = {} /\ loaded' = FALSE
  /\ CleanSlate /\ AskLoad
  /\ locked' = FALSE

\* The beforeunload handler: the last value of the editor is flushed into the
\* store and, if anything is unsaved, saved before the window closes.
Closes ==
  LET last    == IF Mounted THEN editor ELSE content
      unsaved == view = "writing" /\ (dirty \/ saving \/ last # content)
  IN
  /\ Disturb("close")
  /\ \/ /\ \/ ~unsaved /\ UNCHANGED fileVars
           \/ unsaved /\ SaveSyncWrites(last)
        /\ NewRenderer
        /\ mut' = IF mut.at \in {"idle", "flush"} THEN Idle
                  ELSE [mut EXCEPT !.heard = FALSE]
     \/ /\ unsaved /\ SaveSyncFails(last)
        /\ content' = last /\ dirty' = TRUE /\ saving' = FALSE /\ error' = TRUE
        /\ DropQueue
        /\ unserialized' = FALSE
        /\ UNCHANGED <<view, editor, loaded, loadVars, mut, locked>>
  /\ UNCHANGED <<index, history>>

\* The whole application dies and is started again.
Crashes ==
  /\ Disturb("crash")
  /\ saves' = {} /\ mut' = Idle
  /\ NewRenderer
  /\ UNCHANGED <<proposal, sequence, faults, index, history>>

-----------------------------------------------------------------------------
Main == /\ SaveStep
        /\ UNCHANGED <<view, editorVars, content, loaded, loadVars, autoSave,
                       mutVars, history, mayDisturb>>

StoreAnswered == \E s \in Answered("store") : SaveAnswered(s)

MutationProgress ==
  \/ MutationCalls \/ FlushSaves \/ MutationLoads \/ MutationIndexes
  \/ (\E s \in Answered("structure") : MutationSaved(s))
  \/ MutationRollsBack \/ MutationAnswered \/ (error /\ FlushFails)

DocumentNext ==
  \/ \E c \in Changes : Types(c) \/ MutationStarts(c)
  \/ Echoes \/ Clears \/ Serializes
  \/ AutosaveFires \/ UserRetries \/ StoreAnswered
  \/ LoadReads \/ LoadAnswered \/ LoadsAgain
  \/ MutationProgress \/ FlushFails
  \/ Leaves \/ Enters \/ Closes \/ Crashes
  \/ Main

\* Timers fire, answers arrive and awaited operations end.
DocumentFairness ==
  /\ WF_documentVars(Serializes) /\ WF_documentVars(AutosaveFires)
  /\ WF_documentVars(StoreAnswered)
  /\ WF_documentVars(LoadReads) /\ WF_documentVars(LoadAnswered)
  /\ WF_documentVars(MutationProgress) /\ WF_documentVars(Main)

DocumentSpec == DocumentInit /\ [][DocumentNext]_documentVars

DocumentFairSpec == DocumentSpec /\ DocumentFairness

-----------------------------------------------------------------------------
\* Every variable keeps its type.
DocumentTypeOK ==
  /\ proposal \in Content /\ sequence \in Nat /\ saves \subseteq Save
  /\ faults \in [{"file", "sidecar"} -> Nat]
  /\ view \in {"writing", "elsewhere"}
  /\ {editor, content, got, done, cleared, index} \subseteq Content
  /\ {unserialized, loaded, loading, dirty, saving, error, timer, queued,
      locked} \subseteq BOOLEAN
  /\ awaited \in Nat
  /\ load \in {"none", "asked", "read"}
  /\ mut \in [at : MutationPlaces, heard : BOOLEAN, base : Content, new : Content]
  /\ mayDisturb \in Nat

\* A change that has reached proposal.md stays in it until the user takes it
\* out: no save begun with an older content is written over a newer one.
NothingOverwritten == [][proposal \ proposal' \subseteq cleared]_proposal

\* A store that claims to have nothing to save holds what is in proposal.md.
\* The flush before a structure mutation reads nothing but this claim.
CleanIsSaved ==
  loaded /\ ~loading /\ ~dirty /\ ~saving =>
    IF mut.at \in {"idle", "flush"} THEN content = proposal
                                      ELSE content \subseteq proposal

\* sectionIndex and proposal.md name the same chapters whenever no mutation is
\* on its way, whatever operation of the last one has failed.
FilesAligned ==
  mut.at = "idle" => index \ cleared = (proposal \cap Mutations) \ cleared

\* No lost wake-up of the autosave: a change in the store that is not on its
\* way to the disk has a timer, a place in the queue behind the save in
\* flight, or an error the user is shown.
ChangeIsScheduled ==
  dirty /\ loaded =>
    \/ timer \/ error
    \/ saving /\ \E s \in saves : /\ s.seq = awaited
                                  /\ s.content = content \/ queued

\* The store is "saving" only while it awaits the answer of a save: otherwise
\* every later save would be queued behind nothing.
SavingIsAwaited ==
  saving => \E s \in saves : s.seq = awaited /\ s.by = "store"

\* An emptied editor never empties the file, by whatever way it is saved, as
\* long as no operation on a file has failed (a failed read of the old content
\* is where the code looks away).
NeverEmptied == [][proposal' = {} => faults'["file"] < MaxFileFaults]_proposal

\* What the user has typed is in the editor, in the store, on its way or on
\* the disk as long as the application lives.
EditsSurvive ==
  \A e \in Typed \cap done :
    \/ e \in editor \cup content \cup proposal \cup cleared
    \/ \E s \in saves : e \in s.content

\* What has reached the store reaches the disk, unless the user is shown an
\* error.
EditsReachDisk ==
  \A e \in Typed : e \in content ~> e \in proposal \cup cleared \/ error

\* A structure mutation ends and gives the editor back.
MutationEnds == mut.at # "idle" ~> mut.at = "idle" /\ ~locked
=============================================================================
