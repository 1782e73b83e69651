----------------------- MODULE DocumentAutosaveProofs -----------------------
(* Theorems about the autosave of the document store, for every set of edits, *)
(* every structure mutation, any number of failing file operations and every  *)
(* disturbance: the user leaves, closes, retries, the application crashes.    *)
EXTENDS DocumentAutosave, TLAPS

-----------------------------------------------------------------------------
(* The inductive invariant *)

\* A save is known by its sequence number.
SeqsOnce ==
  /\ \A s \in saves : s.seq >= 1 /\ s.seq <= sequence
  /\ \A s, r \in saves : s.seq = r.seq => s = r

\* A load that is awaited keeps the store loading.
LoadIsLoading == load # "none" => loading

\* The store has nothing to do with autosaves.
StoreQuiet == ~dirty /\ ~saving /\ ~error /\ ~timer /\ ~queued /\ awaited = 0

\* Without a document on the screen, nothing is saved automatically.
QuietWhileAway == loading \/ ~loaded \/ view # "writing" => StoreQuiet

\* An error is shown only after the save has ended.
ErrorEndsSaving == error => ~saving

\* The token of a save is given up when the store stops saving.
AwaitedMeansSaving == awaited # 0 => saving

\* What has changed since the save in flight was begun is dirty.
DirtyIfChanged ==
  saving => \A s \in saves : s.seq = awaited => s.content = content \/ dirty

StoreInv ==
  /\ SeqsOnce
  /\ LoadIsLoading
  /\ QuietWhileAway
  /\ ErrorEndsSaving
  /\ AwaitedMeansSaving
  /\ SavingIsAwaited
  /\ DirtyIfChanged
  /\ ChangeIsScheduled

IInv == DocumentTypeOK /\ StoreInv

-----------------------------------------------------------------------------
(* Types *)

LEMMA TypeInit == DocumentInit => DocumentTypeOK
<1>1. Skeleton \subseteq Changes /\ MaxDisturbances \in Nat
  BY AutosaveAssumption
<1>2. MaxFileFaults \in Nat /\ MaxSidecarFaults \in Nat
  BY DocumentFileAssumption
<1> SUFFICES ASSUME DocumentInit
             PROVE  DocumentTypeOK
  OBVIOUS
<1>3. faults \in [{"file", "sidecar"} -> Nat]
  BY <1>2 DEF DocumentInit, FileInit
<1>4. proposal \in Content /\ sequence \in Nat /\ saves \subseteq Save
  BY <1>1 DEF DocumentInit, FileInit, Content
<1>5. {editor, content, got, done, cleared, index} \subseteq Content
  BY <1>1 DEF DocumentInit, Content
<1>6. mut \in [at : MutationPlaces, heard : BOOLEAN, base : Content, new : Content]
  BY DEF DocumentInit, Idle, MutationPlaces, Content
<1> QED
  BY <1>1, <1>3, <1>4, <1>5, <1>6 DEF DocumentInit, DocumentTypeOK

\* What the file operations that fail leave of their bound.
LEMMA FailsTyped ==
  ASSUME DocumentTypeOK, NEW kind \in {"file", "sidecar"}, Fails(kind)
  PROVE  faults' \in [{"file", "sidecar"} -> Nat]
<1>1. faults[kind] \in Nat /\ faults[kind] > 0
  BY DEF DocumentTypeOK, Fails
<1>2. faults[kind] - 1 \in Nat
  BY <1>1
<1> QED
  BY <1>2 DEF DocumentTypeOK, Fails

LEMMA DisturbTyped ==
  ASSUME DocumentTypeOK, NEW what, Disturb(what)
  PROVE  mayDisturb' \in Nat
BY DEF DocumentTypeOK, Disturb

LEMMA SubmitTyped ==
  ASSUME DocumentTypeOK, NEW by \in {"store", "structure"}, NEW c \in Content,
         Submit(by, c)
  PROVE  sequence' \in Nat /\ saves' \subseteq Save
BY DEF DocumentTypeOK, Submit, Save, SavePlaces, Content

LEMMA GoesTyped ==
  ASSUME DocumentTypeOK, NEW s \in saves, NEW place \in SavePlaces, Goes(s, place)
  PROVE  saves' \subseteq Save
BY DEF DocumentTypeOK, Goes, Save

\* The main process's half of a save.
LEMMA SaveStepTyped ==
  ASSUME DocumentTypeOK, SaveStep
  PROVE  /\ proposal' \in Content /\ sequence' \in Nat /\ saves' \subseteq Save
         /\ faults' \in [{"file", "sidecar"} -> Nat]
<1>1. PICK s \in saves : \/ SaveReads(s) \/ SaveWritesTmp(s) \/ SaveWritesBackup(s)
                         \/ SaveRenames(s) \/ SaveWritesMeta(s)
  BY DEF SaveStep
<1>2. s \in Save /\ proposal \in Content /\ s.content \in Content
      /\ sequence \in Nat /\ faults \in [{"file", "sidecar"} -> Nat]
  BY DEF DocumentTypeOK, Save
<1>3. CASE SaveReads(s)
  <2>1. proposal' \in Content /\ sequence' \in Nat
    BY <1>2, <1>3 DEF SaveReads
  <2>2. faults' \in [{"file", "sidecar"} -> Nat]
    BY <1>2, <1>3, FailsTyped DEF SaveReads
  <2>3. saves' \subseteq Save
    <3>1. CASE Goes(s, "tmp")
      BY <3>1, GoesTyped DEF SavePlaces
    <3>2. CASE ~Goes(s, "tmp")
      <4> DEFINE new == [s EXCEPT !.found = proposal,
                          !.at = IF Collapses(proposal, s.content) THEN "error"
                                 ELSE "tmp"]
      <4>1. saves' = (saves \ {s}) \cup {new}
        BY <1>3, <3>2 DEF SaveReads
      <4>2. new \in Save
        BY <1>2 DEF Save, SavePlaces
      <4> QED
        BY <4>1, <4>2 DEF DocumentTypeOK
    <3> QED
      BY <3>1, <3>2
  <2> QED
    BY <2>1, <2>2, <2>3
<1>4. CASE SaveWritesTmp(s)
  BY <1>2, <1>4, FailsTyped, GoesTyped DEF SaveWritesTmp, SavePlaces
<1>5. CASE SaveWritesBackup(s)
  BY <1>2, <1>5, GoesTyped DEF SaveWritesBackup, SavePlaces
<1>6. CASE SaveRenames(s)
  BY <1>2, <1>6, FailsTyped, GoesTyped DEF SaveRenames, SavePlaces
<1>7. CASE SaveWritesMeta(s)
  BY <1>2, <1>7, FailsTyped, GoesTyped DEF SaveWritesMeta, SavePlaces
<1> QED
  BY <1>1, <1>3, <1>4, <1>5, <1>6, <1>7

LEMMA SaveDocumentTyped ==
  ASSUME DocumentTypeOK, SaveDocument
  PROVE  /\ proposal' \in Content /\ sequence' \in Nat /\ saves' \subseteq Save
         /\ faults' \in [{"file", "sidecar"} -> Nat]
         /\ {saving', error', timer', queued'} \subseteq BOOLEAN
         /\ awaited' \in Nat
<1>1. CASE saving
  BY <1>1 DEF DocumentTypeOK, SaveDocument, fileVars
<1>2. CASE ~saving
  <2>1. Submit("store", content) /\ content \in Content
    BY <1>2 DEF SaveDocument, DocumentTypeOK
  <2>2. sequence' \in Nat /\ saves' \subseteq Save
    BY <2>1, SubmitTyped
  <2>3. awaited' \in Nat
    BY <1>2 DEF DocumentTypeOK, SaveDocument
  <2>4. {saving', error', timer', queued'} \subseteq BOOLEAN
    BY <1>2 DEF DocumentTypeOK, SaveDocument
  <2>5. proposal' = proposal /\ faults' = faults
    BY <1>2 DEF SaveDocument
  <2> QED
    BY <2>2, <2>3, <2>4, <2>5 DEF DocumentTypeOK
<1> QED
  BY <1>1, <1>2

LEMMA UpdateContentTyped ==
  ASSUME DocumentTypeOK, NEW new \in Content, NEW schedule \in BOOLEAN,
         UpdateContent(new, schedule)
  PROVE  content' \in Content /\ {dirty', error', timer'} \subseteq BOOLEAN
BY DEF DocumentTypeOK, UpdateContent

LEMMA SaveSyncTyped ==
  ASSUME DocumentTypeOK, NEW c \in Content, SaveSyncWrites(c) \/ SaveSyncFails(c)
  PROVE  /\ proposal' \in Content /\ sequence' \in Nat /\ saves' \subseteq Save
         /\ faults' \in [{"file", "sidecar"} -> Nat]
<1>1. proposal' \in Content /\ sequence' \in Nat /\ saves' \subseteq Save
  BY DEF DocumentTypeOK, SaveSyncWrites, SaveSyncFails
<1>2. faults' \in [{"file", "sidecar"} -> Nat]
  <2>1. CASE Fails("file") \/ Fails("sidecar")
    BY <2>1, FailsTyped
  <2>2. CASE UNCHANGED faults
    BY <2>2 DEF DocumentTypeOK
  <2> QED
    BY <2>1, <2>2 DEF SaveSyncWrites, SaveSyncFails
<1> QED
  BY <1>1, <1>2

LEMMA ApplySnapshotTyped ==
  ASSUME DocumentTypeOK, NEW new \in Content, ApplySnapshot(new)
  PROVE  /\ {content', editor', got'} \subseteq Content
         /\ load' \in {"none", "asked", "read"} /\ awaited' \in Nat
         /\ {dirty', saving', error', timer', queued'} \subseteq BOOLEAN
<1>1. {} \in Content
  BY DEF Content
<1>2. CASE loaded
  <2>1. {content', editor', got'} \subseteq Content
    BY <1>1, <1>2 DEF DocumentTypeOK, ApplySnapshot
  <2>2. CleanSlate /\ load' = "none"
    BY <1>2 DEF ApplySnapshot
  <2>3. {dirty', saving', error', timer', queued'} \subseteq BOOLEAN /\ awaited' = 0
    BY <2>2 DEF CleanSlate, DropQueue
  <2> QED
    BY <2>1, <2>2, <2>3
<1>3. CASE ~loaded
  BY <1>3 DEF DocumentTypeOK, ApplySnapshot, autoSave
<1> QED
  BY <1>2, <1>3

\* What every action of the editor and the store, and each step of a mutation,
\* does to the types.
LEMMA TypeNext == DocumentTypeOK /\ [DocumentNext]_documentVars => DocumentTypeOK'
<1> SUFFICES ASSUME DocumentTypeOK, [DocumentNext]_documentVars
             PROVE  DocumentTypeOK'
  OBVIOUS
<1>0. {} \in Content /\ (\A c \in Changes : {c} \in Content)
      /\ (\A x, y \in Content : x \cup y \in Content /\ x \ y \in Content)
  BY DEF Content
<1>a. Typed \subseteq Changes /\ Mutations \subseteq Changes
  BY AutosaveAssumption
<1>b. /\ {editor, content, got, done, cleared, index, proposal} \subseteq Content
      /\ mut.base \in Content /\ mut.new \in Content
  BY DEF DocumentTypeOK
<1> DEFINE MutSet == [at : MutationPlaces, heard : BOOLEAN, base : Content,
                      new : Content]
<1>c. /\ mut \in MutSet
      /\ Idle \in MutSet
      /\ \A p \in MutationPlaces : [mut EXCEPT !.at = p] \in MutSet
  BY <1>0 DEF DocumentTypeOK, Idle, MutationPlaces
<1>1. ASSUME NEW c \in Changes, Types(c)
      PROVE  DocumentTypeOK'
  <2>1. editor' \in Content /\ done' \in Content /\ unserialized' \in BOOLEAN
    <3>1. {c} \in Content /\ editor \in Content /\ done \in Content
      BY <1>0, <1>b
    <3> QED
      BY <1>0, <1>1, <3>1 DEF Types
  <2> QED
    BY <1>1, <2>1 DEF DocumentTypeOK, Types, fileVars, loadVars, autoSave, mutVars
<1>2. ASSUME NEW c \in Changes, MutationStarts(c)
      PROVE  DocumentTypeOK'
  <2>1. mut' \in MutSet
    BY <1>0, <1>2 DEF MutationStarts, Idle, MutationPlaces
  <2>2. done' \in Content
    <3>1. {c} \in Content /\ done \in Content
      BY <1>0, <1>b
    <3> QED
      BY <1>0, <1>2, <3>1 DEF MutationStarts
  <2> QED
    BY <1>2, <2>1, <2>2
       DEF DocumentTypeOK, MutationStarts, fileVars, loadVars, autoSave, editorVars
<1>3. CASE Echoes
  BY <1>3 DEF DocumentTypeOK, Echoes, Disturb, fileVars, loadVars, autoSave, mutVars,
              history
<1>4. CASE Clears
  <2>1. editor' \in Content /\ cleared' \in Content
    <3>1. editor \in Content /\ cleared \in Content
      BY <1>b
    <3> QED
      BY <1>0, <1>4, <3>1 DEF Clears
  <2> QED
    BY <1>4, <2>1 DEF DocumentTypeOK, Clears, Disturb, fileVars, loadVars, autoSave, mutVars
<1>5. CASE Serializes
  <2>1. content' \in Content /\ {dirty', error', timer'} \subseteq BOOLEAN
    BY <1>b, <1>5, UpdateContentTyped DEF Serializes
  <2> QED
    BY <1>5, <2>1 DEF DocumentTypeOK, Serializes, fileVars, loadVars, mutVars, history
<1>6. CASE AutosaveFires
  BY <1>6, SaveDocumentTyped
     DEF DocumentTypeOK, AutosaveFires, editorVars, loadVars, mutVars, history
<1>7. CASE UserRetries
  BY <1>7, SaveDocumentTyped
     DEF DocumentTypeOK, UserRetries, Disturb, editorVars, loadVars, mutVars, history
<1>8. ASSUME NEW s \in Answered("store"), SaveAnswered(s)
      PROVE  DocumentTypeOK'
  <2>1. /\ {saving', error', dirty', timer', queued'} \subseteq BOOLEAN
        /\ awaited' \in Nat
    <3>1. CASE s.seq # awaited
      BY <1>8, <3>1 DEF DocumentTypeOK, SaveAnswered, autoSave
    <3>2. CASE s.seq = awaited
      <4>1. /\ saving' = FALSE /\ awaited' = 0 /\ queued' = FALSE
            /\ error' \in BOOLEAN /\ timer' \in BOOLEAN
        BY <1>8, <3>2 DEF SaveAnswered
      <4>2. dirty' \in BOOLEAN
        BY <1>8, <3>2 DEF SaveAnswered, DocumentTypeOK
      <4> QED
        BY <4>1, <4>2
    <3> QED
      BY <3>1, <3>2
  <2> QED
    BY <1>8, <2>1 DEF DocumentTypeOK, SaveAnswered, editorVars, loadVars, mutVars, history
<1>9. CASE LoadReads
  <2>1. faults' \in [{"file", "sidecar"} -> Nat]
    BY <1>9, FailsTyped DEF LoadReads, DocumentTypeOK
  <2> QED
    BY <1>9, <2>1 DEF DocumentTypeOK, LoadReads, editorVars, autoSave, mutVars, history
<1>10. CASE LoadAnswered
  BY <1>0, <1>10 DEF DocumentTypeOK, LoadAnswered, fileVars, mutVars, history
<1>11. CASE LoadsAgain
  BY <1>0, <1>11 DEF DocumentTypeOK, LoadsAgain, DropQueue, AskLoad, fileVars, editorVars,
                     mutVars, history
<1>12. CASE MutationCalls
  BY <1>c, <1>12 DEF DocumentTypeOK, MutationCalls, MutationPlaces, fileVars, editorVars,
                     loadVars, autoSave, history
<1>13. CASE FlushSaves
  BY <1>13, SaveDocumentTyped
     DEF DocumentTypeOK, FlushSaves, editorVars, loadVars, mutVars, history
<1>14. CASE FlushFails
  BY <1>c, <1>14 DEF DocumentTypeOK, FlushFails, Release, fileVars, editorVars, loadVars,
                     autoSave, history
<1>15. CASE MutationLoads
  <2>1. faults' \in [{"file", "sidecar"} -> Nat]
    BY <1>15, FailsTyped DEF MutationLoads, DocumentTypeOK
  <2>2. mut' \in MutSet
    <3>1. [mut EXCEPT !.at = "index", !.base = proposal] \in MutSet
      <4>1. "index" \in MutationPlaces /\ proposal \in Content
        BY <1>b DEF MutationPlaces
      <4> QED
        BY <1>c, <4>1
    <3>2. [mut EXCEPT !.at = "error"] \in MutSet
      BY <1>c DEF MutationPlaces
    <3> QED
      BY <1>15, <3>1, <3>2 DEF MutationLoads
  <2> QED
    BY <1>15, <2>1, <2>2
       DEF DocumentTypeOK, MutationLoads, editorVars, loadVars, autoSave, history
<1>16. CASE MutationIndexes
  <2>1. faults' \in [{"file", "sidecar"} -> Nat]
    BY <1>16, FailsTyped DEF MutationIndexes, DocumentTypeOK
  <2>2. mut' \in MutSet
    BY <1>c, <1>16 DEF MutationIndexes, MutationPlaces
  <2>3. index' \in Content
    BY <1>0, <1>b, <1>16 DEF MutationIndexes
  <2>4. sequence' \in Nat /\ saves' \subseteq Save
    <3>1. CASE Submit("structure", mut.base \cup mut.new)
      BY <1>0, <1>b, <3>1, SubmitTyped
    <3> QED
      BY <1>16, <3>1 DEF MutationIndexes, DocumentTypeOK
  <2> QED
    BY <1>16, <2>1, <2>2, <2>3, <2>4
       DEF DocumentTypeOK, MutationIndexes, editorVars, loadVars, autoSave, history
<1>17. ASSUME NEW s \in Answered("structure"), MutationSaved(s)
       PROVE  DocumentTypeOK'
  <2>1. mut' \in MutSet
    BY <1>c, <1>17 DEF MutationSaved, MutationPlaces
  <2> QED
    BY <1>17, <2>1 DEF DocumentTypeOK, MutationSaved, editorVars, loadVars, autoSave, history
<1>18. CASE MutationRollsBack
  <2>1. faults' \in [{"file", "sidecar"} -> Nat]
    BY <1>18, FailsTyped DEF MutationRollsBack, DocumentTypeOK
  <2>2. mut' \in MutSet
    BY <1>c, <1>18 DEF MutationRollsBack, MutationPlaces
  <2>3. index' \in Content
    BY <1>0, <1>b, <1>18 DEF MutationRollsBack
  <2> QED
    BY <1>18, <2>1, <2>2, <2>3
       DEF DocumentTypeOK, MutationRollsBack, editorVars, loadVars, autoSave, history
<1>19. CASE MutationAnswered
  <2>1. /\ {content', editor', got'} \subseteq Content
        /\ load' \in {"none", "asked", "read"} /\ awaited' \in Nat
        /\ {dirty', saving', error', timer', queued'} \subseteq BOOLEAN
    <3>1. CASE ApplySnapshot(mut.base \cup mut.new)
      BY <1>0, <1>b, <3>1, ApplySnapshotTyped
    <3> QED
      BY <1>19, <3>1 DEF MutationAnswered, DocumentTypeOK, autoSave
  <2> QED
    BY <1>c, <1>19, <2>1 DEF DocumentTypeOK, MutationAnswered, fileVars, history
<1>20. CASE Leaves
  <2>1. editor' = {} /\ content' = {} /\ got' = {}
    BY <1>20 DEF Leaves, AskLoad
  <2>2. /\ unserialized' = FALSE /\ loaded' = FALSE /\ dirty' = FALSE
        /\ saving' = FALSE /\ error' = FALSE /\ timer' = FALSE /\ queued' = FALSE
        /\ locked' = FALSE /\ loading' = TRUE /\ awaited' = 0 /\ load' = "asked"
    BY <1>20 DEF Leaves, CleanSlate, DropQueue, AskLoad
  <2>3. {editor', content', got', done', cleared', index'} \subseteq Content
    BY <1>0, <1>b, <1>20, <2>1 DEF Leaves, history
  <2>4. mayDisturb' \in Nat
    BY <1>20, DisturbTyped DEF Leaves
  <2>5. /\ UNCHANGED <<proposal, sequence, saves, faults, mut>>
        /\ view' = "elsewhere"
    BY <1>20 DEF Leaves, fileVars
  <2> QED
    BY <2>2, <2>3, <2>4, <2>5 DEF DocumentTypeOK
<1>21. CASE Enters
  BY <1>0, <1>21 DEF DocumentTypeOK, Enters, DropQueue, AskLoad, fileVars, mutVars, history
<1>22. CASE Closes
  <2> DEFINE last == IF Mounted THEN editor ELSE content
  <2>1. last \in Content
    BY <1>b
  <2>2. /\ proposal' \in Content /\ sequence' \in Nat /\ saves' \subseteq Save
        /\ faults' \in [{"file", "sidecar"} -> Nat]
    <3>1. CASE SaveSyncWrites(last) \/ SaveSyncFails(last)
      BY <2>1, <3>1, SaveSyncTyped
    <3>2. CASE UNCHANGED fileVars
      BY <3>2 DEF DocumentTypeOK, fileVars
    <3> QED
      BY <1>22, <3>1, <3>2 DEF Closes
  <2>3. mut' \in MutSet
    <3>1. [mut EXCEPT !.heard = FALSE] \in MutSet
      BY DEF DocumentTypeOK
    <3> QED
      BY <1>c, <1>22, <3>1 DEF Closes
  <2>4. /\ {editor', content', got'} \subseteq Content
        /\ {unserialized', loaded', loading', dirty', saving', error', timer',
            queued', locked'} \subseteq BOOLEAN
        /\ awaited' \in Nat /\ load' \in {"none", "asked", "read"}
        /\ view' \in {"writing", "elsewhere"}
    <3>1. CASE NewRenderer
      BY <1>0, <3>1 DEF NewRenderer, CleanSlate, DropQueue, AskLoad
    <3>2. CASE ~NewRenderer
      <4>1. /\ content' = last /\ dirty' = TRUE /\ saving' = FALSE /\ error' = TRUE
            /\ timer' = FALSE /\ queued' = FALSE /\ awaited' = 0
            /\ unserialized' = FALSE
            /\ UNCHANGED <<view, editor, loaded, loadVars, mut, locked>>
        BY <1>22, <3>2 DEF Closes, DropQueue
      <4> QED
        BY <2>1, <4>1 DEF DocumentTypeOK, loadVars
    <3> QED
      BY <3>1, <3>2
  <2> QED
    BY <1>22, <2>2, <2>3, <2>4 DEF DocumentTypeOK, Closes, Disturb, history
<1>23. CASE Crashes
  <2>1. editor' = {} /\ content' = {} /\ got' = {} /\ view' = "writing"
    BY <1>23 DEF Crashes, NewRenderer, AskLoad
  <2>2. /\ unserialized' = FALSE /\ loaded' = FALSE /\ dirty' = FALSE
        /\ saving' = FALSE /\ error' = FALSE /\ timer' = FALSE /\ queued' = FALSE
        /\ locked' = FALSE /\ loading' = TRUE /\ awaited' = 0 /\ load' = "asked"
    BY <1>23 DEF Crashes, NewRenderer, CleanSlate, DropQueue, AskLoad
  <2>3. mut' \in MutSet /\ saves' \subseteq Save
    BY <1>c, <1>23 DEF Crashes
  <2>4. {editor', content', got', done', cleared', index'} \subseteq Content
    BY <1>0, <1>b, <1>23, <2>1 DEF Crashes, history
  <2>5. mayDisturb' \in Nat
    BY <1>23, DisturbTyped DEF Crashes
  <2>6. UNCHANGED <<proposal, sequence, faults>>
    BY <1>23 DEF Crashes
  <2> QED
    BY <2>1, <2>2, <2>3, <2>4, <2>5, <2>6 DEF DocumentTypeOK
<1>24. CASE Main
  BY <1>24, SaveStepTyped DEF DocumentTypeOK, Main, editorVars, loadVars, autoSave, mutVars,
                              history
<1>25. CASE UNCHANGED documentVars
  BY <1>25 DEF DocumentTypeOK, documentVars
<1> QED
  BY <1>1, <1>2, <1>3, <1>4, <1>5, <1>6, <1>7, <1>8, <1>9, <1>10, <1>11, <1>12,
     <1>13, <1>14, <1>15, <1>16, <1>17, <1>18, <1>19, <1>20, <1>21, <1>22,
     <1>23, <1>24, <1>25
     DEF DocumentNext, StoreAnswered, MutationProgress

-----------------------------------------------------------------------------
(* The store *)

\* What the invariant speaks of, but for the saves.
storeVars == <<view, content, loaded, loading, load, autoSave>>

LEMMA StoreInit == DocumentInit => StoreInv
BY DEF DocumentInit, FileInit, StoreInv, SeqsOnce, LoadIsLoading, QuietWhileAway, StoreQuiet,
       ErrorEndsSaving, AwaitedMeansSaving, SavingIsAwaited, DirtyIfChanged,
       ChangeIsScheduled

\* A step that looks elsewhere.
LEMMA StoreFrame ==
  ASSUME StoreInv, UNCHANGED <<sequence, saves, storeVars>>
  PROVE  StoreInv'
BY DEF StoreInv, storeVars, autoSave, SeqsOnce, LoadIsLoading, QuietWhileAway, StoreQuiet,
       ErrorEndsSaving, AwaitedMeansSaving, SavingIsAwaited, DirtyIfChanged,
       ChangeIsScheduled

\* A save goes on to its next place.
LEMMA SaveMoves ==
  ASSUME DocumentTypeOK, StoreInv, NEW s \in saves, NEW r,
         r.seq = s.seq /\ r.by = s.by /\ r.content = s.content,
         saves' = (saves \ {s}) \cup {r},
         UNCHANGED <<sequence, storeVars>>
  PROVE  StoreInv'
<1>1. SeqsOnce'
  BY DEF StoreInv, SeqsOnce
<1>2. LoadIsLoading' /\ QuietWhileAway' /\ ErrorEndsSaving' /\ AwaitedMeansSaving'
  BY DEF StoreInv, storeVars, autoSave, LoadIsLoading, QuietWhileAway, StoreQuiet,
         ErrorEndsSaving, AwaitedMeansSaving
<1>3. SavingIsAwaited'
  BY DEF StoreInv, storeVars, autoSave, SavingIsAwaited
<1>4. DirtyIfChanged'
  BY DEF StoreInv, storeVars, autoSave, DirtyIfChanged
<1>5. ChangeIsScheduled'
  BY DEF StoreInv, storeVars, autoSave, ChangeIsScheduled
<1> QED
  BY <1>1, <1>2, <1>3, <1>4, <1>5 DEF StoreInv

\* An answer the store does not wait for.
LEMMA SaveGoes ==
  ASSUME DocumentTypeOK, StoreInv, NEW s \in saves,
         saving => s.seq # awaited,
         saves' = saves \ {s},
         UNCHANGED <<sequence, storeVars>>
  PROVE  StoreInv'
<1>1. SeqsOnce'
  BY DEF StoreInv, SeqsOnce
<1>2. LoadIsLoading' /\ QuietWhileAway' /\ ErrorEndsSaving' /\ AwaitedMeansSaving'
  BY DEF StoreInv, storeVars, autoSave, LoadIsLoading, QuietWhileAway, StoreQuiet,
         ErrorEndsSaving, AwaitedMeansSaving
<1>3. SavingIsAwaited'
  BY DEF StoreInv, storeVars, autoSave, SavingIsAwaited
<1>4. DirtyIfChanged'
  BY DEF StoreInv, storeVars, autoSave, DirtyIfChanged
<1>5. ChangeIsScheduled'
  BY DEF StoreInv, storeVars, autoSave, ChangeIsScheduled
<1> QED
  BY <1>1, <1>2, <1>3, <1>4, <1>5 DEF StoreInv

\* The main process begins a save for somebody else, or in one piece.
LEMMA SaveComes ==
  ASSUME DocumentTypeOK, StoreInv, NEW new,
         \A s \in new : s.seq = sequence + 1,
         \A s, r \in new : s = r,
         saves' = saves \cup new, sequence' = sequence + 1,
         UNCHANGED storeVars
  PROVE  StoreInv'
<1>a. sequence \in Nat /\ (\A s \in saves : s.seq \in Nat /\ s.seq <= sequence)
  BY DEF DocumentTypeOK, Save, StoreInv, SeqsOnce
<1>1. SeqsOnce'
  BY <1>a DEF StoreInv, SeqsOnce
<1>2. LoadIsLoading' /\ QuietWhileAway' /\ ErrorEndsSaving' /\ AwaitedMeansSaving'
  BY DEF StoreInv, storeVars, autoSave, LoadIsLoading, QuietWhileAway, StoreQuiet,
         ErrorEndsSaving, AwaitedMeansSaving
<1>3. SavingIsAwaited'
  BY DEF StoreInv, storeVars, autoSave, SavingIsAwaited
<1>4. DirtyIfChanged'
  <2> SUFFICES ASSUME saving', NEW s \in saves', s.seq = awaited'
               PROVE  (s.content = content \/ dirty)'
    BY DEF DirtyIfChanged
  <2>1. PICK r \in saves : r.seq = awaited
    BY DEF StoreInv, SavingIsAwaited, storeVars, autoSave
  <2>2. s \in saves
    BY <1>a, <2>1 DEF storeVars, autoSave
  <2> QED
    BY <2>2 DEF StoreInv, DirtyIfChanged, storeVars, autoSave
<1>5. ChangeIsScheduled'
  BY DEF StoreInv, storeVars, autoSave, ChangeIsScheduled
<1> QED
  BY <1>1, <1>2, <1>3, <1>4, <1>5 DEF StoreInv

\* A store that has been put in order, whatever has become of its saves.
LEMMA QuietStore ==
  ASSUME DocumentTypeOK, StoreInv, StoreQuiet', SeqsOnce', LoadIsLoading'
  PROVE  StoreInv'
BY DEF StoreInv, StoreQuiet, QuietWhileAway, ErrorEndsSaving, AwaitedMeansSaving,
       SavingIsAwaited, DirtyIfChanged, ChangeIsScheduled

\* saveDocument, by whomever it is called: a document is on the screen.
LEMMA SaveDocumentKeeps ==
  ASSUME DocumentTypeOK, StoreInv, SaveDocument, ~StoreQuiet,
         UNCHANGED <<view, content, loaded, loading, load, dirty>>
  PROVE  StoreInv'
<1>0. ~loading /\ loaded /\ view = "writing"
  BY DEF StoreInv, QuietWhileAway
<1>a. LoadIsLoading' /\ QuietWhileAway'
  BY <1>0 DEF StoreInv, LoadIsLoading, QuietWhileAway
<1>1. CASE saving
  <2>1. /\ queued' = TRUE /\ timer' = FALSE
        /\ UNCHANGED <<sequence, saves, saving, error, awaited>>
    BY <1>1 DEF SaveDocument, fileVars
  <2>2. SeqsOnce' /\ ErrorEndsSaving' /\ AwaitedMeansSaving'
    BY <2>1 DEF StoreInv, SeqsOnce, ErrorEndsSaving, AwaitedMeansSaving
  <2>3. SavingIsAwaited' /\ DirtyIfChanged'
    BY <2>1 DEF StoreInv, SavingIsAwaited, DirtyIfChanged
  <2>4. ChangeIsScheduled'
    BY <1>1, <2>1, <2>3 DEF ChangeIsScheduled, SavingIsAwaited
  <2> QED
    BY <1>a, <2>2, <2>3, <2>4 DEF StoreInv
<1>2. CASE ~saving
  <2> DEFINE s == [seq |-> sequence + 1, by |-> "store", content |-> content,
                   found |-> {}, at |-> "read"]
  <2>1. /\ saves' = saves \cup {s} /\ sequence' = sequence + 1
        /\ saving' = TRUE /\ error' = FALSE /\ awaited' = sequence + 1
    BY <1>2 DEF SaveDocument, Submit
  <2>2. s.seq = sequence + 1 /\ s.by = "store" /\ s.content = content
    OBVIOUS
  <2>3. sequence \in Nat /\ (\A r \in saves : r.seq \in Nat /\ r.seq <= sequence)
    BY DEF DocumentTypeOK, Save, StoreInv, SeqsOnce
  <2> HIDE DEF s
  <2>4. SeqsOnce'
    BY <2>1, <2>2, <2>3 DEF StoreInv, SeqsOnce
  <2>5. ErrorEndsSaving' /\ AwaitedMeansSaving'
    BY <2>1 DEF ErrorEndsSaving, AwaitedMeansSaving
  <2>6. SavingIsAwaited'
    BY <2>1, <2>2 DEF SavingIsAwaited
  <2>7. DirtyIfChanged'
    <3>1. ASSUME NEW r \in saves', r.seq = awaited'
          PROVE  r = s
      BY <2>1, <2>3, <3>1
    <3> QED
      BY <2>2, <3>1 DEF DirtyIfChanged
  <2>8. ChangeIsScheduled'
    BY <2>1, <2>2 DEF ChangeIsScheduled
  <2> QED
    BY <1>a, <2>4, <2>5, <2>6, <2>7, <2>8 DEF StoreInv
<1> QED
  BY <1>1, <1>2

\* A new content arrives in the store: it schedules its save.
LEMMA SerializesKeeps ==
  ASSUME DocumentTypeOK, StoreInv, Serializes
  PROVE  StoreInv'
<1>0. /\ ~loading /\ loaded /\ view = "writing"
      /\ UNCHANGED <<sequence, saves, view, loaded, loading, load, saving, queued,
                     awaited>>
  BY DEF Serializes, Mounted, fileVars, loadVars
<1>1. CASE locked \/ Collapses(content, editor)
  <2>1. UNCHANGED <<content, dirty, error, timer>>
    BY <1>1 DEF Serializes, UpdateContent
  <2> QED
    BY <1>0, <2>1, StoreFrame DEF storeVars, autoSave
<1>2. CASE ~(locked \/ Collapses(content, editor))
  <2>1. /\ content' = editor /\ dirty' = (dirty \/ content # editor)
        /\ error' = FALSE /\ timer' = TRUE
    BY <1>2 DEF Serializes, UpdateContent
  <2>2. SeqsOnce' /\ LoadIsLoading' /\ QuietWhileAway'
    BY <1>0 DEF StoreInv, SeqsOnce, LoadIsLoading, QuietWhileAway
  <2>3. ErrorEndsSaving' /\ AwaitedMeansSaving' /\ ChangeIsScheduled'
    BY <1>0, <2>1 DEF StoreInv, ErrorEndsSaving, AwaitedMeansSaving,
                      ChangeIsScheduled
  <2>4. SavingIsAwaited'
    BY <1>0 DEF StoreInv, SavingIsAwaited
  <2>5. DirtyIfChanged'
    BY <1>0, <2>1 DEF StoreInv, DirtyIfChanged
  <2> QED
    BY <2>2, <2>3, <2>4, <2>5 DEF StoreInv
<1> QED
  BY <1>1, <1>2

\* The answer of a save: what was changed in the meantime is dirty, and if a
\* save was asked for in the meantime, it is scheduled.
LEMMA SaveAnsweredKeeps ==
  ASSUME DocumentTypeOK, StoreInv, NEW s \in Answered("store"), SaveAnswered(s)
  PROVE  StoreInv'
<1>0. /\ s \in saves /\ saves' = saves \ {s}
      /\ UNCHANGED <<sequence, view, content, loaded, loading, load>>
      /\ s.at \in {"ok", "error"}
  BY DEF Answered, SaveAnswered, loadVars
<1>1. CASE s.seq # awaited
  <2>1. UNCHANGED storeVars
    BY <1>0, <1>1 DEF SaveAnswered, storeVars
  <2> QED
    BY <1>0, <1>1, <2>1, SaveGoes
<1>2. CASE s.seq = awaited
  <2>1. /\ saving' = FALSE /\ awaited' = 0 /\ queued' = FALSE
        /\ error' = (s.at = "error")
        /\ dirty' = IF s.at = "ok" THEN content # s.content ELSE dirty
        /\ timer' = (timer \/ (queued /\ dirty' /\ content # s.content))
    BY <1>2 DEF SaveAnswered
  <2>2. saving
    BY <1>0, <1>2 DEF StoreInv, SeqsOnce, AwaitedMeansSaving, DocumentTypeOK, Save
  <2>3. ~error /\ loaded /\ ~loading /\ view = "writing"
    BY <2>2 DEF StoreInv, ErrorEndsSaving, QuietWhileAway, StoreQuiet
  <2>4. SeqsOnce' /\ LoadIsLoading' /\ QuietWhileAway'
    BY <1>0, <2>3 DEF StoreInv, SeqsOnce, LoadIsLoading, QuietWhileAway
  <2>5. ErrorEndsSaving' /\ AwaitedMeansSaving' /\ SavingIsAwaited' /\ DirtyIfChanged'
    BY <2>1 DEF ErrorEndsSaving, AwaitedMeansSaving, SavingIsAwaited, DirtyIfChanged
  <2>6. ChangeIsScheduled'
    <3> SUFFICES ASSUME dirty', ~error'
                 PROVE  timer'
      BY DEF ChangeIsScheduled
    <3>1. s.at = "ok" /\ content # s.content
      BY <1>0, <2>1
    <3>2. dirty
      BY <1>0, <1>2, <2>2, <3>1 DEF StoreInv, DirtyIfChanged
    <3>3. CASE timer
      BY <2>1, <3>3
    <3>4. CASE ~timer
      <4>1. PICK r \in saves : r.seq = awaited /\ (r.content = content \/ queued)
        BY <2>3, <3>2, <3>4 DEF StoreInv, ChangeIsScheduled
      <4>2. r = s
        BY <1>0, <1>2, <4>1 DEF StoreInv, SeqsOnce
      <4>3. queued
        BY <3>1, <4>1, <4>2
      <4> QED
        BY <2>1, <3>1, <4>3
    <3> QED
      BY <3>3, <3>4
  <2> QED
    BY <2>4, <2>5, <2>6 DEF StoreInv
<1> QED
  BY <1>1, <1>2

\* The main process's half of a save.
LEMMA MainKeeps ==
  ASSUME DocumentTypeOK, StoreInv, Main
  PROVE  StoreInv'
<1>0. UNCHANGED storeVars
  BY DEF Main, storeVars, loadVars
<1>1. PICK s \in saves : \/ SaveReads(s) \/ SaveWritesTmp(s) \/ SaveWritesBackup(s)
                         \/ SaveRenames(s) \/ SaveWritesMeta(s)
  BY DEF Main, SaveStep
<1>2. s \in Save
  BY DEF DocumentTypeOK
<1>3. ASSUME NEW place, Goes(s, place), UNCHANGED sequence
      PROVE  StoreInv'
  <2> DEFINE r == [s EXCEPT !.at = place]
  <2>1. r.seq = s.seq /\ r.by = s.by /\ r.content = s.content
    BY <1>2 DEF Save
  <2>2. saves' = (saves \ {s}) \cup {r}
    BY <1>3 DEF Goes
  <2> HIDE DEF r
  <2> QED
    BY <1>0, <1>3, <2>1, <2>2, SaveMoves
<1>4. CASE SaveReads(s)
  <2>1. CASE Goes(s, "tmp")
    BY <1>3, <1>4, <2>1 DEF SaveReads
  <2>2. CASE ~Goes(s, "tmp")
    <3> DEFINE r == [s EXCEPT !.found = proposal,
                       !.at = IF Collapses(proposal, s.content) THEN "error"
                              ELSE "tmp"]
    <3>1. r.seq = s.seq /\ r.by = s.by /\ r.content = s.content
      BY <1>2 DEF Save
    <3>2. saves' = (saves \ {s}) \cup {r} /\ UNCHANGED sequence
      BY <1>4, <2>2 DEF SaveReads
    <3> HIDE DEF r
    <3> QED
      BY <1>0, <3>1, <3>2, SaveMoves
  <2> QED
    BY <2>1, <2>2
<1>5. CASE SaveWritesTmp(s)
  BY <1>3, <1>5 DEF SaveWritesTmp
<1>6. CASE SaveWritesBackup(s)
  BY <1>3, <1>6 DEF SaveWritesBackup
<1>7. CASE SaveRenames(s)
  BY <1>3, <1>7 DEF SaveRenames
<1>8. CASE SaveWritesMeta(s)
  BY <1>3, <1>8 DEF SaveWritesMeta
<1> QED
  BY <1>1, <1>4, <1>5, <1>6, <1>7, <1>8

\* The renderer starts, or the editor is left: nothing of the store remains.
LEMMA FreshStore ==
  ASSUME DocumentTypeOK, StoreInv, CleanSlate, AskLoad, SeqsOnce'
  PROVE  StoreInv'
<1>1. StoreQuiet' /\ LoadIsLoading'
  BY DEF CleanSlate, DropQueue, AskLoad, StoreQuiet, LoadIsLoading
<1> QED
  BY <1>1, QuietStore

\* The window is closed, or stays open because the last save failed.
LEMMA ClosesKeeps ==
  ASSUME DocumentTypeOK, StoreInv, Closes
  PROVE  StoreInv'
<1> DEFINE last    == IF Mounted THEN editor ELSE content
           unsaved == view = "writing" /\ (dirty \/ saving \/ last # content)
<1>0. sequence \in Nat
  BY DEF DocumentTypeOK
<1>1. SeqsOnce'
  <2>1. saves' = saves /\ sequence' \in {sequence, sequence + 1}
    BY DEF Closes, fileVars, SaveSyncWrites, SaveSyncFails
  <2>2. \A s \in saves : s.seq \in Nat
    BY DEF DocumentTypeOK, Save
  <2> QED
    BY <1>0, <2>1, <2>2 DEF StoreInv, SeqsOnce
<1>2. CASE NewRenderer
  BY <1>1, <1>2, FreshStore DEF NewRenderer
<1>3. CASE ~NewRenderer
  <2>1. /\ unsaved
        /\ content' = last /\ dirty' = TRUE /\ saving' = FALSE /\ error' = TRUE
        /\ timer' = FALSE /\ queued' = FALSE /\ awaited' = 0
        /\ UNCHANGED <<view, loaded, load, loading>>
    BY <1>3 DEF Closes, DropQueue, loadVars
  <2>2. loaded /\ ~loading /\ view = "writing"
    BY <2>1 DEF Mounted, StoreInv, QuietWhileAway, StoreQuiet
  <2>3. LoadIsLoading' /\ QuietWhileAway'
    BY <2>1, <2>2 DEF StoreInv, LoadIsLoading, QuietWhileAway
  <2>4. ErrorEndsSaving' /\ AwaitedMeansSaving' /\ SavingIsAwaited' /\ DirtyIfChanged'
        /\ ChangeIsScheduled'
    BY <2>1 DEF ErrorEndsSaving, AwaitedMeansSaving, SavingIsAwaited, DirtyIfChanged,
                ChangeIsScheduled
  <2> QED
    BY <1>1, <2>3, <2>4 DEF StoreInv
<1> QED
  BY <1>2, <1>3

\* One step per action.
LEMMA StoreNext == DocumentTypeOK /\ StoreInv /\ [DocumentNext]_documentVars => StoreInv'
<1> SUFFICES ASSUME DocumentTypeOK, StoreInv, [DocumentNext]_documentVars
             PROVE  StoreInv'
  OBVIOUS
<1> USE DEF storeVars, autoSave, loadVars, fileVars
<1>1. ASSUME NEW c \in Changes, Types(c)
      PROVE  StoreInv'
  BY <1>1, StoreFrame DEF Types
<1>2. ASSUME NEW c \in Changes, MutationStarts(c)
      PROVE  StoreInv'
  BY <1>2, StoreFrame DEF MutationStarts
<1>3. CASE Echoes
  BY <1>3, StoreFrame DEF Echoes
<1>4. CASE Clears
  BY <1>4, StoreFrame DEF Clears
<1>5. CASE Serializes
  BY <1>5, SerializesKeeps
<1>6. CASE AutosaveFires
  <2>1. ~StoreQuiet
    BY <1>6 DEF AutosaveFires, StoreQuiet
  <2> QED
    BY <1>6, <2>1, SaveDocumentKeeps DEF AutosaveFires
<1>7. CASE UserRetries
  <2>1. ~StoreQuiet
    BY <1>7 DEF UserRetries, StoreQuiet
  <2> QED
    BY <1>7, <2>1, SaveDocumentKeeps DEF UserRetries
<1>8. ASSUME NEW s \in Answered("store"), SaveAnswered(s)
      PROVE  StoreInv'
  BY <1>8, SaveAnsweredKeeps
<1>9. CASE LoadReads
  <2>1. loading /\ StoreQuiet
    BY <1>9 DEF LoadReads, StoreInv, LoadIsLoading, QuietWhileAway
  <2>2. StoreQuiet' /\ SeqsOnce' /\ LoadIsLoading'
    BY <1>9, <2>1 DEF LoadReads, StoreQuiet, StoreInv, SeqsOnce, LoadIsLoading
  <2> QED
    BY <2>2, QuietStore
<1>10. CASE LoadAnswered
  <2>1. loading /\ StoreQuiet
    BY <1>10 DEF LoadAnswered, StoreInv, LoadIsLoading, QuietWhileAway
  <2>2. StoreQuiet' /\ SeqsOnce' /\ LoadIsLoading'
    BY <1>10, <2>1 DEF LoadAnswered, StoreQuiet, StoreInv, SeqsOnce, LoadIsLoading
  <2> QED
    BY <2>2, QuietStore
<1>11. CASE LoadsAgain
  <2>1. StoreQuiet
    BY <1>11 DEF LoadsAgain, StoreInv, QuietWhileAway
  <2>2. StoreQuiet' /\ SeqsOnce' /\ LoadIsLoading'
    BY <1>11, <2>1 DEF LoadsAgain, DropQueue, AskLoad, StoreQuiet, StoreInv, SeqsOnce,
                       LoadIsLoading
  <2> QED
    BY <2>2, QuietStore
<1>12. CASE MutationCalls
  BY <1>12, StoreFrame DEF MutationCalls
<1>13. CASE FlushSaves
  <2>1. ~StoreQuiet
    BY <1>13 DEF FlushSaves, StoreQuiet
  <2> QED
    BY <1>13, <2>1, SaveDocumentKeeps DEF FlushSaves
<1>14. CASE FlushFails
  BY <1>14, StoreFrame DEF FlushFails
<1>15. CASE MutationLoads
  BY <1>15, StoreFrame DEF MutationLoads
<1>16. CASE MutationIndexes
  <2>1. CASE Submit("structure", mut.base \cup mut.new)
    <3> DEFINE s == [seq |-> sequence + 1, by |-> "structure",
                     content |-> mut.base \cup mut.new, found |-> {}, at |-> "read"]
    <3>1. saves' = saves \cup {s} /\ sequence' = sequence + 1
      BY <2>1 DEF Submit
    <3>2. s.seq = sequence + 1
      OBVIOUS
    <3>3. UNCHANGED storeVars
      BY <1>16 DEF MutationIndexes
    <3> HIDE DEF s
    <3> DEFINE new == {s}
    <3>4. /\ \A r \in new : r.seq = sequence + 1
          /\ \A r, q \in new : r = q
          /\ saves' = saves \cup new
      BY <3>1, <3>2
    <3> HIDE DEF new
    <3> QED
      BY <3>1, <3>3, <3>4, SaveComes
  <2>2. CASE ~Submit("structure", mut.base \cup mut.new)
    BY <1>16, <2>2, StoreFrame DEF MutationIndexes
  <2> QED
    BY <2>1, <2>2
<1>17. ASSUME NEW s \in Answered("structure"), MutationSaved(s)
       PROVE  StoreInv'
  <2>1. s \in saves /\ s.by = "structure" /\ saves' = saves \ {s}
    BY <1>17 DEF Answered, MutationSaved
  <2>2. saving => s.seq # awaited
    BY <2>1 DEF StoreInv, SeqsOnce, SavingIsAwaited
  <2> QED
    BY <1>17, <2>1, <2>2, SaveGoes DEF MutationSaved
<1>18. CASE MutationRollsBack
  BY <1>18, StoreFrame DEF MutationRollsBack
<1>19. CASE MutationAnswered
  <2>1. CASE loaded /\ ApplySnapshot(mut.base \cup mut.new)
    <3>1. StoreQuiet' /\ load' = "none"
      BY <2>1 DEF ApplySnapshot, CleanSlate, DropQueue, StoreQuiet
    <3>2. SeqsOnce' /\ LoadIsLoading'
      BY <1>19, <3>1 DEF MutationAnswered, StoreInv, SeqsOnce, LoadIsLoading
    <3> QED
      BY <3>1, <3>2, QuietStore
  <2>2. CASE ~(loaded /\ ApplySnapshot(mut.base \cup mut.new))
    BY <1>19, <2>2, StoreFrame DEF MutationAnswered, ApplySnapshot
  <2> QED
    BY <2>1, <2>2
<1>20. CASE Leaves
  <2>1. SeqsOnce'
    BY <1>20 DEF Leaves, StoreInv, SeqsOnce
  <2> QED
    BY <1>20, <2>1, FreshStore DEF Leaves
<1>21. CASE Enters
  <2>1. StoreQuiet
    BY <1>21 DEF Enters, StoreInv, QuietWhileAway
  <2>2. StoreQuiet' /\ SeqsOnce' /\ LoadIsLoading'
    BY <1>21, <2>1 DEF Enters, DropQueue, AskLoad, StoreQuiet, StoreInv, SeqsOnce,
                       LoadIsLoading
  <2> QED
    BY <2>2, QuietStore
<1>22. CASE Closes
  BY <1>22, ClosesKeeps
<1>23. CASE Crashes
  <2>1. SeqsOnce'
    BY <1>23 DEF Crashes, StoreInv, SeqsOnce
  <2> QED
    BY <1>23, <2>1, FreshStore DEF Crashes, NewRenderer
<1>24. CASE Main
  BY <1>24, MainKeeps
<1>25. CASE UNCHANGED documentVars
  BY <1>25, StoreFrame DEF documentVars
<1> QED
  BY <1>1, <1>2, <1>3, <1>4, <1>5, <1>6, <1>7, <1>8, <1>9, <1>10, <1>11, <1>12,
     <1>13, <1>14, <1>15, <1>16, <1>17, <1>18, <1>19, <1>20, <1>21, <1>22,
     <1>23, <1>24, <1>25
     DEF DocumentNext, StoreAnswered, MutationProgress

-----------------------------------------------------------------------------
(* The theorems *)

\* The store's bookkeeping is in order at every moment.
THEOREM StoreInvariant == DocumentSpec => []IInv
<1>1. DocumentInit => IInv
  BY TypeInit, StoreInit DEF IInv
<1>2. IInv /\ [DocumentNext]_documentVars => IInv'
  BY TypeNext, StoreNext DEF IInv
<1> QED
  BY <1>1, <1>2, PTL DEF DocumentSpec

\* Every variable of editor, store, mutation and file keeps its type.
THEOREM AutosaveTypeCorrect == DocumentSpec => []DocumentTypeOK
<1>1. IInv => DocumentTypeOK
  BY DEF IInv
<1> QED
  BY <1>1, StoreInvariant, PTL

\* No lost wake-up of the autosave (documentStore.ts, updateContent and the
\* finally block of saveDocument): a change in the store that is on its way
\* neither to the disk nor into the queue has a timer or an error.
THEOREM ChangesAreScheduled == DocumentSpec => []ChangeIsScheduled
<1>1. IInv => ChangeIsScheduled
  BY DEF IInv, StoreInv
<1> QED
  BY <1>1, StoreInvariant, PTL

\* The store never says "saving" without a save whose answer it will take
\* (documentStore.ts, the save token): no later save waits behind nothing.
THEOREM SavingIsNeverStuck == DocumentSpec => []SavingIsAwaited
<1>1. IInv => SavingIsAwaited
  BY DEF IInv, StoreInv
<1> QED
  BY <1>1, StoreInvariant, PTL

-----------------------------------------------------------------------------
(* The shrink guard *)

\* What the guard rests on: there is a document to lose.
GuardLooks == Skeleton # {}

\* No file operation has failed, and every save that has passed the guard holds
\* something.  (A read that fails skips the guard: document-service.ts,
\* readMarkdownIfExists.)
Guarded ==
  /\ proposal # {} /\ faults["file"] = MaxFileFaults
  /\ \A s \in saves : s.at \in {"tmp", "backup", "rename", "meta"} => s.content # {}

\* No step of the editor, the store or a mutation touches what the guard guards.
LEMMA GuardFrame ==
  ASSUME Guarded, UNCHANGED <<proposal, faults>>, saves' \subseteq saves
  PROVE  Guarded'
BY DEF Guarded

LEMMA GuardedSubmit ==
  ASSUME Guarded, NEW by, NEW c, Submit(by, c), UNCHANGED <<proposal, faults>>
  PROVE  Guarded'
BY DEF Guarded, Submit

LEMMA GuardedSaveDocument ==
  ASSUME Guarded, SaveDocument
  PROVE  Guarded'
<1>1. CASE saving
  BY <1>1, GuardFrame DEF SaveDocument, fileVars
<1>2. CASE ~saving
  BY <1>2, GuardedSubmit DEF SaveDocument
<1> QED
  BY <1>1, <1>2

\* A step after which no file operation has failed is not a failing one.
LEMMA NothingFailed ==
  ASSUME DocumentTypeOK, Guarded, faults'["file"] = MaxFileFaults
  PROVE  ~Fails("file")
BY DEF DocumentTypeOK, Guarded, Fails

\* A save that is to go on past the guard has been found to hold something.
LEMMA GuardedGoes ==
  ASSUME DocumentTypeOK, Guarded, NEW s \in saves, NEW r,
         r.content = s.content,
         r.at \in {"tmp", "backup", "rename", "meta"} => s.content # {},
         saves' = (saves \ {s}) \cup {r},
         proposal' # {}, faults'["file"] = MaxFileFaults
  PROVE  Guarded'
BY DEF Guarded

LEMMA GuardedMain ==
  ASSUME DocumentTypeOK, Guarded, SaveStep, faults'["file"] = MaxFileFaults
  PROVE  Guarded'
<1>1. PICK s \in saves : \/ SaveReads(s) \/ SaveWritesTmp(s) \/ SaveWritesBackup(s)
                         \/ SaveRenames(s) \/ SaveWritesMeta(s)
  BY DEF SaveStep
<1>2. s \in Save
  BY DEF DocumentTypeOK
<1>3. ~Fails("file")
  BY NothingFailed
<1>4. proposal' # {}
  BY <1>1 DEF Guarded, SaveReads, SaveWritesTmp, SaveWritesBackup, SaveRenames,
              SaveWritesMeta
<1>5. ASSUME NEW place, Goes(s, place),
             place \in {"tmp", "backup", "rename", "meta"} => s.content # {}
      PROVE  Guarded'
  <2> DEFINE r == [s EXCEPT !.at = place]
  <2>1. r.at = place /\ r.content = s.content
    BY <1>2 DEF Save
  <2>2. saves' = (saves \ {s}) \cup {r}
    BY <1>5 DEF Goes
  <2> HIDE DEF r
  <2> QED
    BY <1>4, <1>5, <2>1, <2>2, GuardedGoes
<1>6. CASE SaveReads(s)
  <2> DEFINE r == [s EXCEPT !.found = proposal,
                     !.at = IF Collapses(proposal, s.content) THEN "error"
                            ELSE "tmp"]
  <2>1. r.content = s.content
        /\ r.at = IF Collapses(proposal, s.content) THEN "error" ELSE "tmp"
    BY <1>2 DEF Save
  <2>2. r.at \in {"tmp", "backup", "rename", "meta"} => s.content # {}
    BY <2>1 DEF Collapses, Guarded
  <2>3. saves' = (saves \ {s}) \cup {r}
    BY <1>3, <1>6 DEF SaveReads
  <2> HIDE DEF r
  <2> QED
    BY <1>4, <2>1, <2>2, <2>3, GuardedGoes
<1>7. CASE SaveWritesTmp(s)
  <2>1. s.content # {}
    BY <1>7 DEF SaveWritesTmp, Guarded
  <2> QED
    BY <1>5, <1>7, <2>1 DEF SaveWritesTmp
<1>8. CASE SaveWritesBackup(s)
  <2>1. s.content # {}
    BY <1>8 DEF SaveWritesBackup, Guarded
  <2> QED
    BY <1>5, <1>8, <2>1 DEF SaveWritesBackup
<1>9. CASE SaveRenames(s)
  <2>1. s.content # {}
    BY <1>9 DEF SaveRenames, Guarded
  <2> QED
    BY <1>5, <1>9, <2>1 DEF SaveRenames
<1>10. CASE SaveWritesMeta(s)
  <2>1. s.content # {}
    BY <1>10 DEF SaveWritesMeta, Guarded
  <2> QED
    BY <1>5, <1>10, <2>1 DEF SaveWritesMeta
<1> QED
  BY <1>1, <1>6, <1>7, <1>8, <1>9, <1>10

\* Quitting writes nothing that the guard would refuse.
LEMMA GuardedSync ==
  ASSUME DocumentTypeOK, Guarded, NEW c, SaveSyncWrites(c) \/ SaveSyncFails(c),
         faults'["file"] = MaxFileFaults
  PROVE  Guarded'
<1>1. ~Fails("file")
  BY NothingFailed
<1>2. proposal' # {}
  BY <1>1 DEF SaveSyncWrites, SaveSyncFails, Collapses, Guarded
<1>3. saves' = saves
  BY DEF SaveSyncWrites, SaveSyncFails
<1> QED
  BY <1>2, <1>3 DEF Guarded

\* A structure mutation's own failures are failures of the sidecar.
LEMMA GuardedSidecar ==
  ASSUME DocumentTypeOK, Guarded, Fails("sidecar"), UNCHANGED proposal, saves' \subseteq saves
  PROVE  Guarded'
BY DEF DocumentTypeOK, Guarded, Fails

\* As long as no file operation fails, the step after a guarded state is guarded.
LEMMA GuardedNext ==
  ASSUME DocumentTypeOK, Guarded, [DocumentNext]_documentVars, faults'["file"] = MaxFileFaults
  PROVE  Guarded'
<1> USE DEF fileVars
<1>0. ~Fails("file")
  BY NothingFailed
<1>1. ASSUME NEW c \in Changes, Types(c) \/ MutationStarts(c)
      PROVE  Guarded'
  BY <1>1, GuardFrame DEF Types, MutationStarts
<1>2. CASE Echoes \/ Clears \/ Serializes
  BY <1>2, GuardFrame DEF Echoes, Clears, Serializes
<1>3. CASE AutosaveFires \/ UserRetries \/ FlushSaves
  BY <1>3, GuardedSaveDocument DEF AutosaveFires, UserRetries, FlushSaves
<1>4. ASSUME NEW s, SaveAnswered(s) \/ MutationSaved(s)
      PROVE  Guarded'
  BY <1>4, GuardFrame DEF SaveAnswered, MutationSaved
<1>5. CASE LoadReads
  BY <1>0, <1>5, GuardFrame DEF LoadReads
<1>6. CASE LoadAnswered \/ LoadsAgain \/ MutationCalls \/ FlushFails
           \/ MutationAnswered
  BY <1>6, GuardFrame DEF LoadAnswered, LoadsAgain, MutationCalls, FlushFails,
                          MutationAnswered
<1>7. CASE MutationLoads
  BY <1>0, <1>7, GuardFrame DEF MutationLoads
<1>8. CASE MutationIndexes
  <2>1. CASE Fails("sidecar")
    BY <1>8, <2>1, GuardedSidecar, GuardFrame, GuardedSubmit DEF MutationIndexes
  <2>2. CASE ~Fails("sidecar")
    BY <1>8, <2>2, GuardedSubmit DEF MutationIndexes
  <2> QED
    BY <2>1, <2>2
<1>9. CASE MutationRollsBack
  <2>1. CASE Fails("sidecar")
    BY <1>9, <2>1, GuardedSidecar DEF MutationRollsBack
  <2>2. CASE ~Fails("sidecar")
    BY <1>9, <2>2, GuardFrame DEF MutationRollsBack
  <2> QED
    BY <2>1, <2>2
<1>10. CASE Leaves \/ Enters
  BY <1>10, GuardFrame DEF Leaves, Enters
<1>11. CASE Closes
  <2> DEFINE last == IF Mounted THEN editor ELSE content
  <2>1. CASE SaveSyncWrites(last) \/ SaveSyncFails(last)
    BY <2>1, GuardedSync
  <2>2. CASE UNCHANGED fileVars
    BY <2>2, GuardFrame
  <2> QED
    BY <1>11, <2>1, <2>2 DEF Closes
<1>12. CASE Crashes
  BY <1>12, GuardFrame DEF Crashes
<1>13. CASE Main
  BY <1>13, GuardedMain DEF Main
<1>14. CASE UNCHANGED documentVars
  BY <1>14, GuardFrame DEF documentVars
<1> QED
  BY <1>1, <1>2, <1>3, <1>4, <1>5, <1>6, <1>7, <1>8, <1>9, <1>10, <1>11, <1>12,
     <1>13, <1>14
     DEF DocumentNext, StoreAnswered, MutationProgress

\* What has failed stays counted.
LEMMA FaultsFall ==
  ASSUME DocumentTypeOK, [DocumentNext]_documentVars
  PROVE  faults'["file"] <= faults["file"]
<1> DEFINE Fall == faults'["file"] <= faults["file"]
<1> USE DEF fileVars
<1>0. faults["file"] \in Nat
  BY DEF DocumentTypeOK
<1>1. UNCHANGED faults => Fall
  BY <1>0
<1>2. ASSUME NEW kind, Fails(kind)
      PROVE  Fall
  BY <1>0, <1>2 DEF Fails, DocumentTypeOK
<1>3. ASSUME NEW c \in Changes, Types(c) \/ MutationStarts(c)
      PROVE  Fall
  BY <1>1, <1>3 DEF Types, MutationStarts
<1>4. CASE Echoes \/ Clears \/ Serializes
  BY <1>1, <1>4 DEF Echoes, Clears, Serializes
<1>5. CASE AutosaveFires \/ UserRetries \/ FlushSaves
  BY <1>1, <1>5 DEF AutosaveFires, UserRetries, FlushSaves, SaveDocument
<1>6. ASSUME NEW s, SaveAnswered(s) \/ MutationSaved(s)
      PROVE  Fall
  BY <1>1, <1>6 DEF SaveAnswered, MutationSaved
<1>7. CASE LoadReads \/ MutationLoads \/ MutationIndexes \/ MutationRollsBack
  BY <1>1, <1>2, <1>7 DEF LoadReads, MutationLoads, MutationIndexes, MutationRollsBack
<1>8. CASE LoadAnswered \/ LoadsAgain \/ MutationCalls \/ FlushFails
           \/ MutationAnswered
  BY <1>1, <1>8 DEF LoadAnswered, LoadsAgain, MutationCalls, FlushFails,
                    MutationAnswered
<1>9. CASE Leaves \/ Enters \/ Crashes \/ UNCHANGED documentVars
  BY <1>1, <1>9 DEF Leaves, Enters, Crashes, documentVars
<1>10. CASE Closes
  <2> DEFINE last == IF Mounted THEN editor ELSE content
  <2>1. CASE SaveSyncWrites(last) \/ SaveSyncFails(last)
    BY <1>1, <1>2, <2>1 DEF SaveSyncWrites, SaveSyncFails
  <2>2. CASE UNCHANGED fileVars
    BY <1>1, <2>2
  <2> QED
    BY <1>10, <2>1, <2>2 DEF Closes
<1>11. CASE Main
  <2>1. PICK s \in saves : \/ SaveReads(s) \/ SaveWritesTmp(s) \/ SaveWritesBackup(s)
                           \/ SaveRenames(s) \/ SaveWritesMeta(s)
    BY <1>11 DEF Main, SaveStep
  <2> QED
    BY <1>1, <1>2, <2>1 DEF SaveReads, SaveWritesTmp, SaveWritesBackup, SaveRenames,
                            SaveWritesMeta
<1> QED
  BY <1>3, <1>4, <1>5, <1>6, <1>7, <1>8, <1>9, <1>10, <1>11
     DEF DocumentNext, StoreAnswered, MutationProgress, Fall

\* A file operation has failed, or everything is guarded.
GuardInv ==
  /\ faults["file"] <= MaxFileFaults
  /\ faults["file"] = MaxFileFaults => Guarded

\* Until an operation on the files fails, no way of saving, not even the last
\* save of a closing window, empties the file of a document that holds something
\* (document-service.ts, evaluateShrinkGuard).
THEOREM DocumentIsNeverEmptied ==
  ASSUME GuardLooks PROVE DocumentSpec => NeverEmptied
<1> DEFINE Step == [proposal' = {} => faults'["file"] < MaxFileFaults]_proposal
<1>1. DocumentInit => GuardInv
  BY DocumentFileAssumption DEF DocumentInit, FileInit, GuardInv, Guarded, GuardLooks
<1>2. DocumentTypeOK /\ GuardInv /\ [DocumentNext]_documentVars => GuardInv' /\ Step
  <2> SUFFICES ASSUME DocumentTypeOK, GuardInv, [DocumentNext]_documentVars
               PROVE  GuardInv' /\ Step
    OBVIOUS
  <2>1. faults'["file"] <= faults["file"]
    BY FaultsFall
  <2>2. faults["file"] \in Nat /\ faults'["file"] \in Nat /\ MaxFileFaults \in Nat
    BY DocumentFileAssumption, TypeNext DEF DocumentTypeOK
  <2> QED
    <3>1. CASE faults'["file"] = MaxFileFaults
      <4>1. faults["file"] = MaxFileFaults
        BY <2>1, <2>2, <3>1 DEF GuardInv
      <4>2. Guarded'
        BY <3>1, <4>1, GuardedNext DEF GuardInv
      <4> QED
        BY <2>1, <2>2, <3>1, <4>2 DEF GuardInv, Guarded
    <3>2. CASE faults'["file"] # MaxFileFaults
      <4>1. faults'["file"] < MaxFileFaults
        BY <2>1, <2>2, <3>2 DEF GuardInv, DocumentTypeOK
      <4> QED
        BY <2>2, <4>1, <3>2 DEF GuardInv
    <3> QED
      BY <3>1, <3>2
<1> QED
  BY <1>1, <1>2, AutosaveTypeCorrect, PTL DEF DocumentSpec, NeverEmptied
-----------------------------------------------------------------------------
(* What is on the disk, as long as nobody closes the window over unsaved      *)
(* changes, no write of a sidecar fails, a document is loaded only when       *)
(* nothing is being saved or rewritten, and no autosave timer is left over    *)
(* when the main process begins a structure mutation.                         *)

Undamaged == "close" \notin Disturbances /\ MaxSidecarFaults = 0

\* The main process is at work on a mutation, or its answer is on the way.
Mutating == mut.at \notin {"idle", "flush"}

LoadsAlone == loading => saves = {} /\ mut.at = "idle"

NoStaleTick == Mutating => ~timer

Orderly == LoadsAlone /\ NoStaleTick

\* A mutation has the document, the renderer's ear and the lock.
MutationHolds ==
  mut.at # "idle" => loaded /\ ~loading /\ mut.heard /\ locked

BusyIsQuiet == Mutating => ~dirty /\ ~saving /\ ~error

\* The only save is the latest one: the store's or the mutation's.
OnlyLatest ==
  /\ \A s \in saves :
       /\ s.seq = sequence
       /\ \/ s.by = "store" /\ s.seq = awaited
          \/ /\ s.by = "structure" /\ mut.at = "saving"
             /\ s.content = mut.base \cup mut.new
  /\ mut.at = "saving" => \E s \in saves : s.by = "structure"

SidecarWorks == faults["sidecar"] = 0

\* A save that has been renamed into place.
Written(s) == s.at \in {"meta", "ok"}

\* How the store and the file differ at each place of a mutation.
CleanIsThere ==
  /\ load = "read" => got = proposal
  /\ loaded /\ ~loading /\ ~dirty /\ mut.at \in {"idle", "flush", "load"} =>
       content = proposal
  /\ \A s \in saves : s.by = "store" /\ Written(s) => proposal = s.content
  /\ mut.at = "index" => content = mut.base /\ proposal = mut.base
  /\ mut.at = "saving" =>
       /\ content = mut.base
       /\ \A s \in saves :
            proposal = IF Written(s) THEN mut.base \cup mut.new ELSE mut.base
  /\ mut.at \in {"rollback", "error"} => proposal = content
  /\ mut.at = "ok" => content = mut.base /\ proposal = mut.base \cup mut.new

CleanInv == MutationHolds /\ BusyIsQuiet /\ OnlyLatest /\ SidecarWorks /\ CleanIsThere

LEMMA CleanFrame ==
  ASSUME CleanInv,
         UNCHANGED <<proposal, sequence, saves, faults, content, loaded, loading,
                     load, got, dirty, saving, error, awaited, mut, locked>>
  PROVE  CleanInv'
BY DEF CleanInv, MutationHolds, BusyIsQuiet, Mutating, OnlyLatest, SidecarWorks,
       CleanIsThere, Written

\* A save in flight is the only one.
LEMMA SaveIsAlone ==
  ASSUME IInv, CleanInv, NEW s \in saves PROVE saves = {s}
BY DEF IInv, StoreInv, SeqsOnce, CleanInv, OnlyLatest

\* The store's save has a store that awaits it, and no mutation at work.
LEMMA StoreSaveAwaited ==
  ASSUME IInv, CleanInv, NEW s \in saves, s.by = "store"
  PROVE  s.seq = awaited /\ saving /\ ~Mutating /\ loaded /\ ~loading
<1>1. s.seq = awaited BY DEF CleanInv, OnlyLatest
<1>2. awaited # 0
  BY <1>1 DEF IInv, DocumentTypeOK, Save, StoreInv, SeqsOnce
<1>3. saving BY <1>2 DEF IInv, StoreInv, AwaitedMeansSaving
<1>4. ~Mutating BY <1>3 DEF CleanInv, BusyIsQuiet
<1>5. loaded /\ ~loading BY <1>3 DEF IInv, StoreInv, QuietWhileAway, StoreQuiet
<1> QED BY <1>1, <1>3, <1>4, <1>5

\* A store that is not saving, and no save of a mutation: there is none.
LEMMA NoSave ==
  ASSUME IInv, CleanInv, ~saving, mut.at # "saving" PROVE saves = {}
<1> SUFFICES ASSUME NEW s \in saves PROVE FALSE
  OBVIOUS
<1>1. s.by # "structure" BY DEF CleanInv, OnlyLatest
<1>2. s.by = "store" BY <1>1 DEF CleanInv, OnlyLatest
<1> QED BY <1>2, StoreSaveAwaited

LEMMA CleanSaveDocument ==
  ASSUME IInv, CleanInv, SaveDocument, ~StoreQuiet, ~Mutating,
         UNCHANGED <<content, loaded, loading, load, got, dirty, mut, locked>>
  PROVE  CleanInv'
<1>1. CASE saving
  BY <1>1, CleanFrame DEF SaveDocument, fileVars
<1>2. CASE ~saving
  <2>1. mut.at # "saving" /\ saves = {}
    BY <1>2, NoSave DEF Mutating
  <2> DEFINE s == [seq |-> sequence + 1, by |-> "store", content |-> content,
                   found |-> {}, at |-> "read"]
  <2>2. /\ saves' = {s} /\ sequence' = sequence + 1 /\ awaited' = sequence + 1
        /\ UNCHANGED <<proposal, faults>>
    BY <1>2, <2>1 DEF SaveDocument, Submit
  <2>3. s.seq = sequence + 1 /\ s.by = "store" /\ s.at = "read"
    OBVIOUS
  <2> HIDE DEF s
  <2>4. MutationHolds' /\ BusyIsQuiet' /\ SidecarWorks'
    BY <2>2 DEF CleanInv, MutationHolds, BusyIsQuiet, Mutating, SidecarWorks
  <2>5. OnlyLatest'
    BY <2>1, <2>2, <2>3 DEF OnlyLatest
  <2>6. CleanIsThere'
    BY <2>1, <2>2, <2>3 DEF CleanInv, CleanIsThere, Written, Mutating
  <2> QED BY <2>4, <2>5, <2>6 DEF CleanInv
<1> QED BY <1>1, <1>2

LEMMA CleanSerializes ==
  ASSUME IInv, CleanInv, Serializes PROVE CleanInv'
<1>0. /\ loaded /\ ~loading
      /\ UNCHANGED <<proposal, sequence, saves, faults, loaded, loading, load,
                     got, saving, awaited, mut, locked>>
  BY DEF Serializes, Mounted, fileVars, loadVars, mutVars
<1>1. CASE locked \/ Collapses(content, editor)
  <2>1. UNCHANGED <<content, dirty, error>>
    BY <1>1 DEF Serializes, UpdateContent
  <2> QED BY <1>0, <2>1, CleanFrame
<1>2. CASE ~ (locked \/ Collapses(content, editor))
  <2>1. content' = editor /\ dirty' = (dirty \/ content # editor)
    BY <1>2 DEF Serializes, UpdateContent
  <2>2. mut.at = "idle" BY <1>2 DEF CleanInv, MutationHolds
  <2>3. MutationHolds' /\ BusyIsQuiet' /\ SidecarWorks' /\ OnlyLatest'
    BY <1>0, <2>2 DEF CleanInv, MutationHolds, BusyIsQuiet, Mutating, SidecarWorks,
                      OnlyLatest
  <2>4. CleanIsThere'
    BY <1>0, <2>1, <2>2 DEF CleanInv, CleanIsThere, Written
  <2> QED BY <2>3, <2>4 DEF CleanInv
<1> QED BY <1>1, <1>2

LEMMA CleanSaveAnswered ==
  ASSUME IInv, CleanInv, NEW s \in Answered("store"), SaveAnswered(s)
  PROVE  CleanInv'
<1>0. s \in saves /\ s.by = "store" /\ s.at \in {"ok", "error"}
  BY DEF Answered
<1>1. s.seq = awaited /\ ~Mutating /\ loaded /\ ~loading /\ saves = {s}
  BY <1>0, StoreSaveAwaited, SaveIsAlone
<1>2. /\ saves' = {}
      /\ dirty' = IF s.at = "ok" THEN content # s.content ELSE dirty
      /\ UNCHANGED <<proposal, sequence, faults, content, loaded, loading, load,
                     got, mut, locked>>
  BY <1>1 DEF SaveAnswered, loadVars, mutVars
<1>3. MutationHolds' /\ BusyIsQuiet' /\ SidecarWorks' /\ OnlyLatest'
  BY <1>1, <1>2 DEF CleanInv, MutationHolds, BusyIsQuiet, Mutating, SidecarWorks,
                    OnlyLatest
<1>4. ~dirty' => content = proposal
  BY <1>0, <1>1, <1>2 DEF CleanInv, CleanIsThere, Written, Mutating
<1>5. CleanIsThere'
  BY <1>1, <1>2, <1>4 DEF CleanInv, CleanIsThere, Mutating
<1> QED BY <1>3, <1>5 DEF CleanInv

\* A document is loaded: nothing else is under way.
LEMMA CleanLoading ==
  ASSUME IInv, CleanInv, LoadsAlone', loading',
         load' \in {"none", "asked"} \/ got' = proposal,
         UNCHANGED <<proposal, faults>>
  PROVE  CleanInv'
<1>1. saves' = {} /\ mut'.at = "idle"
  BY DEF LoadsAlone
<1>2. MutationHolds' /\ BusyIsQuiet' /\ SidecarWorks' /\ OnlyLatest'
  BY <1>1 DEF CleanInv, MutationHolds, BusyIsQuiet, Mutating, SidecarWorks, OnlyLatest
<1>3. CleanIsThere'
  BY <1>1 DEF CleanIsThere
<1> QED BY <1>2, <1>3 DEF CleanInv

\* A load is over.
LEMMA CleanLoaded ==
  ASSUME IInv, CleanInv, Orderly, load # "none", load' = "none",
         loaded' => content' = proposal,
         UNCHANGED <<proposal, sequence, saves, mut, locked>>,
         faults'["sidecar"] = faults["sidecar"]
  PROVE  CleanInv'
<1>1. loading BY DEF IInv, StoreInv, LoadIsLoading
<1>2. saves = {} /\ mut.at = "idle" BY <1>1 DEF Orderly, LoadsAlone
<1>3. MutationHolds' /\ BusyIsQuiet' /\ SidecarWorks' /\ OnlyLatest'
  BY <1>2 DEF CleanInv, MutationHolds, BusyIsQuiet, Mutating, SidecarWorks, OnlyLatest
<1>4. CleanIsThere'
  BY <1>2 DEF CleanIsThere
<1> QED BY <1>3, <1>4 DEF CleanInv
\* What the main process does with a save, in one form.
Moves(s, r) ==
  /\ r.seq = s.seq /\ r.by = s.by /\ r.content = s.content
  /\ saves' = (saves \ {s}) \cup {r}
  /\ \/ proposal' = proposal /\ (Written(r) <=> Written(s))
     \/ proposal' = s.content /\ Written(r) /\ ~Written(s)

LEMMA MainMoves ==
  ASSUME IInv, CleanInv, Main
  PROVE  /\ \E s \in saves : \E r : Moves(s, r)
         /\ faults'["sidecar"] = faults["sidecar"] /\ sequence' = sequence
<1>1. PICK s \in saves : \/ SaveReads(s) \/ SaveWritesTmp(s) \/ SaveWritesBackup(s)
                         \/ SaveRenames(s) \/ SaveWritesMeta(s)
  BY DEF Main, SaveStep
<1>2. s \in Save /\ s.seq = sequence
  BY DEF IInv, DocumentTypeOK, CleanInv, OnlyLatest
<1>3. ~Fails("sidecar")
  BY DEF Fails, CleanInv, SidecarWorks
<1>4. sequence' = sequence
  BY <1>1 DEF SaveReads, SaveWritesTmp, SaveWritesBackup, SaveRenames, SaveWritesMeta
<1>5. faults'["sidecar"] = faults["sidecar"]
  <2>1. UNCHANGED faults \/ Fails("file")
    BY <1>1, <1>3 DEF SaveReads, SaveWritesTmp, SaveWritesBackup, SaveRenames, SaveWritesMeta
  <2> QED BY <2>1 DEF Fails, IInv, DocumentTypeOK
<1>6. ASSUME NEW place, Goes(s, place),
             \/ proposal' = proposal
                /\ (place \in {"meta", "ok"} <=> s.at \in {"meta", "ok"})
             \/ proposal' = s.content /\ place \in {"meta", "ok"} /\ s.at = "rename"
      PROVE  \E r : Moves(s, r)
  <2> DEFINE r == [s EXCEPT !.at = place]
  <2>1. r.seq = s.seq /\ r.by = s.by /\ r.content = s.content /\ r.at = place
    BY <1>2 DEF Save
  <2>2. saves' = (saves \ {s}) \cup {r}
    BY <1>6 DEF Goes
  <2> HIDE DEF r
  <2>3. Moves(s, r)
    BY <1>6, <2>1, <2>2 DEF Moves, Written
  <2> QED BY <2>3
<1> SUFFICES \E r : Moves(s, r)
  BY <1>4, <1>5
<1>7. CASE SaveReads(s)
  <2>1. CASE Goes(s, "tmp")
    BY <1>6, <1>7, <2>1 DEF SaveReads
  <2>2. CASE ~Goes(s, "tmp")
    <3> DEFINE r == [s EXCEPT !.found = proposal,
                       !.at = IF Collapses(proposal, s.content) THEN "error"
                              ELSE "tmp"]
    <3>1. /\ r.seq = s.seq /\ r.by = s.by /\ r.content = s.content
          /\ r.at \in {"error", "tmp"}
      BY <1>2 DEF Save
    <3>2. saves' = (saves \ {s}) \cup {r} /\ proposal' = proposal /\ s.at = "read"
      BY <1>7, <2>2 DEF SaveReads
    <3> HIDE DEF r
    <3>3. Moves(s, r)
      BY <3>1, <3>2 DEF Moves, Written
    <3> QED BY <3>3
  <2> QED BY <2>1, <2>2
<1>8. CASE SaveWritesTmp(s)
  BY <1>2, <1>6, <1>8 DEF SaveWritesTmp
<1>9. CASE SaveWritesBackup(s)
  BY <1>6, <1>9 DEF SaveWritesBackup
<1>10. CASE SaveRenames(s)
  BY <1>2, <1>6, <1>10 DEF SaveRenames
<1>11. CASE SaveWritesMeta(s)
  BY <1>3, <1>6, <1>11 DEF SaveWritesMeta
<1> QED BY <1>1, <1>7, <1>8, <1>9, <1>10, <1>11

\* A save goes on to its next place, and the file follows it.
LEMMA CleanSaveMoves ==
  ASSUME IInv, CleanInv, Orderly, NEW s \in saves, NEW r,
         r.seq = s.seq /\ r.by = s.by /\ r.content = s.content,
         saves' = (saves \ {s}) \cup {r},
         \/ proposal' = proposal /\ (Written(r) <=> Written(s))
         \/ proposal' = s.content /\ Written(r),
         faults'["sidecar"] = faults["sidecar"],
         UNCHANGED <<sequence, content, loaded, loading, load, got, dirty,
                     saving, error, awaited, mut, locked>>
  PROVE  CleanInv'
<1>1. saves = {s} /\ saves' = {r}
  <2>1. saves = {s} BY SaveIsAlone
  <2> QED BY <2>1
<1>2. load # "read"
  BY DEF Orderly, LoadsAlone, IInv, StoreInv, LoadIsLoading
<1>3. MutationHolds' /\ BusyIsQuiet' /\ SidecarWorks'
  BY DEF CleanInv, MutationHolds, BusyIsQuiet, Mutating, SidecarWorks
<1>4. OnlyLatest'
  BY <1>1 DEF CleanInv, OnlyLatest
<1>5. CASE s.by = "store"
  <2>1. s.seq = awaited /\ saving /\ ~Mutating
    BY <1>5, StoreSaveAwaited
  <2>2. ~dirty => content = s.content
    BY <2>1 DEF IInv, StoreInv, DirtyIfChanged
  <2>3. Written(r) => proposal' = r.content
    BY <1>5 DEF CleanInv, CleanIsThere
  <2>4. CleanIsThere'
    BY <1>1, <1>2, <1>5, <2>1, <2>2, <2>3
       DEF CleanInv, CleanIsThere, Mutating, Written
  <2> QED BY <1>3, <1>4, <2>4 DEF CleanInv
<1>6. CASE s.by # "store"
  <2>1. mut.at = "saving" /\ s.content = mut.base \cup mut.new
    BY <1>6 DEF CleanInv, OnlyLatest
  <2>2. proposal' = IF Written(r) THEN mut.base \cup mut.new ELSE mut.base
    BY <2>1 DEF CleanInv, CleanIsThere
  <2>3. content = mut.base
    BY <2>1 DEF CleanInv, CleanIsThere
  <2>4. CleanIsThere'
    <3>1. \A q \in saves' : q = r
      BY <1>1
    <3>2. r.by # "store" /\ mut' = mut /\ content' = content /\ load' = load
      BY <1>6
    <3> HIDE DEF Written
    <3>3. \A q \in saves' : proposal' = IF Written(q)' THEN mut'.base \cup mut'.new
                                        ELSE mut'.base
      BY <2>2, <3>1, <3>2 DEF Written
    <3>4. mut'.at = "saving" /\ content' = mut'.base /\ load' # "read"
      BY <1>2, <2>1, <2>3, <3>2
    <3>5. \A q \in saves' : q.by # "store"
      BY <3>1, <3>2
    <3> QED BY <3>3, <3>4, <3>5 DEF CleanIsThere
  <2> QED BY <1>3, <1>4, <2>4 DEF CleanInv
<1> QED BY <1>5, <1>6

\* The main process's half of a save.
LEMMA CleanMain ==
  ASSUME IInv, CleanInv, Orderly, Main PROVE CleanInv'
<1>1. UNCHANGED <<content, loaded, loading, load, got, dirty, saving, error,
                  awaited, mut, locked>>
  BY DEF Main, autoSave, loadVars, mutVars
<1>2. PICK s \in saves : \E r : Moves(s, r)
  BY MainMoves
<1>3. PICK r : Moves(s, r)
  BY <1>2
<1> QED BY <1>1, <1>3, MainMoves, CleanSaveMoves DEF Moves

\* The renderer's half of a mutation, up to the call.
LEMMA CleanMutationBegins ==
  ASSUME IInv, CleanInv, LoadsAlone',
         (\E m \in Changes : MutationStarts(m)) \/ MutationCalls \/ FlushFails
  PROVE  CleanInv'
<1>0. /\ UNCHANGED <<proposal, sequence, saves, faults, content, loaded, loading,
                     load, got, dirty, saving, error, awaited>>
  BY DEF MutationStarts, MutationCalls, FlushFails, fileVars, loadVars, autoSave
<1>1. \/ /\ mut.at = "idle" /\ loaded /\ mut'.at = "flush" /\ mut'.heard /\ locked'
      \/ /\ mut.at = "flush" /\ FlushOver /\ mut'.at = "load"
         /\ mut'.heard = mut.heard /\ locked' = locked
      \/ mut.at = "flush" /\ mut'.at = "idle"
  <2>1. ASSUME NEW m \in Changes, MutationStarts(m)
        PROVE  /\ mut.at = "idle" /\ loaded /\ mut'.at = "flush" /\ mut'.heard
               /\ locked'
    BY <2>1 DEF MutationStarts, Idle
  <2>2. CASE MutationCalls
    BY <2>2 DEF MutationCalls, IInv, DocumentTypeOK
  <2>3. CASE FlushFails
    BY <2>3 DEF FlushFails, Release, Idle
  <2> QED BY <2>1, <2>2, <2>3
<1>2. MutationHolds'
  BY <1>0, <1>1 DEF CleanInv, MutationHolds, LoadsAlone
<1>3. BusyIsQuiet'
  BY <1>0, <1>1 DEF CleanInv, MutationHolds, BusyIsQuiet, Mutating, FlushOver
<1>4. OnlyLatest' /\ SidecarWorks'
  BY <1>0, <1>1 DEF CleanInv, OnlyLatest, SidecarWorks
<1>5. CleanIsThere'
  BY <1>0, <1>1 DEF CleanInv, CleanIsThere, Written
<1> QED BY <1>2, <1>3, <1>4, <1>5 DEF CleanInv

\* The main process's half of a mutation, and the answer.
LEMMA CleanMutationLoads ==
  ASSUME IInv, CleanInv, MutationLoads PROVE CleanInv'
<1>0. /\ mut.at = "load"
      /\ UNCHANGED <<proposal, sequence, saves, content, loaded, loading,
                     load, got, dirty, saving, error, awaited, locked>>
      /\ \/ mut'.at = "index" /\ mut'.base = proposal
         \/ mut'.at = "error"
      /\ mut'.heard = mut.heard
  BY DEF MutationLoads, loadVars, autoSave, IInv, DocumentTypeOK
<1>1. SidecarWorks'
  BY DEF MutationLoads, Fails, CleanInv, SidecarWorks, IInv, DocumentTypeOK
<1>2. MutationHolds' /\ BusyIsQuiet'
  BY <1>0 DEF CleanInv, MutationHolds, BusyIsQuiet, Mutating
<1>3. saves = {}
  BY <1>0, NoSave DEF CleanInv, BusyIsQuiet, Mutating
<1>4. content = proposal
  BY <1>0 DEF CleanInv, CleanIsThere, MutationHolds, BusyIsQuiet, Mutating
<1>5. OnlyLatest' /\ CleanIsThere'
  BY <1>0, <1>3, <1>4 DEF CleanInv, OnlyLatest, CleanIsThere
<1> QED BY <1>1, <1>2, <1>5 DEF CleanInv

LEMMA CleanMutationIndexes ==
  ASSUME IInv, CleanInv, MutationIndexes PROVE CleanInv'
<1> DEFINE s == [seq |-> sequence + 1, by |-> "structure",
                 content |-> mut.base \cup mut.new, found |-> {}, at |-> "read"]
<1>0. ~Fails("sidecar")
  BY DEF Fails, CleanInv, SidecarWorks
<1>1. /\ mut.at = "index" /\ mut' = [mut EXCEPT !.at = "saving"]
      /\ saves' = saves \cup {s} /\ sequence' = sequence + 1
      /\ UNCHANGED <<proposal, faults, content, loaded, loading,
                     load, got, dirty, saving, error, awaited, locked>>
  BY <1>0 DEF MutationIndexes, Submit, loadVars, autoSave
<1>2. saves = {}
  BY <1>1, NoSave DEF CleanInv, BusyIsQuiet, Mutating
<1>3. /\ s.seq = sequence + 1 /\ s.by = "structure" /\ s.at = "read"
      /\ s.content = mut.base \cup mut.new
  OBVIOUS
<1>4. /\ mut'.at = "saving" /\ mut'.base = mut.base /\ mut'.new = mut.new
      /\ mut'.heard = mut.heard
  BY <1>1 DEF IInv, DocumentTypeOK
<1> HIDE DEF s
<1>5. MutationHolds' /\ BusyIsQuiet' /\ SidecarWorks'
  BY <1>1, <1>4 DEF CleanInv, MutationHolds, BusyIsQuiet, Mutating, SidecarWorks
<1>6. OnlyLatest'
  BY <1>1, <1>2, <1>3, <1>4 DEF OnlyLatest
<1>7. load # "read"
  BY <1>1 DEF CleanInv, MutationHolds, IInv, StoreInv, LoadIsLoading
<1>8. CleanIsThere'
  BY <1>1, <1>2, <1>3, <1>4, <1>7 DEF CleanInv, CleanIsThere, Written
<1> QED BY <1>5, <1>6, <1>8 DEF CleanInv

LEMMA CleanMutationSaved ==
  ASSUME IInv, CleanInv, NEW s \in Answered("structure"), MutationSaved(s)
  PROVE  CleanInv'
<1>0. s \in saves /\ s.at \in {"ok", "error"} /\ saves = {s}
  BY SaveIsAlone DEF Answered
<1>1. /\ mut.at = "saving" /\ saves' = {}
      /\ mut' = [mut EXCEPT !.at = IF s.at = "ok" THEN "ok" ELSE "rollback"]
      /\ UNCHANGED <<proposal, sequence, faults, content, loaded, loading,
                     load, got, dirty, saving, error, awaited, locked>>
  BY <1>0 DEF MutationSaved, loadVars, autoSave
<1>2. /\ mut'.at = IF s.at = "ok" THEN "ok" ELSE "rollback"
      /\ mut'.base = mut.base /\ mut'.new = mut.new /\ mut'.heard = mut.heard
  BY <1>1 DEF IInv, DocumentTypeOK
<1>3. MutationHolds' /\ BusyIsQuiet' /\ SidecarWorks' /\ OnlyLatest'
  BY <1>1, <1>2 DEF CleanInv, MutationHolds, BusyIsQuiet, Mutating, SidecarWorks, OnlyLatest
<1>4. /\ content = mut.base
      /\ proposal = IF s.at = "ok" THEN mut.base \cup mut.new ELSE mut.base
  BY <1>0, <1>1 DEF CleanInv, CleanIsThere, Written
<1>5. load # "read"
  BY <1>1 DEF CleanInv, MutationHolds, IInv, StoreInv, LoadIsLoading
<1>6. CleanIsThere'
  BY <1>1, <1>2, <1>4, <1>5 DEF CleanIsThere
<1> QED BY <1>3, <1>6 DEF CleanInv

LEMMA CleanMutationRollsBack ==
  ASSUME IInv, CleanInv, MutationRollsBack PROVE CleanInv'
<1>0. ~Fails("sidecar")
  BY DEF Fails, CleanInv, SidecarWorks
<1>1. /\ mut.at = "rollback" /\ mut' = [mut EXCEPT !.at = "error"]
      /\ UNCHANGED <<proposal, sequence, saves, faults, content, loaded, loading,
                     load, got, dirty, saving, error, awaited, locked>>
  BY <1>0 DEF MutationRollsBack, loadVars, autoSave
<1>2. mut'.at = "error" /\ mut'.heard = mut.heard
  BY <1>1 DEF IInv, DocumentTypeOK
<1>3. saves = {}
  BY <1>1, NoSave DEF CleanInv, BusyIsQuiet, Mutating
<1>4. MutationHolds' /\ BusyIsQuiet' /\ SidecarWorks' /\ OnlyLatest'
  BY <1>1, <1>2, <1>3 DEF CleanInv, MutationHolds, BusyIsQuiet, Mutating,
                          SidecarWorks, OnlyLatest
<1>5. CleanIsThere'
  BY <1>1, <1>2, <1>3 DEF CleanInv, CleanIsThere
<1> QED BY <1>4, <1>5 DEF CleanInv

LEMMA CleanMutationAnswered ==
  ASSUME IInv, CleanInv, MutationAnswered PROVE CleanInv'
<1>0. /\ mut.at \in {"ok", "error"} /\ mut'.at = "idle"
      /\ UNCHANGED <<proposal, sequence, saves, faults, loaded, loading>>
  BY DEF MutationAnswered, Idle, fileVars
<1>1. /\ loaded /\ ~loading /\ mut.heard /\ load # "read" /\ saves = {}
  BY <1>0, NoSave DEF CleanInv, MutationHolds, BusyIsQuiet, Mutating, IInv, StoreInv,
                      LoadIsLoading
<1>2. content' = proposal /\ load' # "read"
  <2>1. CASE mut.at = "ok"
    <3>1. ApplySnapshot(mut.base \cup mut.new)
      BY <1>1, <2>1 DEF MutationAnswered
    <3> QED BY <1>1, <2>1, <3>1 DEF ApplySnapshot, CleanInv, CleanIsThere
  <2>2. CASE mut.at = "error"
    BY <1>1, <2>2 DEF MutationAnswered, CleanInv, CleanIsThere
  <2> QED BY <1>0, <2>1, <2>2
<1>3. MutationHolds' /\ BusyIsQuiet' /\ SidecarWorks' /\ OnlyLatest'
  BY <1>0, <1>1 DEF CleanInv, MutationHolds, BusyIsQuiet, Mutating, SidecarWorks, OnlyLatest
<1>4. CleanIsThere'
  BY <1>0, <1>1, <1>2 DEF CleanIsThere
<1> QED BY <1>3, <1>4 DEF CleanInv

LEMMA CleanInit ==
  ASSUME Undamaged, DocumentInit PROVE CleanInv
<1>1. MutationHolds /\ BusyIsQuiet /\ OnlyLatest
  BY DEF DocumentInit, FileInit, Idle, MutationHolds, BusyIsQuiet, Mutating, OnlyLatest
<1>2. SidecarWorks
  BY DEF DocumentInit, FileInit, Undamaged, SidecarWorks
<1>3. CleanIsThere
  BY DEF DocumentInit, FileInit, Idle, CleanIsThere
<1> QED BY <1>1, <1>2, <1>3 DEF CleanInv

LEMMA CleanNext ==
  ASSUME Undamaged
  PROVE  IInv /\ CleanInv /\ Orderly /\ Orderly' /\ [DocumentNext]_documentVars
           => CleanInv'
<1> SUFFICES ASSUME IInv, CleanInv, Orderly, Orderly', [DocumentNext]_documentVars
             PROVE  CleanInv'
  OBVIOUS
<1>0. LoadsAlone' BY DEF Orderly
<1>1. ASSUME NEW c \in Changes, Types(c) PROVE CleanInv'
  BY <1>1, CleanFrame DEF Types, fileVars, loadVars, autoSave, mutVars
<1>2. CASE Echoes \/ Clears
  BY <1>2, CleanFrame DEF Echoes, Clears, fileVars, loadVars, autoSave, mutVars
<1>3. CASE Serializes BY <1>3, CleanSerializes
<1>4. CASE AutosaveFires \/ UserRetries \/ FlushSaves
  <2>1. SaveDocument /\ ~StoreQuiet
    BY <1>4 DEF AutosaveFires, UserRetries, FlushSaves, StoreQuiet
  <2>2. ~Mutating
    BY <1>4 DEF AutosaveFires, UserRetries, FlushSaves, Orderly, NoStaleTick, Mutating,
                CleanInv, BusyIsQuiet
  <2>3. UNCHANGED <<content, loaded, loading, load, got, dirty, mut, locked>>
    BY <1>4 DEF AutosaveFires, UserRetries, FlushSaves, loadVars, mutVars
  <2> QED BY <2>1, <2>2, <2>3, CleanSaveDocument
<1>5. ASSUME NEW s \in Answered("store"), SaveAnswered(s) PROVE CleanInv'
  BY <1>5, CleanSaveAnswered
<1>6. CASE LoadReads
  <2>1. /\ UNCHANGED <<proposal, sequence, saves, mut, locked>>
        /\ faults'["sidecar"] = faults["sidecar"]
    BY <1>6 DEF LoadReads, mutVars, Fails, IInv, DocumentTypeOK
  <2>2. CASE loading'
    <3>1. got' = proposal /\ UNCHANGED faults
      BY <1>6, <2>2 DEF LoadReads
    <3> QED BY <1>0, <2>1, <2>2, <3>1, CleanLoading
  <2>3. CASE ~loading'
    <3>1. load # "none" /\ load' = "none" /\ ~loaded'
      BY <1>6, <2>3 DEF LoadReads, IInv, StoreInv, LoadIsLoading
    <3> QED BY <2>1, <3>1, CleanLoaded
  <2> QED BY <2>2, <2>3
<1>7. CASE LoadAnswered
  <2>1. load = "read" /\ load' = "none" /\ content' = got /\ got = proposal
    BY <1>7 DEF LoadAnswered, CleanInv, CleanIsThere
  <2>2. UNCHANGED <<proposal, sequence, saves, mut, faults, locked>>
    BY <1>7 DEF LoadAnswered, fileVars, mutVars
  <2> QED BY <2>1, <2>2, CleanLoaded
<1>8. CASE LoadsAgain \/ Enters
  <2>1. loading' /\ load' = "asked" /\ UNCHANGED <<proposal, faults>>
    BY <1>8 DEF LoadsAgain, Enters, AskLoad, fileVars
  <2> QED BY <1>0, <2>1, CleanLoading
<1>9. CASE Leaves \/ Crashes
  <2>1. loading' /\ load' = "asked" /\ UNCHANGED <<proposal, faults>>
    BY <1>9 DEF Leaves, Crashes, NewRenderer, AskLoad, fileVars
  <2> QED BY <1>0, <2>1, CleanLoading
<1>10. ~Closes BY DEF Closes, Disturb, Undamaged
<1>11. ASSUME NEW m \in Changes, MutationStarts(m) PROVE CleanInv'
  BY <1>0, <1>11, CleanMutationBegins
<1>12. CASE MutationCalls \/ FlushFails
  BY <1>0, <1>12, CleanMutationBegins
<1>13. CASE MutationLoads BY <1>13, CleanMutationLoads
<1>14. CASE MutationIndexes BY <1>14, CleanMutationIndexes
<1>15. ASSUME NEW s \in Answered("structure"), MutationSaved(s) PROVE CleanInv'
  BY <1>15, CleanMutationSaved
<1>16. CASE MutationRollsBack BY <1>16, CleanMutationRollsBack
<1>17. CASE MutationAnswered BY <1>17, CleanMutationAnswered
<1>18. CASE Main BY <1>18, CleanMain
<1>19. CASE UNCHANGED documentVars
  BY <1>19, CleanFrame DEF documentVars
<1> QED
  BY <1>1, <1>2, <1>3, <1>4, <1>5, <1>6, <1>7, <1>8, <1>9, <1>10, <1>11, <1>12,
     <1>13, <1>14, <1>15, <1>16, <1>17, <1>18, <1>19
     DEF DocumentNext, StoreAnswered, MutationProgress

LEMMA CleanInvariant ==
  ASSUME Undamaged PROVE DocumentSpec /\ []Orderly => []CleanInv
<1>1. DocumentInit => CleanInv BY CleanInit
<1> QED BY <1>1, CleanNext, StoreInvariant, PTL DEF DocumentSpec

\* The store's claim to have nothing to save, which is all the flush before a
\* structure mutation reads (chapterStructureStore.ts, flushPendingContent), is
\* true: as long as no window is closed over changes, no sidecar write fails and
\* loads and ticks are orderly, a clean store holds what is in proposal.md.
THEOREM CleanStoreIsSaved ==
  ASSUME Undamaged PROVE DocumentSpec /\ []Orderly => []CleanIsSaved
<1>1. IInv /\ CleanInv => CleanIsSaved
  <2> SUFFICES ASSUME IInv, CleanInv, loaded, ~loading, ~dirty, ~saving
               PROVE  IF mut.at \in {"idle", "flush"} THEN content = proposal
                                                     ELSE content \subseteq proposal
    BY DEF CleanIsSaved
  <2>1. mut.at \in {"idle", "flush", "load"} => content = proposal
    BY DEF CleanInv, CleanIsThere
  <2>2. mut.at \in {"index", "rollback", "error", "ok"} => content \subseteq proposal
    BY DEF CleanInv, CleanIsThere
  <2>3. mut.at = "saving" => content \subseteq proposal
    BY DEF CleanInv, CleanIsThere, OnlyLatest
  <2>4. mut.at \in MutationPlaces
    BY DEF IInv, DocumentTypeOK
  <2> QED BY <2>1, <2>2, <2>3, <2>4 DEF MutationPlaces
<1> QED BY <1>1, CleanInvariant, StoreInvariant, PTL
-----------------------------------------------------------------------------
(* Nothing is written over: every content on its way to the disk holds what   *)
(* the content before it holds.                                               *)

NothingMissing ==
  /\ \A s \in saves : s.by = "store" =>
       /\ proposal \subseteq s.content \cup cleared
       /\ s.content \subseteq content \cup cleared
  /\ loaded /\ ~loading /\ ~Mutating => proposal \subseteq content \cup cleared
  /\ Mounted => content \subseteq editor \cup cleared

\* A step that keeps this, and takes nothing from the disk.
Keeps == NothingMissing' /\ proposal \ proposal' \subseteq cleared

\* Nothing moves but answers and the places of a mutation.
LEMMA MissingFrame ==
  ASSUME NothingMissing, Mutating' \/ ~Mutating,
         \A s \in saves' : s.by = "store" => s \in saves,
         UNCHANGED <<proposal, content, editor, cleared, loaded, loading, view>>
  PROVE  Keeps
BY DEF Keeps, NothingMissing, Mounted

LEMMA MissingLoading ==
  ASSUME LoadsAlone', loading', UNCHANGED proposal PROVE Keeps
BY DEF Keeps, NothingMissing, Mounted, LoadsAlone

LEMMA MissingSaveDocument ==
  ASSUME IInv, CleanInv, NothingMissing, SaveDocument, ~StoreQuiet, ~Mutating,
         UNCHANGED <<content, editor, cleared, loaded, loading, view, mut>>
  PROVE  Keeps
<1>0. ~Mutating' BY DEF Mutating
<1>1. CASE saving
  <2>1. UNCHANGED <<saves, proposal>>
    BY <1>1 DEF SaveDocument, fileVars
  <2> QED BY <2>1, MissingFrame
<1>2. CASE ~saving
  <2>1. saves = {}
    BY <1>2, NoSave DEF Mutating
  <2>2. saves' = {[seq |-> sequence + 1, by |-> "store", content |-> content,
                   found |-> {}, at |-> "read"]}
        /\ proposal' = proposal
    BY <1>2, <2>1 DEF SaveDocument, Submit
  <2>3. loaded /\ ~loading
    BY DEF IInv, StoreInv, QuietWhileAway
  <2> QED BY <1>0, <2>2, <2>3 DEF Keeps, NothingMissing, Mounted
<1> QED BY <1>1, <1>2

LEMMA MissingSerializes ==
  ASSUME NothingMissing, Serializes PROVE Keeps
<1>0. /\ Mounted /\ Mounted'
      /\ UNCHANGED <<proposal, saves, editor, cleared, loaded, loading, view, mut>>
  BY DEF Serializes, Mounted, fileVars, loadVars, mutVars, history
<1>1. content' = content \/ content' = editor
  BY DEF Serializes, UpdateContent
<1> QED BY <1>0, <1>1 DEF Keeps, NothingMissing, Mutating, Mounted

LEMMA MissingMain ==
  ASSUME IInv, CleanInv, NothingMissing, Main PROVE Keeps
<1>1. UNCHANGED <<content, editor, cleared, loaded, loading, view, mut>>
  BY DEF Main, editorVars, loadVars, mutVars, history
<1>2. PICK s \in saves : \E r : Moves(s, r)
  BY MainMoves
<1>3. PICK r : Moves(s, r)
  BY <1>2
<1>4. saves = {s} /\ saves' = {r}
  <2>1. saves = {s} BY SaveIsAlone
  <2> QED BY <1>3, <2>1 DEF Moves
<1>5. CASE s.by = "store"
  BY <1>1, <1>3, <1>4, <1>5 DEF Moves, Keeps, NothingMissing, Mutating, Mounted
<1>6. CASE s.by # "store"
  <2>1. mut.at = "saving" /\ s.content = mut.base \cup mut.new
    BY <1>6 DEF CleanInv, OnlyLatest
  <2>2. ~Written(s) => proposal = mut.base
    BY <2>1 DEF CleanInv, CleanIsThere
  <2>3. proposal \subseteq proposal'
    BY <1>3, <2>1, <2>2 DEF Moves
  <2>4. NothingMissing'
    BY <1>1, <1>3, <1>4, <1>6, <2>1 DEF Moves, NothingMissing, Mutating, Mounted
  <2> QED BY <2>3, <2>4 DEF Keeps
<1> QED BY <1>5, <1>6

LEMMA MissingMutationAnswered ==
  ASSUME IInv, CleanInv, NothingMissing, MutationAnswered PROVE Keeps
<1>0. /\ mut.at \in {"ok", "error"}
      /\ UNCHANGED <<proposal, saves, cleared, loaded, loading, view>>
  BY DEF MutationAnswered, fileVars, history
<1>1. loaded /\ ~loading /\ mut.heard /\ saves = {}
  BY <1>0, NoSave DEF CleanInv, MutationHolds, BusyIsQuiet, Mutating
<1>2. CASE mut.at = "ok"
  <2>1. /\ content' = proposal
        /\ editor' = IF view = "writing" THEN content' ELSE editor
    BY <1>1, <1>2 DEF MutationAnswered, ApplySnapshot, CleanInv, CleanIsThere
  <2> QED BY <1>0, <1>1, <2>1 DEF Keeps, NothingMissing, Mounted
<1>3. CASE mut.at = "error"
  <2>1. content' = content /\ editor' = editor /\ content = proposal
    BY <1>3 DEF MutationAnswered, CleanInv, CleanIsThere
  <2> QED BY <1>0, <1>1, <2>1 DEF Keeps, NothingMissing, Mounted
<1> QED BY <1>0, <1>2, <1>3

LEMMA MissingNext ==
  ASSUME Undamaged
  PROVE  IInv /\ CleanInv /\ Orderly /\ Orderly' /\ NothingMissing
         /\ [DocumentNext]_documentVars => Keeps
<1> SUFFICES ASSUME IInv, CleanInv, Orderly, Orderly', NothingMissing,
                    [DocumentNext]_documentVars
             PROVE  Keeps
  OBVIOUS
<1> USE DEF fileVars, loadVars, editorVars, mutVars, history
<1>0. LoadsAlone' BY DEF Orderly
<1>1. ASSUME NEW c \in Changes, Types(c) PROVE Keeps
  BY <1>1 DEF Types, Keeps, NothingMissing, Mounted, Mutating
<1>2. CASE Echoes
  BY <1>2, MissingFrame DEF Echoes, Mutating
<1>3. CASE Clears
  BY <1>3 DEF Clears, Keeps, NothingMissing, Mounted, Mutating
<1>4. CASE Serializes BY <1>4, MissingSerializes
<1>5. CASE AutosaveFires \/ UserRetries \/ FlushSaves
  <2>1. SaveDocument /\ ~StoreQuiet
    BY <1>5 DEF AutosaveFires, UserRetries, FlushSaves, StoreQuiet
  <2>2. ~Mutating
    BY <1>5 DEF AutosaveFires, UserRetries, FlushSaves, Orderly, NoStaleTick, Mutating,
                CleanInv, BusyIsQuiet
  <2>3. UNCHANGED <<content, editor, cleared, loaded, loading, view, mut>>
    BY <1>5 DEF AutosaveFires, UserRetries, FlushSaves
  <2> QED BY <2>1, <2>2, <2>3, MissingSaveDocument
<1>6. ASSUME NEW s \in Answered("store"), SaveAnswered(s) PROVE Keeps
  BY <1>6, MissingFrame DEF SaveAnswered, Mutating
<1>7. CASE LoadReads
  <2>1. UNCHANGED <<proposal, saves, content, editor, cleared, view, mut>>
    BY <1>7 DEF LoadReads
  <2>2. CASE loading' BY <1>0, <2>1, <2>2, MissingLoading
  <2>3. CASE ~loading'
    <3>1. ~loaded' BY <1>7, <2>3 DEF LoadReads, IInv, StoreInv, LoadIsLoading
    <3> QED BY <2>1, <3>1 DEF Keeps, NothingMissing, Mounted
  <2> QED BY <2>2, <2>3
<1>8. CASE LoadAnswered
  <2>1. content' = proposal /\ (view = "writing" => editor' = content')
    BY <1>8 DEF LoadAnswered, CleanInv, CleanIsThere
  <2>2. saves = {} /\ UNCHANGED <<proposal, saves, cleared, view>>
    BY <1>8 DEF LoadAnswered, IInv, StoreInv, LoadIsLoading, Orderly, LoadsAlone
  <2> QED BY <2>1, <2>2 DEF Keeps, NothingMissing, Mounted
<1>9. CASE LoadsAgain \/ Enters
  <2>1. loading' /\ UNCHANGED proposal
    BY <1>9 DEF LoadsAgain, Enters, AskLoad
  <2> QED BY <1>0, <2>1, MissingLoading
<1>10. CASE Leaves \/ Crashes
  <2>1. loading' /\ UNCHANGED proposal
    BY <1>10 DEF Leaves, Crashes, NewRenderer, AskLoad
  <2> QED BY <1>0, <2>1, MissingLoading
<1>11. ~Closes BY DEF Closes, Disturb, Undamaged
<1>12. ASSUME NEW m \in Changes, MutationStarts(m) PROVE Keeps
  BY <1>12, MissingFrame DEF MutationStarts, Mutating
<1>13. CASE MutationCalls \/ FlushFails
  BY <1>13, MissingFrame DEF MutationCalls, FlushFails, Mutating
<1>14. CASE MutationLoads \/ MutationRollsBack
  <2>1. Mutating' 
    BY <1>14 DEF MutationLoads, MutationRollsBack, Mutating, IInv, DocumentTypeOK
  <2> QED BY <1>14, <2>1, MissingFrame DEF MutationLoads, MutationRollsBack
<1>15. CASE MutationIndexes
  <2>1. Mutating'
    BY <1>15 DEF MutationIndexes, Mutating, IInv, DocumentTypeOK
  <2>2. \A s \in saves' : s.by = "store" => s \in saves
    BY <1>15 DEF MutationIndexes, Submit
  <2> QED BY <1>15, <2>1, <2>2, MissingFrame DEF MutationIndexes
<1>16. ASSUME NEW s \in Answered("structure"), MutationSaved(s) PROVE Keeps
  <2>1. Mutating'
    BY <1>16 DEF MutationSaved, Mutating, IInv, DocumentTypeOK
  <2> QED BY <1>16, <2>1, MissingFrame DEF MutationSaved
<1>17. CASE MutationAnswered BY <1>17, MissingMutationAnswered
<1>18. CASE Main BY <1>18, MissingMain
<1>19. CASE UNCHANGED documentVars
  BY <1>19, MissingFrame DEF documentVars, Mutating
<1> QED
  BY <1>1, <1>2, <1>3, <1>4, <1>5, <1>6, <1>7, <1>8, <1>9, <1>10, <1>11, <1>12,
     <1>13, <1>14, <1>15, <1>16, <1>17, <1>18, <1>19
     DEF DocumentNext, StoreAnswered, MutationProgress

LEMMA MissingInit == DocumentInit => NothingMissing
BY DEF DocumentInit, FileInit, NothingMissing, Mounted

\* Under the same conditions a change that has reached proposal.md stays in it
\* until the user takes it out: no save that was begun with an older content, be it the store's or a
\* structure mutation's, is renamed over a newer one (document-service.ts, save;
\* chapter-structure-service.ts, applyStructureMutation).
THEOREM NothingIsOverwritten ==
  ASSUME Undamaged PROVE DocumentSpec /\ []Orderly => NothingOverwritten
<1>1. IInv /\ CleanInv /\ Orderly /\ Orderly' /\ NothingMissing
      /\ [DocumentNext]_documentVars
        => NothingMissing' /\ [proposal \ proposal' \subseteq cleared]_proposal
  BY MissingNext DEF Keeps
<1> QED BY <1>1, MissingInit, CleanInvariant, StoreInvariant, PTL
        DEF DocumentSpec, NothingOverwritten
-----------------------------------------------------------------------------
(* sectionIndex and proposal.md name the same chapters, as long as the        *)
(* application does not die between the one write and the other.              *)

Chapters(c) == (c \cap Mutations) \ cleared

\* What sectionIndex held before the mutation whose save is not through.
Agreed == IF mut.at \in {"saving", "rollback"} THEN index \ mut.new ELSE index

\* What proposal.md must name.
Named == IF \E s \in saves : s.by = "structure" /\ Written(s) THEN index ELSE Agreed

Aligned ==
  /\ index \cup mut.new \subseteq done \cap Mutations
  /\ mut.at \in {"flush", "load", "index"} => mut.new \cap index = {}
  /\ mut.at \in {"saving", "rollback", "ok"} => mut.new \subseteq index
  /\ Chapters(proposal) = Named \ cleared
  /\ Chapters(content) \subseteq Agreed
  /\ Chapters(editor) \subseteq Agreed
  /\ \A s \in saves : s.by = "store" => Chapters(s.content) \subseteq Agreed

\* Nothing moves but the store's saves, and a new one has the store's content.
LEMMA AlignedFrame ==
  ASSUME Aligned,
         UNCHANGED <<proposal, index, done, cleared, mut>>,
         content' \in {content, editor, {}}, editor' \in {editor, {}},
         \A s \in saves' : s \in saves \/ (s.by = "store" /\ s.content = content),
         \A s \in saves : s \in saves' \/ s.by = "store"
  PROVE  Aligned'
<1>1. Agreed' = Agreed /\ Named' = Named
  <2>1. \A s : s.by = "structure" => (s \in saves' <=> s \in saves)
    OBVIOUS
  <2> QED BY <2>1 DEF Agreed, Named, Written
<1>2. \A s \in saves' : s.by = "store" => Chapters(s.content)' \subseteq Agreed
  BY DEF Aligned, Chapters
<1> QED BY <1>1, <1>2 DEF Aligned, Chapters

\* The place of a mutation changes, and nothing else.
LEMMA AlignedPlace ==
  ASSUME Aligned, Agreed' = Agreed,
         UNCHANGED <<proposal, saves, index, done, cleared, content, editor>>,
         mut'.new \in {mut.new, {}},
         mut'.at \in {"flush", "load", "index"} =>
           mut.at \in {"flush", "load", "index"},
         mut'.at \notin {"saving", "rollback", "ok"}
  PROVE  Aligned'
<1>1. Named' = Named
  BY DEF Named, Written
<1> QED BY <1>1 DEF Aligned, Chapters

\* While nothing is saved or rewritten, the store is set to what is on the disk.
LEMMA AlignedLoaded ==
  ASSUME Aligned, saves = {}, mut.at = "idle",
         content' \in {content, proposal}, editor' \in {editor, proposal, {}},
         UNCHANGED <<proposal, saves, index, done, cleared, mut>>
  PROVE  Aligned'
<1>1. Agreed' = Agreed /\ Named' = Named /\ Named = index /\ Agreed = index
  BY DEF Agreed, Named, Written
<1> QED BY <1>1 DEF Aligned, Chapters

LEMMA AlignedSaveDocument ==
  ASSUME Aligned, SaveDocument,
         UNCHANGED <<content, editor, index, done, cleared, mut>>
  PROVE  Aligned'
<1>1. CASE saving
  <2>1. proposal' = proposal /\ saves' = saves
    BY <1>1 DEF SaveDocument, fileVars
  <2>2. /\ content' \in {content, editor, {}} /\ editor' \in {editor, {}}
        /\ UNCHANGED <<index, done, cleared, mut>>
    OBVIOUS
  <2> QED BY <2>1, <2>2, AlignedFrame
<1>2. CASE ~saving
  <2> DEFINE s == [seq |-> sequence + 1, by |-> "store", content |-> content,
                   found |-> {}, at |-> "read"]
  <2>1. saves' = saves \cup {s} /\ proposal' = proposal
    BY <1>2 DEF SaveDocument, Submit
  <2>2. s.by = "store" /\ s.content = content
    OBVIOUS
  <2> HIDE DEF s
  <2>3. /\ \A q \in saves' : q \in saves \/ (q.by = "store" /\ q.content = content)
        /\ \A q \in saves : q \in saves' \/ q.by = "store"
    BY <2>1, <2>2
  <2>4. /\ content' \in {content, editor, {}} /\ editor' \in {editor, {}}
        /\ UNCHANGED <<proposal, index, done, cleared, mut>>
    BY <2>1
  <2> QED BY <2>3, <2>4, AlignedFrame
<1> QED BY <1>1, <1>2

LEMMA AlignedMain ==
  ASSUME IInv, CleanInv, NothingMissing, Aligned, Main PROVE Aligned'
<1>1. UNCHANGED <<content, editor, cleared, mut, index, done>>
  BY DEF Main, editorVars, mutVars, history
<1>2. PICK s \in saves : \E r : Moves(s, r)
  BY MainMoves
<1>3. PICK r : Moves(s, r)
  BY <1>2
<1>4. saves = {s} /\ saves' = {r} /\ r.by = s.by /\ r.content = s.content
  <2>1. saves = {s} BY SaveIsAlone
  <2> QED BY <1>3, <2>1 DEF Moves
<1>5. Agreed' = Agreed BY <1>1 DEF Agreed
<1>6. CASE s.by = "store"
  <2>1. Named = Agreed /\ Named' = Agreed
    BY <1>4, <1>5, <1>6 DEF Named
  <2>2. Chapters(proposal') \subseteq Agreed /\ Chapters(proposal) \subseteq Chapters(proposal')
    BY <1>3, <1>6, <2>1 DEF Moves, Aligned, NothingMissing, Chapters
  <2>3. Chapters(proposal)' = Named' \ cleared'
    BY <1>1, <2>1, <2>2 DEF Aligned, Chapters
  <2> QED BY <1>1, <1>4, <1>5, <1>6, <2>3 DEF Aligned, Chapters
<1>7. CASE s.by # "store"
  <2>1. /\ s.by = "structure" /\ mut.at = "saving"
        /\ s.content = mut.base \cup mut.new
    BY <1>7 DEF CleanInv, OnlyLatest
  <2>2. ~Written(s) => proposal = mut.base
    BY <2>1 DEF CleanInv, CleanIsThere
  <2>3. /\ Named = IF Written(s) THEN index ELSE index \ mut.new
        /\ Named' = IF Written(r) THEN index ELSE index \ mut.new
    BY <1>1, <1>4, <2>1 DEF Named, Agreed, Written
  <2>4. mut.new \subseteq index /\ mut.new \subseteq Mutations
    BY <2>1 DEF Aligned
  <2>5. Chapters(proposal)' = Named' \ cleared'
    <3>1. CASE proposal' = proposal /\ (Written(r) <=> Written(s))
      BY <1>1, <2>3, <3>1 DEF Aligned, Chapters
    <3>2. CASE proposal' = s.content /\ Written(r) /\ ~Written(s)
      <4>1. Chapters(mut.base) = (index \ mut.new) \ cleared
        BY <2>2, <2>3, <3>2 DEF Aligned
      <4>2. Chapters(mut.base \cup mut.new) = index \ cleared
        BY <2>4, <4>1 DEF Chapters
      <4> QED BY <1>1, <2>1, <2>3, <3>2, <4>2 DEF Chapters
    <3> QED BY <1>3, <3>1, <3>2 DEF Moves
  <2> QED BY <1>1, <1>4, <1>5, <1>7, <2>5 DEF Aligned, Chapters
<1> QED BY <1>6, <1>7

LEMMA AlignedMutationIndexes ==
  ASSUME IInv, CleanInv, Aligned, MutationIndexes PROVE Aligned'
<1> DEFINE s == [seq |-> sequence + 1, by |-> "structure",
                 content |-> mut.base \cup mut.new, found |-> {}, at |-> "read"]
<1>0. ~Fails("sidecar")
  BY DEF Fails, CleanInv, SidecarWorks
<1>1. /\ mut.at = "index" /\ mut' = [mut EXCEPT !.at = "saving"]
      /\ saves' = saves \cup {s} /\ index' = index \cup mut.new
      /\ UNCHANGED <<proposal, content, editor, done, cleared>>
  BY <1>0 DEF MutationIndexes, Submit, editorVars, history
<1>2. saves = {}
  BY <1>1, NoSave DEF CleanInv, BusyIsQuiet, Mutating
<1>3. s.by = "structure" /\ ~Written(s)
  BY DEF Written
<1>4. mut'.at = "saving" /\ mut'.new = mut.new
  BY <1>1 DEF IInv, DocumentTypeOK
<1> HIDE DEF s
<1>5. mut.new \cap index = {} /\ Named = index /\ Agreed = index
  BY <1>1, <1>2 DEF Aligned, Named, Agreed
<1>6. Agreed' = index /\ Named' = index
  <2>1. Agreed' = (index \cup mut.new) \ mut.new
    BY <1>1, <1>4 DEF Agreed
  <2>2. Named' = Agreed'
    BY <1>1, <1>2, <1>3 DEF Named, Written
  <2> QED BY <1>5, <2>1, <2>2
<1> QED BY <1>1, <1>2, <1>3, <1>4, <1>5, <1>6 DEF Aligned, Chapters

LEMMA AlignedMutationSaved ==
  ASSUME IInv, CleanInv, Aligned, NEW s \in Answered("structure"), MutationSaved(s)
  PROVE  Aligned'
<1>0. s \in saves /\ s.by = "structure" /\ s.at \in {"ok", "error"} /\ saves = {s}
  BY SaveIsAlone DEF Answered
<1>1. /\ mut.at = "saving" /\ saves' = {}
      /\ mut' = [mut EXCEPT !.at = IF s.at = "ok" THEN "ok" ELSE "rollback"]
      /\ UNCHANGED <<proposal, content, editor, index, done, cleared>>
  BY <1>0 DEF MutationSaved, editorVars, history
<1>2. mut'.at = (IF s.at = "ok" THEN "ok" ELSE "rollback") /\ mut'.new = mut.new
  BY <1>1 DEF IInv, DocumentTypeOK
<1>3. /\ Agreed = index \ mut.new
      /\ Agreed' = IF s.at = "ok" THEN index ELSE index \ mut.new
  BY <1>1, <1>2 DEF Agreed
<1>4. Named' = Agreed'
  BY <1>1 DEF Named
<1>5. Named = Agreed'
  BY <1>0, <1>3 DEF Named, Written
<1> QED BY <1>1, <1>2, <1>3, <1>4, <1>5 DEF Aligned, Chapters

LEMMA AlignedMutationRollsBack ==
  ASSUME IInv, CleanInv, Aligned, MutationRollsBack PROVE Aligned'
<1>0. ~Fails("sidecar")
  BY DEF Fails, CleanInv, SidecarWorks
<1>1. /\ mut.at = "rollback" /\ mut' = [mut EXCEPT !.at = "error"]
      /\ index' = index \ mut.new
      /\ UNCHANGED <<proposal, saves, content, editor, done, cleared>>
  BY <1>0 DEF MutationRollsBack, editorVars, history
<1>2. mut'.at = "error" /\ mut'.new = mut.new
  BY <1>1 DEF IInv, DocumentTypeOK
<1>3. saves = {}
  BY <1>1, NoSave DEF CleanInv, BusyIsQuiet, Mutating
<1>4. Agreed = index \ mut.new /\ Agreed' = index \ mut.new
  BY <1>1, <1>2 DEF Agreed
<1>5. Named' = Agreed' /\ Named = Agreed
  BY <1>1, <1>3 DEF Named
<1> QED BY <1>1, <1>2, <1>3, <1>4, <1>5 DEF Aligned, Chapters

LEMMA AlignedMutationAnswered ==
  ASSUME IInv, CleanInv, Aligned, MutationAnswered PROVE Aligned'
<1>1. /\ mut.at \in {"ok", "error"} /\ mut'.at = "idle" /\ mut'.new = {}
      /\ UNCHANGED <<proposal, saves, index, done, cleared>>
  BY DEF MutationAnswered, Idle, fileVars, history
<1>2. loaded /\ ~loading /\ mut.heard /\ saves = {}
  BY <1>1, NoSave DEF CleanInv, MutationHolds, BusyIsQuiet, Mutating
<1>3. content' \in {content, proposal} /\ editor' \in {editor, proposal}
  BY <1>1, <1>2 DEF MutationAnswered, ApplySnapshot, CleanInv, CleanIsThere
<1>4. Agreed = index /\ Agreed' = index /\ Named = index /\ Named' = index
  BY <1>1, <1>2 DEF Agreed, Named
<1> QED BY <1>1, <1>2, <1>3, <1>4 DEF Aligned, Chapters

LEMMA AlignedNext ==
  ASSUME Undamaged, "crash" \notin Disturbances
  PROVE  IInv /\ CleanInv /\ Orderly /\ Orderly' /\ NothingMissing /\ Aligned
         /\ [DocumentNext]_documentVars => Aligned'
<1> SUFFICES ASSUME IInv, CleanInv, Orderly, Orderly', NothingMissing, Aligned,
                    [DocumentNext]_documentVars
             PROVE  Aligned'
  OBVIOUS
<1> USE DEF fileVars, loadVars, editorVars, mutVars, history
<1>1. ASSUME NEW c \in Changes, Types(c) PROVE Aligned'
  <2>1. /\ c \in Typed /\ editor' = editor \cup {c} /\ done' = done \cup {c}
        /\ UNCHANGED <<proposal, saves, index, cleared, mut, content>>
    BY <1>1 DEF Types
  <2>2. Chapters(editor)' = Chapters(editor)
    BY <2>1, AutosaveAssumption DEF Chapters
  <2>3. Agreed' = Agreed /\ Named' = Named
    BY <2>1 DEF Agreed, Named, Written
  <2> QED BY <2>1, <2>2, <2>3 DEF Aligned, Chapters
<1>2. CASE Echoes
  BY <1>2, AlignedFrame DEF Echoes
<1>3. CASE Clears
  <2>1. /\ editor' = {} /\ cleared \subseteq cleared'
        /\ UNCHANGED <<proposal, saves, index, done, mut, content>>
    BY <1>3 DEF Clears
  <2>2. Agreed' = Agreed /\ Named' = Named
    BY <2>1 DEF Agreed, Named, Written
  <2> QED BY <2>1, <2>2 DEF Aligned, Chapters
<1>4. CASE Serializes
  BY <1>4, AlignedFrame DEF Serializes, UpdateContent
<1>5. CASE AutosaveFires \/ UserRetries \/ FlushSaves
  BY <1>5, AlignedSaveDocument DEF AutosaveFires, UserRetries, FlushSaves
<1>6. ASSUME NEW s \in Answered("store"), SaveAnswered(s) PROVE Aligned'
  BY <1>6, AlignedFrame DEF SaveAnswered, Answered
<1>7. CASE LoadReads
  BY <1>7, AlignedFrame DEF LoadReads
<1>8. CASE LoadAnswered
  <2>1. saves = {} /\ mut.at = "idle"
    BY <1>8 DEF LoadAnswered, IInv, StoreInv, LoadIsLoading, Orderly, LoadsAlone
  <2>2. content' = proposal /\ editor' \in {proposal, {}}
    BY <1>8 DEF LoadAnswered, CleanInv, CleanIsThere
  <2>3. UNCHANGED <<proposal, saves, index, done, cleared, mut>>
    BY <1>8 DEF LoadAnswered
  <2> QED BY <2>1, <2>2, <2>3, AlignedLoaded
<1>9. CASE LoadsAgain \/ Enters \/ Leaves
  BY <1>9, AlignedFrame DEF LoadsAgain, Enters, Leaves
<1>10. ~Closes /\ ~Crashes
  BY DEF Closes, Crashes, Disturb, Undamaged
<1>11. ASSUME NEW m \in Changes, MutationStarts(m) PROVE Aligned'
  <2>1. /\ mut.at = "idle" /\ m \in Mutations \ done /\ done' = done \cup {m}
        /\ mut'.at = "flush" /\ mut'.new = {m}
        /\ UNCHANGED <<proposal, saves, index, cleared, content, editor>>
    BY <1>11 DEF MutationStarts, Idle
  <2>2. Agreed' = Agreed /\ Named' = Named
    BY <2>1 DEF Agreed, Named, Written
  <2> QED BY <2>1, <2>2 DEF Aligned, Chapters
<1>12. CASE MutationCalls
  <2>1. /\ mut.at = "flush" /\ mut'.at = "load" /\ mut'.new = mut.new
        /\ UNCHANGED <<proposal, saves, index, done, cleared, content, editor>>
    BY <1>12 DEF MutationCalls, IInv, DocumentTypeOK
  <2> QED BY <2>1, AlignedPlace DEF Agreed
<1>13. CASE FlushFails
  <2>1. /\ mut.at = "flush" /\ mut'.at = "idle" /\ mut'.new = {}
        /\ UNCHANGED <<proposal, saves, index, done, cleared, content, editor>>
    BY <1>13 DEF FlushFails, Release, Idle
  <2> QED BY <2>1, AlignedPlace DEF Agreed
<1>14. CASE MutationLoads
  <2>1. /\ mut.at = "load" /\ mut'.at \in {"index", "error"} /\ mut'.new = mut.new
        /\ UNCHANGED <<proposal, saves, index, done, cleared, content, editor>>
    BY <1>14 DEF MutationLoads, IInv, DocumentTypeOK
  <2> QED BY <2>1, AlignedPlace DEF Agreed
<1>15. CASE MutationIndexes BY <1>15, AlignedMutationIndexes
<1>16. ASSUME NEW s \in Answered("structure"), MutationSaved(s) PROVE Aligned'
  BY <1>16, AlignedMutationSaved
<1>17. CASE MutationRollsBack BY <1>17, AlignedMutationRollsBack
<1>18. CASE MutationAnswered BY <1>18, AlignedMutationAnswered
<1>19. CASE Main BY <1>19, AlignedMain
<1>20. CASE UNCHANGED documentVars
  BY <1>20, AlignedFrame DEF documentVars
<1> QED
  BY <1>1, <1>2, <1>3, <1>4, <1>5, <1>6, <1>7, <1>8, <1>9, <1>10, <1>11, <1>12,
     <1>13, <1>14, <1>15, <1>16, <1>17, <1>18, <1>19, <1>20
     DEF DocumentNext, StoreAnswered, MutationProgress

LEMMA AlignedInit == DocumentInit => Aligned
BY AutosaveAssumption
   DEF DocumentInit, FileInit, Idle, Aligned, Chapters, Agreed, Named

\* Under the same conditions and without crashes: when no structure mutation is
\* on its way, the sectionIndex of proposal.meta.json and proposal.md name the same chapters: the rollback of
\* applyStructureMutation undoes the index whenever its save of the document
\* fails, and the store never writes a chapter back or away
\* (chapter-structure-service.ts, applyStructureMutation).
THEOREM FilesStayAligned ==
  ASSUME Undamaged, "crash" \notin Disturbances
  PROVE  DocumentSpec /\ []Orderly => []FilesAligned
<1>1. IInv /\ CleanInv /\ Aligned => FilesAligned
  <2> SUFFICES ASSUME IInv, CleanInv, Aligned, mut.at = "idle"
               PROVE  index \ cleared = (proposal \cap Mutations) \ cleared
    BY DEF FilesAligned
  <2>1. Named = index
    BY DEF Named, Agreed
  <2> QED BY <2>1 DEF Aligned, Chapters
<1>2. IInv /\ CleanInv /\ Orderly /\ Orderly' /\ NothingMissing /\ Aligned
      /\ [DocumentNext]_documentVars => NothingMissing' /\ Aligned'
  BY MissingNext, AlignedNext DEF Keeps
<1> QED BY <1>1, <1>2, MissingInit, AlignedInit, CleanInvariant, StoreInvariant, PTL
        DEF DocumentSpec
-----------------------------------------------------------------------------
(* One structure mutation, in an editor that stays open until the application *)
(* dies, is always orderly: a store that is dirty whenever its autosave timer *)
(* runs has stopped the timer when the mutation's flush is over.              *)

Calm == /\ Disturbances \subseteq {"clear", "retry", "crash"}
        /\ \A m, n \in Mutations : m = n
        /\ Skeleton # {}

\* Until the document is there, nothing is saved, rewritten or typed.
AwayIsEmpty ==
  /\ view = "writing" /\ (loading => ~loaded)
  /\ ~loaded => saves = {} /\ mut.at = "idle" /\ ~unserialized

MutationIsKnown == mut.at # "idle" => locked /\ Mutations \cap done # {}

BusyIsStill == Mutating => ~dirty /\ ~saving /\ ~error /\ ~timer

Still == AwayIsEmpty /\ MutationIsKnown /\ BusyIsStill

\* No content is empty, and none holds what has not been made yet.
Contents ==
  /\ proposal # {} /\ proposal \subseteq done
  /\ content \cup editor \cup got \cup mut.base \cup mut.new \subseteq done
  /\ loaded => content # {}
  /\ load = "read" => got # {}
  /\ \A s \in saves : s.content # {} /\ s.content \subseteq done
  /\ mut.at \in {"index", "saving", "ok"} => mut.base # {}

\* The mutation has not been sent to the main process.
Unsent == Mutations \cap done = {} \/ mut.at = "flush"

\* The timers stand for changes: what they will send is not in the store, or
\* not on its way, already.
TimersMeanChanges ==
  Unsent =>
    /\ timer => dirty
    /\ unserialized => editor # content /\ \A s \in saves : editor # s.content
    /\ timer /\ saving => \A s \in saves : s.seq = awaited => content # s.content

CalmInv == Still /\ Contents /\ TimersMeanChanges

LEMMA MainContents ==
  ASSUME IInv, Main
  PROVE  /\ \A r \in saves' : \E s \in saves : r.seq = s.seq /\ r.content = s.content
         /\ proposal' = proposal \/ \E s \in saves : proposal' = s.content
<1>1. PICK s \in saves : \/ SaveReads(s) \/ SaveWritesTmp(s) \/ SaveWritesBackup(s)
                         \/ SaveRenames(s) \/ SaveWritesMeta(s)
  BY DEF Main, SaveStep
<1>2. s \in Save
  BY DEF IInv, DocumentTypeOK
<1>3. proposal' = proposal \/ proposal' = s.content
  BY <1>1 DEF SaveReads, SaveWritesTmp, SaveWritesBackup, SaveRenames, SaveWritesMeta
<1>4. PICK r : r.seq = s.seq /\ r.content = s.content /\ saves' = (saves \ {s}) \cup {r}
  <2>1. ASSUME NEW place, Goes(s, place)
        PROVE  \E r : /\ r.seq = s.seq /\ r.content = s.content
                      /\ saves' = (saves \ {s}) \cup {r}
    <3> DEFINE r == [s EXCEPT !.at = place]
    <3>1. r.seq = s.seq /\ r.content = s.content
      BY <1>2 DEF Save
    <3>2. saves' = (saves \ {s}) \cup {r}
      BY <2>1 DEF Goes
    <3> HIDE DEF r
    <3> QED BY <3>1, <3>2
  <2>2. (\E place : Goes(s, place)) \/ SaveReads(s)
    BY <1>1 DEF SaveWritesTmp, SaveWritesBackup, SaveRenames, SaveWritesMeta
  <2>3. CASE SaveReads(s) /\ ~Goes(s, "tmp")
    <3> DEFINE r == [s EXCEPT !.found = proposal,
                       !.at = IF Collapses(proposal, s.content) THEN "error"
                              ELSE "tmp"]
    <3>1. r.seq = s.seq /\ r.content = s.content
      BY <1>2 DEF Save
    <3>2. saves' = (saves \ {s}) \cup {r}
      BY <2>3 DEF SaveReads
    <3> HIDE DEF r
    <3> QED BY <3>1, <3>2
  <2> QED BY <2>1, <2>2, <2>3
<1> QED BY <1>3, <1>4

LEMMA StillFrame ==
  ASSUME Still,
         saves' = {} \/ saves' = saves \/ loaded,
         done \subseteq done', unserialized' => unserialized \/ loaded,
         UNCHANGED <<view, loaded, loading>>,
         UNCHANGED <<dirty, saving, error, timer>> \/ ~Mutating,
         mut' = mut, locked' = locked
  PROVE  Still'
BY DEF Still, AwayIsEmpty, MutationIsKnown, BusyIsStill, Mutating

LEMMA StillNext ==
  ASSUME Calm
  PROVE  IInv /\ CalmInv /\ [DocumentNext]_documentVars => Still'
<1> SUFFICES ASSUME IInv, CalmInv, [DocumentNext]_documentVars PROVE Still'
  OBVIOUS
<1> USE DEF fileVars, loadVars, editorVars, mutVars, history, autoSave
<1>0. Still /\ TimersMeanChanges BY DEF CalmInv
<1>1. ASSUME NEW c \in Changes, Types(c) PROVE Still'
  BY <1>0, <1>1, StillFrame DEF Types, Mounted
<1>2. CASE Clears
  BY <1>0, <1>2, StillFrame DEF Clears, Mounted
<1>3. CASE Serializes
  <2>1. UNCHANGED <<dirty, saving, error, timer>> \/ ~Mutating
    BY <1>0, <1>3 DEF Serializes, UpdateContent, Still, MutationIsKnown, Mutating
  <2> QED BY <1>0, <1>3, <2>1, StillFrame DEF Serializes, Mounted
<1>4. CASE AutosaveFires \/ UserRetries \/ FlushSaves
  <2>1. ~StoreQuiet /\ ~Mutating
    BY <1>0, <1>4 DEF AutosaveFires, UserRetries, FlushSaves, StoreQuiet, Still,
                      BusyIsStill, Mutating
  <2>2. loaded
    BY <2>1 DEF IInv, StoreInv, QuietWhileAway
  <2> QED
    BY <1>0, <1>4, <2>1, <2>2, StillFrame DEF AutosaveFires, UserRetries, FlushSaves
<1>5. ASSUME NEW s \in Answered("store"), SaveAnswered(s) PROVE Still'
  <2>1. s \in saves /\ loaded
    BY <1>0 DEF Answered, Still, AwayIsEmpty
  <2>2. UNCHANGED <<dirty, saving, error, timer>> \/ ~Mutating
    <3>1. CASE s.seq # awaited
      BY <1>5, <3>1 DEF SaveAnswered
    <3>2. CASE s.seq = awaited
      <4>1. saving
        BY <2>1, <3>2 DEF IInv, StoreInv, SeqsOnce, AwaitedMeansSaving,
                          DocumentTypeOK, Save
      <4> QED BY <1>0, <4>1 DEF Still, BusyIsStill
    <3> QED BY <3>1, <3>2
  <2> QED BY <1>0, <1>5, <2>1, <2>2, StillFrame DEF SaveAnswered
<1>6. CASE LoadReads \/ LoadAnswered
  <2>1. loading /\ ~loaded /\ StoreQuiet
    BY <1>0, <1>6 DEF LoadReads, LoadAnswered, IInv, StoreInv, LoadIsLoading,
                      QuietWhileAway, Still, AwayIsEmpty
  <2>2. saves = {} /\ mut.at = "idle" /\ ~unserialized
    BY <1>0, <2>1 DEF Still, AwayIsEmpty
  <2>3. /\ view' = view /\ saves' = saves /\ mut' = mut /\ locked' = locked
        /\ unserialized' = unserialized /\ done' = done
    BY <1>6 DEF LoadReads, LoadAnswered
  <2>4. loading' => loaded' = loaded
    BY <1>6 DEF LoadReads, LoadAnswered
  <2>5. AwayIsEmpty'
    BY <1>0, <2>1, <2>2, <2>3, <2>4 DEF Still, AwayIsEmpty
  <2>6. mut'.at = "idle"
    BY <2>2, <2>3
  <2> QED
    BY <2>5, <2>6 DEF Still, MutationIsKnown, BusyIsStill, Mutating
<1>7. CASE LoadsAgain
  BY <1>0, <1>7 DEF LoadsAgain, AskLoad, DropQueue, Still, AwayIsEmpty,
                    MutationIsKnown, BusyIsStill, Mutating
<1>8. CASE Crashes
  BY <1>0, <1>8 DEF Crashes, NewRenderer, AskLoad, Idle, Still, AwayIsEmpty,
                    MutationIsKnown, BusyIsStill, Mutating
<1>9. ~Enters BY <1>0 DEF Enters, Still, AwayIsEmpty
<1>10. ~Closes /\ ~Leaves /\ ~Echoes
  BY DEF Closes, Leaves, Echoes, Disturb, Calm
<1>11. ASSUME NEW m \in Changes, MutationStarts(m) PROVE Still'
  BY <1>0, <1>11 DEF MutationStarts, Idle, Still, AwayIsEmpty, MutationIsKnown,
                     BusyIsStill, Mutating
<1>12. CASE MutationCalls
  <2>1. loaded /\ mut.at = "flush" /\ mut'.at = "load" /\ FlushOver
    BY <1>0, <1>12 DEF MutationCalls, Still, AwayIsEmpty, IInv, DocumentTypeOK
  <2>2. ~dirty /\ ~saving /\ ~error /\ ~timer
    BY <1>0, <2>1 DEF FlushOver, TimersMeanChanges, Unsent
  <2>3. UNCHANGED <<view, loading, loaded, done, locked, dirty, saving, error, timer>>
    BY <1>12 DEF MutationCalls
  <2> QED
    BY <1>0, <2>1, <2>2, <2>3 DEF Still, AwayIsEmpty, MutationIsKnown, BusyIsStill
<1>13. CASE FlushFails
  BY <1>0, <1>13 DEF FlushFails, Release, Idle, Still, AwayIsEmpty,
                     MutationIsKnown, BusyIsStill, Mutating
<1>14. CASE MutationLoads \/ MutationIndexes \/ MutationRollsBack
  <2>1. /\ mut.at \notin {"idle", "flush"} /\ loaded
        /\ UNCHANGED <<view, loading, loaded, done, locked, dirty, saving, error, timer>>
    BY <1>0, <1>14 DEF MutationLoads, MutationIndexes, MutationRollsBack, Still,
                       AwayIsEmpty
  <2> QED
    BY <1>0, <2>1 DEF Still, AwayIsEmpty, MutationIsKnown, BusyIsStill, Mutating
<1>15. ASSUME NEW s \in Answered("structure"), MutationSaved(s) PROVE Still'
  <2>1. /\ mut.at \notin {"idle", "flush"} /\ loaded
        /\ UNCHANGED <<view, loading, loaded, done, locked, dirty, saving, error, timer>>
    BY <1>0, <1>15 DEF MutationSaved, Still, AwayIsEmpty
  <2> QED
    BY <1>0, <2>1 DEF Still, AwayIsEmpty, MutationIsKnown, BusyIsStill, Mutating
<1>16. CASE MutationAnswered
  BY <1>0, <1>16 DEF MutationAnswered, Idle, Still, AwayIsEmpty, MutationIsKnown,
                     BusyIsStill, Mutating
<1>17. CASE Main
  BY <1>0, <1>17, StillFrame DEF Main, Still, AwayIsEmpty, SaveStep
<1>18. CASE UNCHANGED documentVars
  BY <1>0, <1>18, StillFrame DEF documentVars
<1> QED
  BY <1>1, <1>2, <1>3, <1>4, <1>5, <1>6, <1>7, <1>8, <1>9, <1>10, <1>11, <1>12,
     <1>13, <1>14, <1>15, <1>16, <1>17, <1>18
     DEF DocumentNext, StoreAnswered, MutationProgress

\* Saves may come with the store's content, go, or move on.
LEMMA ContentsFrame ==
  ASSUME Contents, UNCHANGED <<mut, loaded>>, done \subseteq done',
         proposal' = proposal \/ \E s \in saves : proposal' = s.content,
         content' \in {content, editor} /\ (loaded => content' # {}),
         editor' \subseteq editor \cup done',
         load' = load /\ got' = got,
         \A r \in saves' : \/ \E s \in saves : r.content = s.content
                           \/ loaded /\ r.content = content
  PROVE  Contents'
BY DEF Contents

LEMMA ContentsNext ==
  ASSUME Calm
  PROVE  IInv /\ CalmInv /\ [DocumentNext]_documentVars => Contents'
<1> SUFFICES ASSUME IInv, CalmInv, [DocumentNext]_documentVars PROVE Contents'
  OBVIOUS
<1> USE DEF fileVars, loadVars, editorVars, mutVars, history, autoSave
<1>0. Still /\ Contents BY DEF CalmInv
<1>a. loaded => content # {} BY <1>0 DEF Contents
<1>1. ASSUME NEW c \in Changes, Types(c) PROVE Contents'
  BY <1>0, <1>a, <1>1, ContentsFrame DEF Types
<1>2. CASE Clears
  BY <1>0, <1>a, <1>2, ContentsFrame DEF Clears
<1>3. CASE Serializes
  <2>1. content' \in {content, editor} /\ (loaded => content' # {})
    BY <1>a, <1>3 DEF Serializes, UpdateContent, Collapses
  <2> QED BY <1>0, <1>3, <2>1, ContentsFrame DEF Serializes
<1>4. CASE AutosaveFires \/ UserRetries \/ FlushSaves
  <2>1. loaded
    BY <1>4 DEF AutosaveFires, UserRetries, FlushSaves, StoreQuiet, IInv, StoreInv,
                QuietWhileAway
  <2>2. SaveDocument
        /\ UNCHANGED <<content, editor, loaded, load, got, done, mut>>
    BY <1>4 DEF AutosaveFires, UserRetries, FlushSaves
  <2>3. /\ proposal' = proposal
        /\ \A r \in saves' : r \in saves \/ r.content = content
    BY <2>2 DEF SaveDocument, Submit
  <2> QED BY <1>0, <1>a, <2>1, <2>2, <2>3, ContentsFrame
<1>5. ASSUME NEW s \in Answered("store"), SaveAnswered(s) PROVE Contents'
  BY <1>0, <1>a, <1>5, ContentsFrame DEF SaveAnswered
<1>6. CASE LoadReads \/ LoadAnswered
  <2>1. saves = {} /\ mut.at = "idle"
    BY <1>0, <1>6 DEF LoadReads, LoadAnswered, IInv, StoreInv, LoadIsLoading,
                      Still, AwayIsEmpty
  <2>2. UNCHANGED <<proposal, saves, mut, done>>
    BY <1>6 DEF LoadReads, LoadAnswered
  <2>3. content' \cup editor' \cup got' \subseteq done
    BY <1>0, <1>6 DEF LoadReads, LoadAnswered, Contents
  <2>4. (loaded' => content' # {}) /\ (load' = "read" => got' # {})
    BY <1>0, <1>6 DEF LoadReads, LoadAnswered, Contents
  <2> QED BY <1>0, <2>1, <2>2, <2>3, <2>4 DEF Contents
<1>7. CASE LoadsAgain
  <2>1. ~loaded' /\ load' = "asked" /\ got' = {}
        /\ UNCHANGED <<proposal, saves, content, editor, mut, done>>
    BY <1>7 DEF LoadsAgain, AskLoad
  <2> QED BY <1>0, <2>1 DEF Contents
<1>8. CASE Crashes
  <2>1. /\ ~loaded' /\ load' = "asked" /\ got' = {} /\ content' = {}
        /\ editor' = {} /\ saves' = {} /\ mut' = Idle
        /\ UNCHANGED <<proposal, done>>
    BY <1>8 DEF Crashes, NewRenderer, AskLoad
  <2> QED BY <1>0, <2>1 DEF Contents, Idle
<1>9. ~Enters BY <1>0 DEF Enters, Still, AwayIsEmpty
<1>10. ~Closes /\ ~Leaves /\ ~Echoes
  BY DEF Closes, Leaves, Echoes, Disturb, Calm
<1>11. ASSUME NEW m \in Changes, MutationStarts(m) PROVE Contents'
  <2>1. /\ done' = done \cup {m}
        /\ mut'.at = "flush" /\ mut'.base = {} /\ mut'.new = {m}
        /\ UNCHANGED <<proposal, saves, content, editor, loaded, load, got>>
    BY <1>11 DEF MutationStarts, Idle
  <2> QED BY <1>0, <2>1 DEF Contents
<1>12. CASE MutationCalls \/ MutationLoads \/ MutationRollsBack
  <2>1. /\ mut'.new = mut.new /\ mut'.at \in {"load", "index", "error"}
        /\ mut'.at = "index" => mut'.base = proposal
        /\ mut'.base \in {mut.base, proposal}
        /\ UNCHANGED <<proposal, saves, content, editor, loaded, load, got, done>>
    BY <1>12 DEF MutationCalls, MutationLoads, MutationRollsBack, IInv, DocumentTypeOK
  <2> QED BY <1>0, <2>1 DEF Contents
<1>13. CASE FlushFails
  <2>1. /\ mut' = Idle
        /\ UNCHANGED <<proposal, saves, content, editor, loaded, load, got, done>>
    BY <1>13 DEF FlushFails, Release
  <2> QED BY <1>0, <2>1 DEF Contents, Idle
<1>14. CASE MutationIndexes
  <2>1. /\ mut.at = "index" /\ mut'.base = mut.base /\ mut'.new = mut.new
        /\ \A s \in saves' : s \in saves \/ s.content = mut.base \cup mut.new
        /\ UNCHANGED <<proposal, content, editor, loaded, load, got, done>>
    BY <1>14 DEF MutationIndexes, Submit, IInv, DocumentTypeOK
  <2> QED BY <1>0, <2>1 DEF Contents
<1>15. ASSUME NEW s \in Answered("structure"), MutationSaved(s) PROVE Contents'
  <2>1. /\ mut.at = "saving" /\ mut'.base = mut.base /\ mut'.new = mut.new
        /\ \A r \in saves' : r \in saves
        /\ UNCHANGED <<proposal, content, editor, loaded, load, got, done>>
    BY <1>15 DEF MutationSaved, IInv, DocumentTypeOK
  <2> QED BY <1>0, <2>1 DEF Contents
<1>16. CASE MutationAnswered
  <2>1. /\ mut' = Idle /\ UNCHANGED <<proposal, saves, loaded, done>>
        /\ \/ UNCHANGED <<content, editor, load, got>>
           \/ /\ mut.at = "ok" /\ load' = "none" /\ got' = {}
              /\ content' = mut.base \cup mut.new
              /\ editor' \in {content', editor}
    BY <1>16 DEF MutationAnswered, ApplySnapshot
  <2> QED BY <1>0, <2>1 DEF Contents, Idle
<1>17. CASE Main
  <2>1. UNCHANGED <<content, editor, loaded, load, got, mut, done>>
    BY <1>17 DEF Main
  <2>2. \A r \in saves' : \E s \in saves : r.content = s.content
    BY <1>17, MainContents
  <2> QED BY <1>0, <1>a, <1>17, <2>1, <2>2, MainContents, ContentsFrame
<1>18. CASE UNCHANGED documentVars
  BY <1>0, <1>a, <1>18, ContentsFrame DEF documentVars
<1> QED
  BY <1>1, <1>2, <1>3, <1>4, <1>5, <1>6, <1>7, <1>8, <1>9, <1>10, <1>11, <1>12,
     <1>13, <1>14, <1>15, <1>16, <1>17, <1>18
     DEF DocumentNext, StoreAnswered, MutationProgress

\* Saves move on or go.
LEMMA TimersFrame ==
  ASSUME TimersMeanChanges, Unsent' => Unsent,
         timer' => timer, dirty' = dirty, saving' => saving,
         unserialized' => unserialized,
         UNCHANGED <<editor, content, awaited>>,
         \A r \in saves' : \E s \in saves : r.seq = s.seq /\ r.content = s.content
  PROVE  TimersMeanChanges'
BY DEF TimersMeanChanges

LEMMA TimersSerializes ==
  ASSUME IInv, CalmInv, Serializes PROVE TimersMeanChanges'
<1>0. /\ unserialized /\ unserialized' = FALSE
      /\ UNCHANGED <<saves, editor, saving, awaited, mut, done>>
  BY DEF Serializes, fileVars, mutVars, history
<1>1. CASE locked \/ Collapses(content, editor)
  <2>1. UNCHANGED <<content, dirty, timer>>
    BY <1>1 DEF Serializes, UpdateContent
  <2> QED BY <1>0, <2>1 DEF CalmInv, TimersMeanChanges, Unsent
<1>2. CASE ~(locked \/ Collapses(content, editor))
  <2>1. content' = editor /\ dirty' = (dirty \/ content # editor)
    BY <1>2 DEF Serializes, UpdateContent
  <2> QED BY <1>0, <2>1 DEF CalmInv, TimersMeanChanges, Unsent
<1> QED BY <1>1, <1>2

LEMMA TimersSaveDocument ==
  ASSUME IInv, CalmInv, SaveDocument,
         UNCHANGED <<content, editor, unserialized, dirty, mut, done>>
  PROVE  TimersMeanChanges'
<1>1. ~timer' BY DEF SaveDocument
<1>2. \A r \in saves' : r \in saves \/ r.content = content
  BY DEF SaveDocument, Submit, fileVars
<1> QED BY <1>1, <1>2 DEF CalmInv, TimersMeanChanges, Unsent

LEMMA TimersSaveAnswered ==
  ASSUME IInv, CalmInv, NEW s \in Answered("store"), SaveAnswered(s)
  PROVE  TimersMeanChanges'
<1>0. /\ s \in saves /\ saves' = saves \ {s}
      /\ UNCHANGED <<content, editor, unserialized, mut, done>>
  BY DEF Answered, SaveAnswered, editorVars, mutVars, history
<1>1. CASE s.seq # awaited
  BY <1>0, <1>1 DEF SaveAnswered, autoSave, CalmInv, TimersMeanChanges, Unsent
<1>2. CASE s.seq = awaited
  <2>1. /\ saving' = FALSE
        /\ dirty' = IF s.at = "ok" THEN content # s.content ELSE dirty
        /\ timer' = (timer \/ (queued /\ dirty' /\ content # s.content))
    BY <1>2 DEF SaveAnswered
  <2>2. saving
    BY <1>0, <1>2 DEF IInv, StoreInv, SeqsOnce, AwaitedMeansSaving,
                      DocumentTypeOK, Save
  <2>3. Unsent' => (timer' => dirty')
    BY <1>0, <1>2, <2>1, <2>2 DEF CalmInv, TimersMeanChanges, Unsent
  <2> QED BY <1>0, <2>1, <2>3 DEF CalmInv, TimersMeanChanges, Unsent
<1> QED BY <1>1, <1>2

LEMMA TimersNext ==
  ASSUME Calm
  PROVE  IInv /\ CalmInv /\ [DocumentNext]_documentVars => TimersMeanChanges'
<1> SUFFICES ASSUME IInv, CalmInv, [DocumentNext]_documentVars
             PROVE  TimersMeanChanges'
  OBVIOUS
<1> USE DEF fileVars, loadVars, editorVars, mutVars, history, autoSave
<1>0. Still /\ Contents /\ TimersMeanChanges BY DEF CalmInv
<1>1. ASSUME NEW c \in Changes, Types(c) PROVE TimersMeanChanges'
  <2>1. /\ c \notin done /\ editor' = editor \cup {c} /\ done \subseteq done'
        /\ UNCHANGED <<saves, content, dirty, timer, saving, awaited, mut>>
    BY <1>1 DEF Types
  <2>2. editor' # content' /\ \A s \in saves' : editor' # s.content
    BY <1>0, <2>1 DEF Contents
  <2> QED BY <1>0, <2>1, <2>2 DEF TimersMeanChanges, Unsent
<1>2. CASE Clears
  <2>1. /\ editor' = {} /\ loaded
        /\ UNCHANGED <<saves, content, dirty, timer, saving, awaited, mut, done>>
    BY <1>2 DEF Clears, Mounted
  <2>2. editor' # content' /\ \A s \in saves' : editor' # s.content
    BY <1>0, <2>1 DEF Contents
  <2> QED BY <1>0, <2>1, <2>2 DEF TimersMeanChanges, Unsent
<1>3. CASE Serializes BY <1>3, TimersSerializes
<1>4. CASE AutosaveFires \/ UserRetries \/ FlushSaves
  BY <1>4, TimersSaveDocument DEF AutosaveFires, UserRetries, FlushSaves
<1>5. ASSUME NEW s \in Answered("store"), SaveAnswered(s) PROVE TimersMeanChanges'
  BY <1>5, TimersSaveAnswered
<1>6. CASE LoadReads \/ LoadAnswered \/ LoadsAgain
  <2>1. ~loaded
    BY <1>0, <1>6 DEF LoadReads, LoadAnswered, LoadsAgain, IInv, StoreInv,
                      LoadIsLoading, Still, AwayIsEmpty
  <2>2. saves = {} /\ ~unserialized /\ ~timer
    BY <1>0, <2>1 DEF Still, AwayIsEmpty, IInv, StoreInv, QuietWhileAway, StoreQuiet
  <2>3. unserialized' = unserialized /\ saves' = saves
    BY <1>6 DEF LoadReads, LoadAnswered, LoadsAgain
  <2>4. timer' = timer \/ timer' = FALSE
    BY <1>6 DEF LoadReads, LoadAnswered, LoadsAgain, DropQueue
  <2> QED BY <2>2, <2>3, <2>4 DEF TimersMeanChanges
<1>7. CASE Crashes
  <2>1. ~timer' /\ ~unserialized'
    BY <1>7 DEF Crashes, NewRenderer, CleanSlate, DropQueue
  <2> QED BY <2>1 DEF TimersMeanChanges
<1>8. ~Enters BY <1>0 DEF Enters, Still, AwayIsEmpty
<1>9. ~Closes /\ ~Leaves /\ ~Echoes
  BY DEF Closes, Leaves, Echoes, Disturb, Calm
<1>10. ASSUME NEW m \in Changes, MutationStarts(m) PROVE TimersMeanChanges'
  <2>1. m \in Mutations \ done
        /\ UNCHANGED <<saves, content, editor, unserialized, dirty, timer,
                       saving, awaited>>
    BY <1>10 DEF MutationStarts
  <2>2. Unsent
    BY <2>1 DEF Calm, Unsent
  <2> QED BY <1>0, <2>1, <2>2 DEF TimersMeanChanges
<1>11. CASE MutationCalls \/ FlushFails \/ MutationLoads \/ MutationIndexes
            \/ MutationRollsBack \/ MutationAnswered
            \/ \E s \in Answered("structure") : MutationSaved(s)
  <2>1. mut.at # "idle" /\ done' = done
    BY <1>11 DEF MutationCalls, FlushFails, MutationLoads, MutationIndexes,
                 MutationRollsBack, MutationAnswered, MutationSaved
  <2>2. mut'.at # "flush"
    <3>1. mut \in [at : MutationPlaces, heard : BOOLEAN, base : Content, new : Content]
      BY DEF IInv, DocumentTypeOK
    <3>2. CASE FlushFails \/ MutationAnswered
      BY <3>2 DEF FlushFails, Release, MutationAnswered, Idle
    <3>3. CASE MutationCalls \/ MutationLoads \/ MutationIndexes \/ MutationRollsBack
      BY <3>1, <3>3 DEF MutationCalls, MutationLoads, MutationIndexes,
                        MutationRollsBack
    <3>4. ASSUME NEW s \in Answered("structure"), MutationSaved(s)
          PROVE  mut'.at # "flush"
      BY <3>1, <3>4 DEF MutationSaved
    <3> QED BY <1>11, <3>2, <3>3, <3>4
  <2>3. ~Unsent'
    BY <1>0, <2>1, <2>2 DEF Still, MutationIsKnown, Unsent
  <2> QED BY <2>3 DEF TimersMeanChanges
<1>12. CASE Main
  <2>1. UNCHANGED <<content, editor, unserialized, dirty, timer, saving, awaited,
                    mut, done>>
    BY <1>12 DEF Main
  <2> QED BY <1>0, <1>12, <2>1, MainContents DEF TimersMeanChanges, Unsent
<1>13. CASE UNCHANGED documentVars
  BY <1>0, <1>13 DEF documentVars, TimersMeanChanges, Unsent
<1> QED
  BY <1>1, <1>2, <1>3, <1>4, <1>5, <1>6, <1>7, <1>8, <1>9, <1>10, <1>11, <1>12,
     <1>13
     DEF DocumentNext, StoreAnswered, MutationProgress

LEMMA CalmInit == ASSUME Calm PROVE DocumentInit => CalmInv
<1> SUFFICES ASSUME DocumentInit PROVE CalmInv
  OBVIOUS
<1> USE DEF DocumentInit, FileInit, Idle
<1>1. Still BY DEF Still, AwayIsEmpty, MutationIsKnown, BusyIsStill, Mutating
<1>2. Contents BY DEF Calm, Contents
<1>3. TimersMeanChanges BY DEF TimersMeanChanges
<1> QED BY <1>1, <1>2, <1>3 DEF CalmInv

\* With one structure mutation and an editor that is not left, whatever is
\* typed, cleared or tried again, whatever operation on a file fails and
\* whenever the application dies, no document is loaded over a save and no
\* autosave timer outlives the flush of the mutation (documentStore.ts;
\* chapterStructureStore.ts, flushPendingContent).
THEOREM CalmIsOrderly ==
  ASSUME Calm PROVE DocumentSpec => []Orderly
<1>1. IInv /\ CalmInv /\ [DocumentNext]_documentVars => CalmInv'
  BY StillNext, ContentsNext, TimersNext DEF CalmInv
<1>2. CalmInv => Orderly
  BY DEF CalmInv, Still, AwayIsEmpty, BusyIsStill, Orderly, LoadsAlone, NoStaleTick
<1> QED BY <1>1, <1>2, CalmInit, StoreInvariant, PTL DEF DocumentSpec

\* There, no step writes over a change, a store without changes holds what is
\* on the disk, and sectionIndex and proposal.md name the same chapters unless
\* the application may die between the two.
THEOREM CalmDocument ==
  ASSUME Calm, MaxSidecarFaults = 0
  PROVE  /\ DocumentSpec => []CleanIsSaved
         /\ DocumentSpec => NothingOverwritten
         /\ "crash" \notin Disturbances => (DocumentSpec => []FilesAligned)
<1>1. Undamaged BY DEF Undamaged, Calm
<1>2. DocumentSpec => []Orderly BY CalmIsOrderly
<1>3. DocumentSpec => []CleanIsSaved
  BY <1>1, <1>2, CleanStoreIsSaved, PTL
<1>4. DocumentSpec => NothingOverwritten
  BY <1>1, <1>2, NothingIsOverwritten, PTL
<1>5. ASSUME "crash" \notin Disturbances PROVE DocumentSpec => []FilesAligned
  BY <1>1, <1>2, <1>5, FilesStayAligned, PTL
<1> QED BY <1>3, <1>4, <1>5
=============================================================================
