--------------------------- MODULE StructureDelete ---------------------------
(* Deleting a chapter and undoing it within five seconds: the journal in      *)
(* proposal.meta.json that services/chapter-structure-delete-service.ts keeps *)
(* while proposal.md, the section index, the SQLite rows and the summary      *)
(* sidecar change one after the other, the start-up cleanup after a crash,    *)
(* and the renderer's undo window (stores/chapterStructureStore.ts).          *)
(*                                                                            *)
(* The chapters 1..NumChapters are siblings in this order; a chapter stands   *)
(* for its whole subtree.  What happens to trees is in ChapterTree, what      *)
(* happens to unsaved text during a mutation in DocumentAutosave.             *)
EXTENDS Integers, SequencesExt, FiniteSetsExt

CONSTANTS NumChapters,
          MaxDeleteClicks,    \* bounds: clicks on delete and undo together,
          MaxTroubles         \* failed steps, crashes and project switches

ASSUME DeleteAssumption ==
  /\ NumChapters \in Nat \ {0}
  /\ {MaxDeleteClicks, MaxTroubles} \subseteq Nat

Chapters == 1..NumChapters

VARIABLES
  proposal,                \* proposal.md, a sequence of chapters
  sectionIndex, journal,   \* proposal.meta.json: its index and its journal
  notes,                   \* ... and how often it has a chapter's annotations
  rows, summaries,         \* chapters with their SQLite rows, with a summary
  calls,                   \* handlers of the main process that have not ended
  boot,                    \* journal entries the start-up has yet to clean up
  replies,                 \* on their way to the renderer
  window, timer,           \* activePendingDeletion, and the finalize timer
  mutating, bound,         \* the mutation lock; this project is the bound one
  gone,                    \* chapters whose journal entry was thrown away
  botched,                 \* chapters whose undo was broken off, that were put
                           \* back although they were there, or deleted again
                           \* when a broken off rollback had left their entry
  rushed,                  \* an undo has overlapped a deletion or an undo, or
                           \* was clicked behind another project
  budget                   \* what is left of the bounds

stores   == <<proposal, sectionIndex, journal, notes, rows, summaries>>
renderer == <<window, timer, mutating, bound>>
ghosts   == <<gone, botched, rushed>>
deleteVars == <<stores, calls, boot, replies, renderer, ghosts, budget>>

None == [id |-> 0, sec |-> 0]

\* A journal entry: the chapter, its previous sibling (0 when it was the first)
\* and what the stores held of it.
Entry == [id : Nat, sec : Chapters, stage : {"staged", "active"},
          prev : 0..NumChapters, notes : Nat, row : BOOLEAN, sum : BOOLEAN]

Kinds == {"delete", "undo", "finalize", "hydrate", "startup"}

DeleteSteps   == {"flush", "read", "stage", "summaries", "rows", "save", "flip"}
RollbackSteps == {"back-meta", "back-save", "back-rows", "back-summaries", "back-drop"}
UndoSteps     == {"find", "load", "meta", "rows", "summaries", "save", "drop"}

DeleteInit ==
  /\ proposal = [c \in Chapters |-> c] /\ sectionIndex = Chapters
  /\ journal = <<>> /\ notes = [c \in Chapters |-> 1]
  /\ rows = Chapters /\ summaries = Chapters
  /\ calls = {} /\ boot = <<>> /\ replies = <<>>
  /\ window = None /\ timer = 0 /\ mutating = FALSE /\ bound = TRUE
  /\ gone = {} /\ botched = {} /\ rushed = FALSE
  /\ budget = [click |-> MaxDeleteClicks, trouble |-> MaxTroubles]

\* Nothing is claimed once an undo has overlapped, so nothing new is tried.
Spend(what) == /\ budget[what] > 0 /\ ~rushed
               /\ budget' = [budget EXCEPT ![what] = @ - 1]

-----------------------------------------------------------------------------
(* The document and the journal.                                              *)

\* Mutant: always first.
RestoredMutant(doc, e) == <<e.sec>> \o doc

\* The subtree is put after its previous sibling, or first.  Nothing looks
\* whether it is there already.
Restored(doc, e) ==
  InsertAt(doc, IF e.prev # 0 /\ Contains(doc, e.prev)
                THEN SelectInSeq(doc, LAMBDA c : c = e.prev) + 1 ELSE 1, e.sec)

PreviousSibling(c) == Max({0} \cup {d \in sectionIndex : d < c})

OfStage(stage) == {e \in ToSet(journal) : e.stage = stage}

Chapters_(entries) == {e.sec : e \in entries}

\* The journal without these entries, in its order.
Without(entries) ==
  LET kept[n \in 0..Len(journal)] ==
        IF n = 0 THEN <<>>
        ELSE IF journal[n] \in entries THEN kept[n - 1]
        ELSE Append(kept[n - 1], journal[n])
  IN kept[Len(journal)]

\* replaceActiveEntriesWithStaged
StageEntry(e) ==
  /\ journal' = Append(Without(OfStage("active")), e)
  /\ gone' = gone \cup Chapters_(OfStage("active"))

\* flipStagedToActive
FlipEntry(id) ==
  IF \E e \in ToSet(journal) : e.id = id
  THEN /\ journal' = LET kept == Without({e \in OfStage("active") : e.id # id})
                     IN [i \in DOMAIN kept |-> IF kept[i].id = id
                           THEN [kept[i] EXCEPT !.stage = "active"] ELSE kept[i]]
       /\ gone' = gone \cup Chapters_({e \in OfStage("active") : e.id # id})
  ELSE UNCHANGED <<journal, gone>>

\* removeDeletionWindowAndOlderActiveEntries: the entries it removes.
WindowAndOlder(id) ==
  LET at == SelectInSeq(journal, LAMBDA e : e.id = id)
  IN IF at = 0 THEN {}
     ELSE {journal[at]} \cup {journal[i] : i \in {j \in 1..at : journal[j].stage = "active"}}

\* Merging an entry's rows into proposal.meta.json: the index by section id,
\* the annotations by concatenation.
MergeMeta(e) ==
  /\ sectionIndex' = sectionIndex \cup {e.sec}
  /\ notes' = [notes EXCEPT ![e.sec] = @ + e.notes]

-----------------------------------------------------------------------------
(* A handler is a record: its kind, the deletion and chapter it is about, the *)
(* step it is at, and the document and journal entry it has read.             *)

Call(kind, id, c, at) == [kind |-> kind, id |-> id, sec |-> c, at |-> at,
                          doc |-> <<>>, entry |-> None]

Goes(c, at) == /\ calls' = (calls \ {c}) \cup {[c EXCEPT !.at = at]}
               /\ UNCHANGED replies

Answers(c, id, sec, ok) ==
  /\ calls' = calls \ {c}
  /\ replies' = IF c.kind = "startup" THEN replies
                ELSE Append(replies, [kind |-> c.kind, id |-> id, sec |-> sec, ok |-> ok])

DeleteRead(c) ==
  /\ c.at = "read"
  /\ IF c.sec \in sectionIndex /\ Contains(proposal, c.sec)
     THEN /\ calls' = (calls \ {c}) \cup {[c EXCEPT !.at = "stage", !.doc = proposal,
               !.entry = [id |-> c.id, sec |-> c.sec, stage |-> "staged",
                          prev |-> PreviousSibling(c.sec), notes |-> notes[c.sec],
                          row |-> c.sec \in rows, sum |-> c.sec \in summaries]]}
          /\ UNCHANGED replies
     ELSE Answers(c, c.id, c.sec, FALSE)
  /\ UNCHANGED <<stores, ghosts>>

DeleteStage(c) ==
  /\ c.at = "stage" /\ StageEntry(c.entry) /\ Goes(c, "summaries")
  /\ sectionIndex' = sectionIndex \ {c.sec}
  /\ notes' = [notes EXCEPT ![c.sec] = 0]
  /\ botched' = botched \cup (Chapters_(ToSet(journal)) \cap {c.sec})
  /\ UNCHANGED <<proposal, rows, summaries, rushed>>

DeleteSummaries(c) ==
  /\ c.at = "summaries" /\ Goes(c, "rows") /\ summaries' = summaries \ {c.sec}
  /\ UNCHANGED <<proposal, sectionIndex, journal, notes, rows, ghosts>>

DeleteRows(c) ==
  /\ c.at = "rows" /\ Goes(c, "save") /\ rows' = rows \ {c.sec}
  /\ UNCHANGED <<proposal, sectionIndex, journal, notes, summaries, ghosts>>

DeleteSave(c) ==
  /\ c.at = "save" /\ Goes(c, "flip") /\ proposal' = RemoveFirst(c.doc, c.sec)
  /\ UNCHANGED <<sectionIndex, journal, notes, rows, summaries, ghosts>>

DeleteFlip(c) ==
  /\ c.at = "flip" /\ FlipEntry(c.id) /\ Answers(c, c.id, c.sec, TRUE)
  /\ UNCHANGED <<proposal, sectionIndex, notes, rows, summaries, botched, rushed>>

\* Mutant: the rollback forgets the SQLite rows.
RollbackMutant(c) ==
  \/ /\ c.at = "back-meta" /\ MergeMeta(c.entry) /\ Goes(c, "back-save")
     /\ UNCHANGED <<proposal, journal, rows, summaries, ghosts>>
  \/ /\ c.at = "back-save" /\ proposal' = c.doc /\ Goes(c, "back-summaries")
     /\ UNCHANGED <<sectionIndex, journal, notes, rows, summaries, ghosts>>
  \/ /\ c.at = "back-summaries" /\ Goes(c, "back-drop")
     /\ summaries' = IF c.entry.sum THEN summaries \cup {c.sec} ELSE summaries
     /\ UNCHANGED <<proposal, sectionIndex, journal, notes, rows, ghosts>>
  \/ /\ c.at = "back-drop" /\ Answers(c, c.id, c.sec, FALSE)
     /\ journal' = Without({e \in ToSet(journal) : e.id = c.id})
     /\ UNCHANGED <<proposal, sectionIndex, notes, rows, summaries, ghosts>>

\* rollbackStagedDeletion
Rollback(c) ==
  \/ /\ c.at = "back-meta" /\ MergeMeta(c.entry) /\ Goes(c, "back-save")
     /\ UNCHANGED <<proposal, journal, rows, summaries, ghosts>>
  \/ /\ c.at = "back-save" /\ proposal' = c.doc /\ Goes(c, "back-rows")
     /\ UNCHANGED <<sectionIndex, journal, notes, rows, summaries, ghosts>>
  \/ /\ c.at = "back-rows" /\ Goes(c, "back-summaries")
     /\ rows' = IF c.entry.row THEN rows \cup {c.sec} ELSE rows
     /\ UNCHANGED <<proposal, sectionIndex, journal, notes, summaries, ghosts>>
  \/ /\ c.at = "back-summaries" /\ Goes(c, "back-drop")
     /\ summaries' = IF c.entry.sum THEN summaries \cup {c.sec} ELSE summaries
     /\ UNCHANGED <<proposal, sectionIndex, journal, notes, rows, ghosts>>
  \/ /\ c.at = "back-drop" /\ Answers(c, c.id, c.sec, FALSE)
     /\ journal' = Without({e \in ToSet(journal) : e.id = c.id})
     /\ UNCHANGED <<proposal, sectionIndex, notes, rows, summaries, ghosts>>

DeleteHandler(c) == c.kind = "delete" /\
  (DeleteRead(c) \/ DeleteStage(c) \/ DeleteSummaries(c) \/ DeleteRows(c)
   \/ DeleteSave(c) \/ DeleteFlip(c) \/ Rollback(c))

\* undoDelete: an entry that is gone counts as undone.
UndoFind(c) ==
  /\ c.at = "find"
  /\ IF \E e \in ToSet(journal) : e.id = c.id
     THEN /\ calls' = (calls \ {c}) \cup {[c EXCEPT !.at = "load",
                         !.entry = CHOOSE e \in ToSet(journal) : e.id = c.id]}
          /\ UNCHANGED replies
     ELSE Answers(c, c.id, c.sec, TRUE)
  /\ UNCHANGED <<stores, ghosts>>

UndoLoad(c) ==
  /\ c.at = "load" /\ UNCHANGED <<stores, ghosts, replies>>
  /\ calls' = (calls \ {c}) \cup {[c EXCEPT !.at = "meta", !.doc = proposal]}

UndoMeta(c) ==
  /\ c.at = "meta" /\ MergeMeta(c.entry) /\ Goes(c, "rows")
  /\ UNCHANGED <<proposal, journal, rows, summaries, ghosts>>

UndoRows(c) ==
  /\ c.at = "rows" /\ Goes(c, "summaries")
  /\ rows' = IF c.entry.row THEN rows \cup {c.sec} ELSE rows
  /\ UNCHANGED <<proposal, sectionIndex, journal, notes, summaries, ghosts>>

UndoSummaries(c) ==
  /\ c.at = "summaries" /\ Goes(c, "save")
  /\ summaries' = IF c.entry.sum THEN summaries \cup {c.sec} ELSE summaries
  /\ UNCHANGED <<proposal, sectionIndex, journal, notes, rows, ghosts>>

UndoSave(c) ==
  /\ c.at = "save" /\ proposal' = Restored(c.doc, c.entry) /\ Goes(c, "drop")
  /\ botched' = IF Contains(c.doc, c.sec) THEN botched \cup {c.sec} ELSE botched
  /\ UNCHANGED <<sectionIndex, journal, notes, rows, summaries, gone, rushed>>

UndoDrop(c) ==
  /\ c.at = "drop" /\ Answers(c, c.id, c.sec, TRUE)
  /\ journal' = Without(WindowAndOlder(c.id))
  /\ gone' = gone \cup (Chapters_(WindowAndOlder(c.id)) \ {c.sec})
  /\ UNCHANGED <<proposal, sectionIndex, notes, rows, summaries, botched, rushed>>

UndoHandler(c) == c.kind \in {"undo", "startup"} /\
  (UndoFind(c) \/ UndoLoad(c) \/ UndoMeta(c) \/ UndoRows(c) \/ UndoSummaries(c)
   \/ UndoSave(c) \/ UndoDrop(c))

FinalizeDelete(c) ==
  /\ c.kind = "finalize" /\ Answers(c, c.id, c.sec, TRUE)
  /\ journal' = Without(WindowAndOlder(c.id))
  /\ gone' = gone \cup Chapters_(WindowAndOlder(c.id))
  /\ UNCHANGED <<proposal, sectionIndex, notes, rows, summaries, botched, rushed>>

\* getActivePendingDeletion: the latest active entry.
ListPending(c) ==
  LET at == SelectLastInSeq(journal, LAMBDA e : e.stage = "active")
  IN /\ c.kind = "hydrate" /\ UNCHANGED <<stores, ghosts>>
     /\ IF at = 0 THEN Answers(c, 0, 0, TRUE)
        ELSE Answers(c, journal[at].id, journal[at].sec, TRUE)

Handle ==
  /\ \E c \in calls : DeleteHandler(c) \/ UndoHandler(c) \/ FinalizeDelete(c) \/ ListPending(c)
  /\ UNCHANGED <<boot, renderer, budget>>

\* A step of a handler throws (a save that throws may have been made).  A
\* deletion that has staged its entry and not yet flipped it is rolled back.
Fail ==
  \E c \in {d \in calls : d.at # "flush"} :
    /\ Spend("trouble")
    /\ IF c.kind = "delete" /\ c.at \in {"summaries", "rows", "save"}
       THEN Goes(c, "back-meta") ELSE Answers(c, c.id, c.sec, FALSE)
    /\ proposal' \in
         {proposal} \cup (IF c.at = "save" THEN
             {IF c.kind = "delete" THEN RemoveFirst(c.doc, c.sec) ELSE Restored(c.doc, c.entry)}
             ELSE {})
    /\ botched' = IF \/ c.kind = "undo" /\ c.at \in UndoSteps \ {"find", "load", "meta"}
                     \/ c.kind = "startup" /\ c.at = "save" /\ Contains(c.doc, c.sec)
                  THEN botched \cup {c.sec} ELSE botched
    /\ UNCHANGED <<sectionIndex, journal, notes, rows, summaries, boot, renderer, gone, rushed>>

-----------------------------------------------------------------------------
(* A crash, and cleanupPendingDeletionsOnStartup, which is over before the    *)
(* renderer can ask for anything.                                             *)

Up == boot = <<>> /\ \A c \in calls : c.kind # "startup"

Crash ==
  /\ Spend("trouble") /\ calls' = {} /\ replies' = <<>> /\ boot' = journal
  /\ window' = None /\ timer' = 0 /\ mutating' = FALSE /\ bound' = FALSE
  /\ botched' = botched \cup
       {c.sec : c \in {d \in calls : d.kind = "undo" /\ d.at \in {"rows", "summaries", "save", "drop"}}}
  /\ UNCHANGED <<stores, gone, rushed>>

\* Mutant: the start-up drops every entry, staged ones too.
CleanUpMutant ==
  /\ boot # <<>> /\ calls = {} /\ boot' = Tail(boot)
  /\ journal' = Without({Head(boot)})
  /\ gone' = IF Head(boot).stage = "active" THEN gone \cup {Head(boot).sec} ELSE gone
  /\ UNCHANGED <<proposal, sectionIndex, notes, rows, summaries, calls, replies, renderer,
                 botched, rushed, budget>>

\* A staged entry is undone, an active one is dropped.
CleanUp ==
  /\ boot # <<>> /\ calls = {} /\ boot' = Tail(boot)
  /\ IF Head(boot).stage = "staged"
     THEN /\ calls' = {[Call("startup", Head(boot).id, Head(boot).sec, "load")
                        EXCEPT !.entry = Head(boot)]}
          /\ UNCHANGED <<journal, gone>>
     ELSE /\ journal' = Without({Head(boot)}) /\ gone' = gone \cup {Head(boot).sec}
          /\ UNCHANGED calls
  /\ UNCHANGED <<proposal, sectionIndex, notes, rows, summaries, replies, renderer,
                 botched, rushed, budget>>

-----------------------------------------------------------------------------
(* The renderer.                                                              *)

Undoing  == \E c \in calls : c.kind = "undo"

\* requestSoftDelete: the previous window is finalized first, even when the
\* lock then refuses the deletion.
ClickDelete(c) ==
  /\ Up /\ bound /\ c # window.sec /\ Spend("click")
  /\ mutating' = TRUE
  /\ timer' = IF timer = window.id THEN 0 ELSE timer
  /\ calls' = calls
       \cup (IF window = None THEN {} ELSE {Call("finalize", window.id, window.sec, "drop")})
       \cup (IF mutating THEN {} ELSE {Call("delete", budget.click, c, "flush")})
  /\ rushed' = (rushed \/ Undoing)
  /\ UNCHANGED <<stores, boot, replies, window, bound, gone, botched>>

\* flushPendingContent saves what is shown, or gives up and the lock is freed.
Flush ==
  \E c \in calls :
    /\ c.at = "flush"
    /\ \/ Goes(c, "read") /\ UNCHANGED <<mutating, budget>>
       \/ /\ Spend("trouble") /\ calls' = calls \ {c} /\ mutating' = FALSE
          /\ UNCHANGED replies
    /\ UNCHANGED <<stores, boot, window, timer, bound, ghosts>>

\* undoPendingDelete takes no lock.  The toast of a deletion that was answered
\* after a switch is shown in the other project, which has no such entry.
ClickUndo ==
  /\ Up /\ window # None /\ Spend("click")
  /\ timer' = IF bound /\ timer = window.id THEN 0 ELSE timer
  /\ calls' = calls \cup {Call("undo", IF bound THEN window.id ELSE 0, window.sec, "find")}
  /\ rushed' = (rushed \/ Undoing \/ mutating \/ ~bound)
  /\ UNCHANGED <<stores, boot, replies, window, mutating, bound, gone, botched>>

\* The five seconds are over.
FinalizeTimer ==
  /\ timer # 0 /\ timer' = 0
  /\ calls' = calls \cup {Call("finalize", timer, 0, "drop")}
  /\ UNCHANGED <<stores, boot, replies, window, mutating, bound, ghosts, budget>>

\* bindProject forgets the window and keeps the lock; coming back, the journal
\* is asked for an active window.
SwitchProject ==
  /\ Up /\ bound /\ Spend("trouble") /\ bound' = FALSE /\ window' = None
  /\ UNCHANGED <<stores, calls, boot, replies, timer, mutating, ghosts>>

OpenProject ==
  /\ Up /\ ~bound /\ bound' = TRUE /\ window' = None
  /\ calls' = calls \cup {Call("hydrate", 0, 0, "read")}
  /\ UNCHANGED <<stores, boot, replies, timer, mutating, ghosts, budget>>

OnDeleteReply(r) ==
  /\ r.kind = "delete" /\ mutating' = FALSE /\ UNCHANGED bound
  /\ IF r.ok THEN window' = [id |-> r.id, sec |-> r.sec] /\ timer' = r.id
     ELSE UNCHANGED <<window, timer>>

OnUndoReply(r) ==
  /\ r.kind = "undo" /\ UNCHANGED <<mutating, bound>>
  /\ IF r.ok THEN window' = None /\ UNCHANGED timer
     ELSE timer' = (IF window.id = r.id THEN r.id ELSE timer) /\ UNCHANGED window

\* Mutant: a failed finalize is not tried again.
OnFinalizeReplyMutant(r) ==
  /\ r.kind = "finalize" /\ UNCHANGED <<mutating, bound, timer>>
  /\ window' = IF r.ok /\ window.id = r.id THEN None ELSE window

OnFinalizeReply(r) ==
  /\ r.kind = "finalize" /\ UNCHANGED <<mutating, bound>>
  /\ IF r.ok THEN window' = (IF window.id = r.id THEN None ELSE window) /\ UNCHANGED timer
     ELSE timer' = (IF window.id = r.id THEN r.id ELSE timer) /\ UNCHANGED window

OnHydrateReply(r) ==
  /\ r.kind = "hydrate" /\ UNCHANGED <<mutating, bound>>
  /\ IF r.ok /\ bound
     THEN /\ timer' = r.id
          /\ window' = [id |-> r.id, sec |-> r.sec]
     ELSE UNCHANGED <<window, timer>>

Reply ==
  /\ replies # <<>> /\ replies' = Tail(replies)
  /\ LET r == Head(replies)
     IN OnDeleteReply(r) \/ OnUndoReply(r) \/ OnFinalizeReply(r) \/ OnHydrateReply(r)
  /\ UNCHANGED <<stores, calls, boot, ghosts, budget>>

-----------------------------------------------------------------------------
DeleteNext ==
  \/ Handle \/ Fail \/ Crash \/ CleanUp
  \/ \E c \in Chapters : ClickDelete(c)
  \/ Flush \/ ClickUndo \/ FinalizeTimer \/ SwitchProject \/ OpenProject \/ Reply

\* The event loops run: a handler goes on, a reply is handled, a timer fires,
\* the start-up cleans up.  What a user does, a crash and a fault are not owed.
DeleteFairness ==
  /\ WF_deleteVars(Handle) /\ WF_deleteVars(Flush)
  /\ WF_deleteVars(CleanUp) /\ WF_deleteVars(Reply) /\ WF_deleteVars(FinalizeTimer)

DeleteSpec == DeleteInit /\ [][DeleteNext]_deleteVars /\ DeleteFairness

-----------------------------------------------------------------------------
DeleteTypeOK ==
  /\ proposal \in Seq(Chapters) /\ sectionIndex \subseteq Chapters
  /\ journal \in Seq(Entry) /\ boot \in Seq(Entry)
  /\ notes \in [Chapters -> Nat] /\ rows \subseteq Chapters /\ summaries \subseteq Chapters
  /\ \A c \in calls : /\ c.kind \in Kinds /\ c.doc \in Seq(Chapters)
                       /\ c.at \in DeleteSteps \cup RollbackSteps \cup UndoSteps
                       /\ c.entry \in Entry \cup {None}
  /\ window.sec \in Chapters \cup {0} /\ {window.id, timer} \subseteq 0..MaxDeleteClicks
  /\ {mutating, bound, rushed} \subseteq BOOLEAN
  /\ gone \cup botched \subseteq Chapters

\* No crash, no failed step and no order of finalizing, undoing and deleting
\* loses a chapter whose window is open: its text is in proposal.md or in the
\* journal.  (An undo that overlaps a deletion or another undo may lose one.)
NothingLost ==
  ~rushed => \A c \in Chapters \ gone :
    Contains(proposal, c) \/ \E e \in ToSet(journal) : e.sec = c

\* When nothing is under way and the journal has no entry of a chapter, the
\* document, its index, the annotations, the SQLite rows and the summaries
\* agree on whether it exists - unless an undo of it was broken off, the
\* start-up put it back although the crash had come before it was cut out, or
\* it was deleted again from what a broken off rollback had left.
StoresAgree ==
  (~rushed /\ calls = {} /\ boot = <<>>) =>
    \A c \in Chapters \ (botched \cup Chapters_(ToSet(journal))) :
      LET exists == Contains(proposal, c)
      IN /\ exists = (c \in sectionIndex) /\ exists = (notes[c] > 0)
         /\ exists = (c \in rows) /\ exists = (c \in summaries)

StrictlyAscending(doc) == \A i, j \in DOMAIN doc : i < j => doc[i] < doc[j]

\* An undo that comes to its last step has put everything back: the chapter at
\* its place between its siblings, its annotations once, its rows and summary.
\* (A deletion that could not be rolled back leaves its chapter in the document
\* and not in the index: then no place is known, nor beside a chapter that an
\* undo put back twice.)
UndoRestores ==
  \A c \in calls :
    (c.kind = "undo" /\ c.at = "drop" /\ ~rushed /\ c.sec \notin botched) =>
      /\ c.sec \in sectionIndex /\ notes[c.sec] = c.entry.notes
      /\ (c.entry.row => c.sec \in rows) /\ (c.entry.sum => c.sec \in summaries)
      /\ (StrictlyAscending(c.doc) /\ ~Contains(c.doc, c.sec)
          /\ Chapters_(ToSet(journal)) \subseteq {c.sec}
          /\ (ToSet(c.doc) \cup {c.entry.prev}) \cap botched = {})
           => StrictlyAscending(proposal) /\ Contains(proposal, c.sec)

\* An undo window closes while its project is open, also when its finalize
\* fails or the user had been elsewhere: the journal does not keep an active
\* entry.  (A finalize that fails behind another project is not repeated.)
WindowCloses ==
  (bound /\ OfStage("active") # {}) ~> (~bound \/ rushed \/ OfStage("active") = {})
=============================================================================
