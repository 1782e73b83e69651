---------------------------- MODULE TenderAnalysis ----------------------------
(* A project's tender analysis: import of the tender, extraction of its       *)
(* requirements, fog map, traceability matrix, addenda, and the links the     *)
(* user edits (services/document-parser, db/repositories, analysisStore.ts    *)
(* and the task monitor of useAnalysis.ts).                                   *)
(*                                                                            *)
(* A task is known by its number, and what it writes carries that number: one *)
(* element of `reqs` stands for the requirements a task created.  There is    *)
(* one section, so a link is known by its requirements.  The answer to a read *)
(* and the `set` it leads to are one step; a handler that awaits another      *)
(* answer before its `set` is two.                                            *)
EXTENDS Naturals, Sequences, FiniteSets

\* Bounds for TLC; FreshTasks are those of a project without a tender.
CONSTANTS MaxTasks, FreshTasks, MaxEdits, MaxVisits, MaxAnalysisTroubles

ASSUME TenderAssumption ==
  /\ MaxTasks \in Nat /\ MaxTasks >= 2 /\ FreshTasks \in Nat
  /\ MaxEdits \in Nat /\ MaxVisits \in Nat /\ MaxAnalysisTroubles \in Nat

VARIABLES
  tasks,     \* the analysis tasks, with what each executor holds
  db,        \* the project's rows and files
  screen,    \* the project's entry in the store
  calls,     \* kinds of tasks asked for, the answer under way
  held,      \* what a completion handler has read and not yet set
  refresh,   \* an edit of a link will read the matrix again
  left,      \* what the bounds have left
  detached,  \* the store has let go of a task it was tracking, or is yet to track
  broken,    \* a task failed between two writes, or a read of the requirements
  overtaken  \* the last matrix a handler set was out of date

asideVars  == <<refresh, left, detached, broken, overtaken>>
tenderVars == <<tasks, db, screen, calls, held, asideVars>>

Kinds == {"import", "extraction", "fog", "matrix", "addendum"}
Ids   == 1..MaxTasks

Null   == {}                          \* or the set of one value
NoLink == [source |-> "none", id |-> 0]
Linked(source, id) == [source |-> source, id |-> id]

Kind(t)  == tasks[t].kind
At(t, s) == tasks[t].at = s

\* createProjectState
Blank == [tender |-> Null, reqs |-> Null, fog |-> Null, matrix |-> Null,
          tracked |-> [k \in Kinds |-> 0], loading |-> {}, matrixError |-> FALSE]

-----------------------------------------------------------------------------
(* What the main process answers.                                             *)
Linkless == \A r \in Ids : db.links[r] = NoLink

GetTender == IF db.tender = 0 THEN Null ELSE {db.tender}
GetReqs   == IF db.reqs = {} /\ ~db.scored THEN Null
             ELSE {[of |-> db.reqs, patched |-> db.patched]}
GetFog    == IF db.fog = {} THEN Null ELSE {db.fog}
GetMatrix == IF db.reqs = {} \/ (Linkless /\ ~db.mapped) THEN Null
             ELSE {[rows |-> db.reqs, links |-> db.links]}

-----------------------------------------------------------------------------
NoRows == [tender |-> 0, reqs |-> {}, patched |-> {}, fog |-> {}, scored |-> FALSE,
           links |-> [r \in Ids |-> NoLink], mapped |-> FALSE]

Bounded(n, v) == [tasks |-> n, edits |-> MaxEdits, visits |-> v,
                  troubles |-> MaxAnalysisTroubles]

Begun(k) == [kind |-> k, known |-> {}, at |-> "begun", abort |-> FALSE]

Done(k) == [Begun(k) EXCEPT !.at = "completed"]

\* A project without a tender, or one whose requirements were extracted, and one
\* of them linked by the user, before the application was started; its view has
\* just been mounted, and the read of the requirements may have failed.
TenderInit ==
  /\ broken \in BOOLEAN
  /\ \/ /\ tasks = <<>> /\ db = NoRows /\ screen = Blank /\ ~broken
        /\ left = Bounded(FreshTasks, MaxVisits)
     \/ /\ tasks = <<Done("import"), Done("extraction")>>
        /\ db = [NoRows EXCEPT !.tender = 1, !.reqs = {2}, !.scored = TRUE,
                               !.links[2] = Linked("manual", 1), !.mapped = TRUE]
        /\ screen = [Blank EXCEPT !.tender = {1}, !.reqs = IF broken THEN Null ELSE GetReqs,
                                  !.matrix = GetMatrix]
        /\ left = Bounded(MaxTasks, 0)
  /\ calls = {} /\ held = [k \in Kinds |-> Null] /\ refresh = FALSE
  /\ detached = FALSE /\ overtaken = FALSE

-----------------------------------------------------------------------------
(* What the user can ask for, by what the screen offers.                      *)
Busy(k) == k \in screen.loading \/ screen.tracked[k] # 0

HasReqs == \E a \in screen.reqs : a.of # {}

\* The tender and what was found in it are on the screen, and no progress bar.
Browsing == screen.tender # Null /\ screen.tracked["import"] = 0

\* The store will not hear of the ends of what it tracks, or has begun to read.
LetsGo(ks) == \E k \in ks : screen.tracked[k] # 0 \/ held[k] # Null

Ask(k) == /\ k \notin calls
          /\ calls' = calls \cup {k}
          /\ UNCHANGED <<db, held, refresh, left, broken, overtaken>>

\* importTender: the project's state begins anew.
AskImport ==
  /\ Ask("import") /\ ~Busy("import")
  /\ screen.tender = Null \/ screen.reqs = Null
  /\ screen' = [Blank EXCEPT !.loading = {"import"}]
  /\ detached' = (detached \/ LetsGo(Kinds) \/ calls # {})
  /\ UNCHANGED tasks

\* extractRequirements: drops the fog map and cancels its task, if it has one.
AskExtraction ==
  /\ Ask("extraction") /\ ~Busy("extraction") /\ Browsing /\ screen.reqs = Null
  /\ screen' = [screen EXCEPT !.fog = Null, !.tracked["fog"] = 0,
                              !.loading = (@ \cup {"extraction"}) \ {"fog"}]
  /\ tasks' = [t \in DOMAIN tasks |->
                 IF t = screen.tracked["fog"] THEN [tasks[t] EXCEPT !.abort = TRUE]
                                              ELSE tasks[t]]
  /\ detached' = (detached \/ LetsGo({"fog"}))

AskFog ==
  /\ Ask("fog") /\ ~Busy("fog") /\ ~Busy("extraction") /\ Browsing /\ screen.reqs # Null
  /\ screen' = [screen EXCEPT !.fog = Null, !.loading = @ \cup {"fog"}]
  /\ UNCHANGED <<tasks, detached>>

\* The button is off during an addendum; "retry" next to an error is not.
AskMatrix ==
  /\ Ask("matrix") /\ ~Busy("matrix") /\ Browsing /\ HasReqs
  /\ ~Busy("addendum") \/ screen.matrixError
  /\ screen' = [screen EXCEPT !.matrixError = FALSE, !.loading = @ \cup {"matrix"}]
  /\ UNCHANGED <<tasks, detached>>

AskAddendum ==
  /\ Ask("addendum") /\ ~Busy("matrix") /\ ~Busy("addendum") /\ Browsing /\ HasReqs
  /\ screen' = [screen EXCEPT !.loading = @ \cup {"addendum"}]
  /\ UNCHANGED <<tasks, detached>>

\* The service reads what its executor will hold, enqueues the task and
\* answers with its id.  Without requirements there is nothing to do.
Answer(k) ==
  /\ k \in calls /\ Len(tasks) < left.tasks
  /\ calls' = calls \ {k}
  /\ IF k \in {"fog", "matrix"} /\ db.reqs = {}
     THEN /\ screen' = [screen EXCEPT !.loading = @ \ {k},
                                      !.matrixError = @ \/ k = "matrix"]
          /\ UNCHANGED tasks
     ELSE /\ tasks' = Append(tasks, [Begun(k) EXCEPT !.known = db.reqs])
          /\ screen' = [screen EXCEPT !.loading = @ \ {k},
                                      !.tracked[k] = Len(tasks) + 1]
  /\ UNCHANGED <<db, held, asideVars>>

\* handleCancel, of an import only: its task, and with it the project's state.
CancelImport ==
  /\ screen.tracked["import"] # 0
  /\ ~At(screen.tracked["import"], "completed") /\ ~At(screen.tracked["import"], "failed")
  /\ tasks' = [tasks EXCEPT ![screen.tracked["import"]].abort = TRUE]
  /\ screen' = Blank
  /\ detached' = TRUE
  /\ UNCHANGED <<db, calls, held, refresh, left, broken, overtaken>>

-----------------------------------------------------------------------------
(* The executors.  The first step is the agent's answer; what a task does is  *)
(* written to the rows as it was read when the task was asked for.            *)
Works(t, k, s) == /\ t \in DOMAIN tasks /\ Kind(t) = k /\ At(t, s)
                  /\ UNCHANGED <<screen, calls, held, refresh, detached, overtaken>>

MovesOn(t, s) == tasks' = [tasks EXCEPT ![t].at = s]

\* An agent, a write or the disk lets the task down.
LetDown(t, s, between) ==
  /\ left.troubles > 0 /\ left' = [left EXCEPT !.troubles = @ - 1]
  /\ MovesOn(t, s)
  /\ broken' = (broken \/ between)
  /\ UNCHANGED db

\* A cancelled import parses on and writes its tender.
ImportStep(t) ==
  /\ Works(t, "import", "begun")
  /\ \/ /\ db' = [db EXCEPT !.tender = t] /\ MovesOn(t, "completed")
        /\ UNCHANGED <<left, broken>>
     \/ LetDown(t, "failed", FALSE)

\* deleteByProject, mutated: what refers to the requirements stays.
NoCascadeMutant == [db EXCEPT !.reqs = {}, !.patched = {}]

\* deleteByProject of the requirements; the foreign keys cascade.
Emptied == [db EXCEPT !.reqs = {}, !.patched = {}, !.fog = {},
                      !.links = [r \in Ids |-> NoLink]]

\* Clears the fog map, deletes the requirements, and with them what refers to
\* them, then writes the new ones; it does not look at its signal.
ExtractionStep(t) ==
  \/ /\ Works(t, "extraction", "begun")
     /\ \/ /\ db' = [db EXCEPT !.fog = {}] /\ MovesOn(t, "cleared")
           /\ UNCHANGED <<left, broken>>
        \/ LetDown(t, "failed", FALSE)
  \/ /\ Works(t, "extraction", "cleared")
     /\ db' = Emptied
     /\ MovesOn(t, "emptied") /\ UNCHANGED <<left, broken>>
  \/ /\ Works(t, "extraction", "emptied")
     /\ \/ /\ db' = [db EXCEPT !.reqs = @ \cup {t}, !.scored = TRUE]
           /\ MovesOn(t, "completed") /\ UNCHANGED <<left, broken>>
        \/ LetDown(t, "failed", TRUE)

\* A certainty of a requirement that is gone fails the transaction.
FogStep(t) ==
  /\ Works(t, "fog", "begun")
  /\ \/ /\ tasks[t].abort
        /\ MovesOn(t, "cancelled") /\ UNCHANGED <<db, left, broken>>
     \/ /\ ~tasks[t].abort
        /\ IF tasks[t].known \subseteq db.reqs
           THEN db' = [db EXCEPT !.fog = tasks[t].known] /\ MovesOn(t, "completed")
           ELSE UNCHANGED db /\ MovesOn(t, "failed")
        /\ UNCHANGED <<left, broken>>
     \/ LetDown(t, "failed", FALSE)

Manual(r) == db.links[r].source = "manual"

\* replaceAutoByProject, mutated: deletes the manual links too.
ReplacedAllMutant(S, t) ==
  [r \in Ids |-> IF r \in S THEN Linked("auto", t) ELSE NoLink]

Replaced(S, t) ==
  [r \in Ids |-> IF Manual(r) THEN db.links[r]
                 ELSE IF r \in S THEN Linked("auto", t) ELSE NoLink]

\* buildAutoLinks and replaceAutoByProject: a link the model proposes fails
\* the transaction if its requirement is gone or the user has made that link.
Remaps(t, among) ==
  /\ \E S \in SUBSET among :
       IF S \subseteq db.reqs /\ \A r \in S : ~Manual(r)
       THEN /\ db' = [db EXCEPT !.links = Replaced(S, t)]
            /\ MovesOn(t, "mapped") /\ UNCHANGED broken
       ELSE /\ MovesOn(t, "failed") /\ UNCHANGED db
            /\ broken' = (broken \/ Kind(t) = "addendum")
  /\ UNCHANGED left

\* The last write of a mapping: traceability-matrix.json.
Snapshot(t) ==
  \/ /\ db' = [db EXCEPT !.mapped = TRUE] /\ MovesOn(t, "completed")
     /\ UNCHANGED <<left, broken>>
  \/ LetDown(t, "failed", TRUE)

MatrixStep(t) ==
  \/ Works(t, "matrix", "begun") /\ (Remaps(t, tasks[t].known) \/ LetDown(t, "failed", FALSE))
  \/ Works(t, "matrix", "mapped") /\ Snapshot(t)

\* An addendum that changes requirements and adds others: the changes are
\* written, the second agent maps all, and only then the others are written.
AddendumStep(t) ==
  \/ /\ Works(t, "addendum", "begun")
     /\ tasks' = [tasks EXCEPT ![t].known = db.reqs, ![t].at = "reading"]
     /\ UNCHANGED <<db, left, broken>>
  \/ /\ Works(t, "addendum", "reading")
     /\ \/ /\ IF tasks[t].known \subseteq db.reqs
              THEN /\ db' = [db EXCEPT !.patched = @ \cup {t : r \in tasks[t].known}]
                   /\ MovesOn(t, "patched")
              ELSE UNCHANGED db /\ MovesOn(t, "failed")
           /\ UNCHANGED <<left, broken>>
        \/ LetDown(t, "failed", FALSE)
  \/ /\ Works(t, "addendum", "patched")
     /\ \/ /\ db' = [db EXCEPT !.reqs = @ \cup {t}] /\ MovesOn(t, "created")
           /\ UNCHANGED <<left, broken>>
        \/ LetDown(t, "unmapped", FALSE)
  \/ Works(t, "addendum", "created") /\ Remaps(t, tasks[t].known \cup {t})
  \/ Works(t, "addendum", "mapped") /\ Snapshot(t)

TaskStep(t) == \/ ImportStep(t) \/ ExtractionStep(t) \/ FogStep(t)
               \/ MatrixStep(t) \/ AddendumStep(t)

-----------------------------------------------------------------------------
(* The task monitor: checkTaskStatus of the tasks the store tracks.           *)
Seen == [reqs |-> GetReqs, fog |-> GetFog, matrix |-> GetMatrix]

Tracked(k, s) == /\ screen.tracked[k] # 0 /\ At(screen.tracked[k], s)
                 /\ UNCHANGED <<tasks, db, calls, refresh, left, broken>>

\* fetchTenderResult, at the end of an import and of a mount.
TenderShown(sc) == [sc EXCEPT !.tender = GetTender, !.tracked["import"] = 0,
                              !.loading = @ \ {"import"}]

ImportEnds ==
  /\ Tracked("import", "completed")
  /\ screen' = TenderShown(screen)
  /\ UNCHANGED <<held, detached, overtaken>>

\* The handler of a completed task reads; that of an extraction sets the
\* requirements at once, and reads the scoring model next.
Reads(k) ==
  /\ k # "import" /\ Tracked(k, "completed") /\ held[k] = Null
  /\ held' = [held EXCEPT ![k] = {Seen}]
  /\ screen' = IF k = "extraction" THEN [screen EXCEPT !.reqs = GetReqs] ELSE screen
  /\ UNCHANGED <<detached, overtaken>>

\* invalidateFogMapState
FogDropped(sc) == [sc EXCEPT !.fog = Null, !.tracked["fog"] = 0,
                             !.loading = @ \ {"fog"}]

\* set...Completed and setError, mutated: the task's id stays.
TrackedStillMutant(k) == [screen EXCEPT !.loading = @ \ {k}]

Ended(k) == [screen EXCEPT !.tracked[k] = 0, !.loading = @ \ {k}]

\* set...Completed with what was read.
Sets(k) ==
  /\ held' = [held EXCEPT ![k] = Null]
  /\ \E seen \in held[k] :
       \/ /\ k = "extraction"
          /\ screen' = [FogDropped(Ended(k)) EXCEPT
                          !.reqs = IF @ = Null THEN {[of |-> {}, patched |-> {}]} ELSE @]
          /\ detached' = (detached \/ LetsGo({"fog"})) /\ UNCHANGED overtaken
       \/ /\ k = "fog"
          /\ screen' = IF screen.tracked[k] = 0 THEN screen
                       ELSE [Ended(k) EXCEPT !.fog = seen.fog]
          /\ UNCHANGED <<detached, overtaken>>
       \/ /\ k = "matrix"
          /\ screen' = [Ended(k) EXCEPT !.matrix = seen.matrix, !.matrixError = FALSE]
          /\ overtaken' = (seen.matrix # GetMatrix) /\ UNCHANGED detached
       \/ /\ k = "addendum"
          /\ screen' = [Ended(k) EXCEPT !.matrix = seen.matrix, !.reqs = seen.reqs]
          /\ overtaken' = (seen.matrix # GetMatrix) /\ UNCHANGED detached
  /\ UNCHANGED <<tasks, db, calls, refresh, left, broken>>

\* setError, mutated: nothing is fetched after an addendum without a mapping.
NotFetchedMutant(sc) == sc

\* The changes of an addendum without a mapping are there: they are fetched.
Fetched(sc) == [sc EXCEPT !.reqs = GetReqs, !.matrix = GetMatrix]

\* setError: whatever failed, the import is no longer loading.
Failed(k) ==
  LET lost == [Ended(k) EXCEPT !.loading = @ \ {"import"}] IN
  /\ UNCHANGED held
  /\ \/ /\ k = "extraction" /\ Tracked(k, "failed")
        /\ screen' = FogDropped(lost)
        /\ detached' = (detached \/ LetsGo({"fog"})) /\ UNCHANGED overtaken
     \/ /\ k = "matrix" /\ Tracked(k, "failed")
        /\ screen' = [lost EXCEPT !.matrixError = TRUE]
        /\ UNCHANGED <<detached, overtaken>>
     \/ /\ k \in {"import", "fog", "addendum"} /\ Tracked(k, "failed")
        /\ screen' = lost /\ UNCHANGED <<detached, overtaken>>
     \/ /\ k = "addendum" /\ Tracked(k, "unmapped")
        /\ screen' = Fetched(lost)
        /\ overtaken' = FALSE /\ UNCHANGED detached

MonitorStep(k) == Reads(k) \/ Sets(k) \/ Failed(k) \/ (k = "import" /\ ImportEnds)

-----------------------------------------------------------------------------
(* The user edits a cell of the matrix on the screen.                         *)
\* The row has it that `link` is in the cell.
Edits(r, link) ==
  /\ left.edits > 0 /\ left' = [left EXCEPT !.edits = @ - 1] /\ Browsing /\ HasReqs
  /\ \E m \in screen.matrix : r \in m.rows /\ m.links[r] = link
  /\ UNCHANGED <<tasks, screen, calls, held, detached, broken, overtaken>>

\* The main process has taken the edit; the matrix is read again.
Writes(r, link, mapped) ==
  /\ db' = [db EXCEPT !.links[r] = link, !.mapped = @ \/ mapped]
  /\ refresh' = TRUE

Refused == UNCHANGED <<db, refresh>>

CreateLink(r) ==
  /\ Edits(r, NoLink)
  /\ IF r \in db.reqs /\ db.links[r] = NoLink
     THEN Writes(r, Linked("manual", MaxTasks + left.edits), TRUE) ELSE Refused

\* By the link's id: a matrix generated since then has other links.
UpdateLink(r) ==
  \E link \in {m.links[r] : m \in screen.matrix} :
    /\ link # NoLink /\ Edits(r, link)
    /\ IF db.links[r].id = link.id
       THEN Writes(r, Linked("manual", link.id), TRUE) ELSE Refused

DeleteLink(r) ==
  \E link \in {m.links[r] : m \in screen.matrix} :
    /\ link.source = "manual" /\ Edits(r, link)
    /\ IF db.links[r].id = link.id THEN Writes(r, NoLink, FALSE) ELSE Refused

Refreshes ==
  /\ refresh /\ refresh' = FALSE
  /\ screen' = [screen EXCEPT !.matrix = GetMatrix]
  /\ overtaken' = FALSE
  /\ UNCHANGED <<tasks, db, calls, held, left, detached, broken>>

\* AnalysisView is mounted and fetches everything.
Visit ==
  /\ left.visits > 0 /\ left' = [left EXCEPT !.visits = @ - 1]
  /\ screen' = [(IF GetTender = Null THEN [screen EXCEPT !.loading = @ \ {"import"}]
                 ELSE TenderShown(screen))
                EXCEPT !.reqs = GetReqs, !.fog = GetFog, !.matrix = GetMatrix]
  /\ detached' = (detached \/ (GetTender # Null /\ LetsGo({"import"})))
  /\ overtaken' = FALSE
  /\ UNCHANGED <<tasks, db, calls, held, refresh, broken>>

TenderNext ==
  \/ AskImport \/ AskExtraction \/ AskFog \/ AskMatrix \/ AskAddendum
  \/ CancelImport \/ Refreshes \/ Visit
  \/ \E k \in Kinds : Answer(k) \/ MonitorStep(k)
  \/ \E t \in Ids : TaskStep(t)
  \/ \E r \in Ids : CreateLink(r) \/ UpdateLink(r) \/ DeleteLink(r)

\* The main process answers, its tasks go on, the monitor polls; which of them
\* comes first does not matter, as there are never endlessly many.
TenderFairness ==
  /\ WF_tenderVars(\E k \in Kinds : Answer(k))
  /\ WF_tenderVars(\E k \in Kinds : MonitorStep(k))
  /\ WF_tenderVars(\E t \in Ids : TaskStep(t))
  /\ WF_tenderVars(Refreshes)

TenderSpec == TenderInit /\ [][TenderNext]_tenderVars /\ TenderFairness

-----------------------------------------------------------------------------
\* Types, and the foreign keys: certainties and links belong to requirements
\* that exist, and a tracked task is one of its kind.
TenderTypeOK ==
  /\ \A t \in DOMAIN tasks : Kind(t) \in Kinds /\ tasks[t].known \subseteq Ids
  /\ db.reqs \subseteq Ids /\ db.patched \subseteq Ids /\ db.fog \subseteq db.reqs
  /\ \A r \in Ids : db.links[r] # NoLink => r \in db.reqs
  /\ \A k \in Kinds : screen.tracked[k] \in {0} \cup {t \in DOMAIN tasks : Kind(t) = k}
  /\ screen.loading \subseteq Kinds /\ calls \subseteq Kinds

\* A link the user made or changed is replaced by no generation: it goes only
\* when the user deletes it or its requirement is extracted anew.
ManualKept ==
  [][\A r \in Ids : Manual(r) /\ r \in db'.reqs /\ left'.edits = left.edits
                      => db'.links[r] = db.links[r]]_tenderVars

\* A task the store tracks is not tracked for ever: whatever becomes of it, the
\* monitor puts an end to its progress bar.
TrackedEnds ==
  \A k \in Kinds : screen.tracked[k] # 0 ~> screen.tracked[k] = 0

Quiet == /\ calls = {} /\ ~refresh
         /\ \A k \in Kinds : screen.tracked[k] = 0 /\ held[k] = Null

\* When nothing is under way, what is on the screen is what the main process
\* would answer - unless the store let go of a task, a task failed between two
\* writes, or a handler set a matrix the user changed while it was reading on.
ScreenTells ==
  Quiet /\ ~detached /\ ~broken /\ ~overtaken =>
    /\ screen.tender \in {Null, GetTender} /\ screen.reqs \in {Null, GetReqs}
    /\ screen.fog \in {Null, GetFog} /\ screen.matrix \in {Null, GetMatrix}
=============================================================================
