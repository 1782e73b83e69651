---------------------------- MODULE ProjectProofs ----------------------------
(***************************************************************************)
(* Proofs about what is done in a project.  For the tender analysis: the   *)
(* rows keep their foreign keys, whatever overlaps, no generation replaces *)
(* what the user has linked, and the screen tells what the rows say once   *)
(* nothing is under way; for any number of tasks, edits, mounts and        *)
(* failures.  For the analyses that poll the task of an agent: they are    *)
(* clients of the queue, so what holds of every queue holds of theirs.     *)
(* For document, tender and analyses together: their types.                *)
(***************************************************************************)
EXTENDS MCProject, DocumentAutosaveProofs, TaskQueueProofs, TLAPS

(***************************************************************************)
(* The tender analysis.                                                    *)
(***************************************************************************)

\* Only a missing link has no id.
Cell  == {c \in [source : {"none", "manual", "auto"}, id : Nat] : c.id = 0 => c = NoLink}
Cells == [Ids -> Cell]

Rows == [tender : Nat, reqs : SUBSET Ids, patched : SUBSET Ids, fog : SUBSET Ids,
         scored : BOOLEAN, links : Cells, mapped : BOOLEAN]

ReqsShown == [of : SUBSET Ids, patched : SUBSET Ids]
Matrix    == [rows : SUBSET Ids, links : Cells]

Screen == [tender : SUBSET Nat, reqs : SUBSET ReqsShown, fog : SUBSET (SUBSET Ids),
           matrix : SUBSET Matrix, tracked : [Kinds -> Nat], loading : SUBSET Kinds,
           matrixError : BOOLEAN]

SeenOnce == [reqs : SUBSET ReqsShown, fog : SUBSET (SUBSET Ids), matrix : SUBSET Matrix]

TaskPlaces == {"begun", "cleared", "emptied", "reading", "patched", "created", "mapped",
           "completed", "failed", "cancelled", "unmapped"}

Task == [kind : Kinds, known : SUBSET Ids, at : TaskPlaces, abort : BOOLEAN]

\* Certainties and links belong to requirements that exist.
Referred(kept) ==
  /\ kept.fog \subseteq kept.reqs
  /\ \A r \in Ids : kept.links[r] # NoLink => r \in kept.reqs

RowsOK == db \in Rows /\ Referred(db)

TrackedOnes ==
  \A k \in Kinds : \/ screen.tracked[k] = 0
                   \/ screen.tracked[k] \in DOMAIN tasks /\ Kind(screen.tracked[k]) = k

LeftOK == left \in [tasks : Nat, edits : Nat, visits : Nat, troubles : Nat]

TInv ==
  /\ tasks \in Seq(Task) /\ RowsOK
  /\ screen \in Screen /\ TrackedOnes /\ held \in [Kinds -> SUBSET SeenOnce]
  /\ calls \subseteq Kinds /\ LeftOK

-----------------------------------------------------------------------------
LEMMA NoLinkIsACell == NoLink \in Cell
BY DEF Cell, NoLink

LEMMA LinkedIsACell ==
  ASSUME NEW source \in {"manual", "auto"}, NEW id \in Nat \ {0}
  PROVE  Linked(source, id) \in Cell
BY DEF Cell, Linked, NoLink

\* What the main process answers can be shown.
LEMMA AnswersTyped ==
  ASSUME RowsOK
  PROVE  /\ GetTender \subseteq Nat
         /\ GetReqs \subseteq ReqsShown
         /\ GetFog \subseteq SUBSET Ids
         /\ GetMatrix \subseteq Matrix
<1>1. GetTender \subseteq Nat
  BY DEF RowsOK, Rows, GetTender, Null
<1>2. GetReqs \subseteq ReqsShown
  BY DEF RowsOK, Rows, GetReqs, Null, ReqsShown
<1>3. GetFog \subseteq SUBSET Ids
  BY DEF RowsOK, Rows, GetFog, Null
<1>4. GetMatrix \subseteq Matrix
  BY DEF RowsOK, Rows, GetMatrix, Null, Matrix
<1> QED
  BY <1>1, <1>2, <1>3, <1>4

LEMMA SeenTyped == ASSUME RowsOK PROVE Seen \in SeenOnce
BY AnswersTyped DEF Seen, SeenOnce

-----------------------------------------------------------------------------
(* The initial states *)

LEMMA NoRowsTyped == NoRows \in Rows /\ Referred(NoRows)
<1>1. NoRows.links = [r \in Ids |-> NoLink]
  BY DEF NoRows
<1>2. NoRows.links \in Cells
  BY <1>1, NoLinkIsACell DEF Cells
<1> QED
  BY <1>1, <1>2 DEF NoRows, Rows, Referred

LEMMA BlankTyped == Blank \in Screen
BY DEF Blank, Screen, Null

LEMMA TInvInit == TenderInit => TInv
<1> SUFFICES ASSUME TenderInit PROVE TInv
  OBVIOUS
<1>1. calls \subseteq Kinds /\ held \in [Kinds -> SUBSET SeenOnce]
  BY DEF TenderInit, Null
<1>2. CASE tasks = <<>> /\ db = NoRows /\ screen = Blank /\ left = Bounded(FreshTasks, MaxVisits)
  <2>1. RowsOK
    BY <1>2, NoRowsTyped DEF RowsOK
  <2>2. screen \in Screen
    BY <1>2, BlankTyped
  <2>3. TrackedOnes
    BY <1>2 DEF TrackedOnes, Blank
  <2>4. LeftOK
    BY <1>2, TenderAssumption DEF LeftOK, Bounded
  <2>5. tasks \in Seq(Task)
    BY <1>2
  <2> QED
    BY <1>1, <2>1, <2>2, <2>3, <2>4, <2>5 DEF TInv
<1>3. CASE /\ tasks = <<Done("import"), Done("extraction")>>
           /\ db = [NoRows EXCEPT !.tender = 1, !.reqs = {2}, !.scored = TRUE,
                                  !.links[2] = Linked("manual", 1), !.mapped = TRUE]
           /\ screen = [Blank EXCEPT !.tender = {1}, !.reqs = IF broken THEN Null ELSE GetReqs,
                                     !.matrix = GetMatrix]
           /\ left = Bounded(MaxTasks, 0)
  <2>1. RowsOK
    <3>1. 2 \in Ids
      BY TenderAssumption DEF Ids
    <3>2. db.links = [NoRows.links EXCEPT ![2] = Linked("manual", 1)]
          /\ db.reqs = {2} /\ db.fog = {}
      BY <1>3 DEF NoRows
    <3>3. NoRows.links \in Cells /\ \A r \in Ids : NoRows.links[r] = NoLink
      BY NoRowsTyped DEF Rows, NoRows
    <3>4. db.links \in Cells
      <4>1. Linked("manual", 1) \in Cell
        BY LinkedIsACell
      <4> QED
        BY <3>2, <3>3, <4>1 DEF Cells
    <3>5. Referred(db)
      BY <3>1, <3>2, <3>3 DEF Referred, Cells
    <3>6. db \in Rows
      BY <1>3, <3>1, <3>4 DEF NoRows, Rows
    <3> QED
      BY <3>5, <3>6 DEF RowsOK
  <2>2. screen \in Screen
    <3>1. GetMatrix \in SUBSET Matrix /\ GetReqs \in SUBSET ReqsShown
      BY <2>1, AnswersTyped
    <3>2. (IF broken THEN Null ELSE GetReqs) \in SUBSET ReqsShown
      BY <3>1 DEF Null
    <3> QED
      <4> DEFINE shown == IF broken THEN Null ELSE GetReqs
      <4>1. screen = [Blank EXCEPT !.tender = {1}, !.reqs = shown, !.matrix = GetMatrix]
        BY <1>3
      <4>2. shown \in SUBSET ReqsShown
        BY <3>2
      <4> HIDE DEF shown
      <4> QED
        <5>1. {1} \in SUBSET Nat
          OBVIOUS
        <5>2. screen = [tender |-> {1}, reqs |-> shown, fog |-> {}, matrix |-> GetMatrix,
                        tracked |-> Blank.tracked, loading |-> {}, matrixError |-> FALSE]
          BY <4>1 DEF Blank, Null
        <5>3. Blank.tracked \in [Kinds -> Nat]
          BY DEF Blank
        <5> QED
          BY <3>1, <4>2, <5>1, <5>2, <5>3 DEF Screen
  <2>3. TrackedOnes
    BY <1>3 DEF TrackedOnes, Blank
  <2>4. LeftOK
    BY <1>3, TenderAssumption DEF LeftOK, Bounded
  <2>5. Done("import") \in Task /\ Done("extraction") \in Task
    BY DEF Done, Begun, Task, Kinds, TaskPlaces
  <2>6. tasks \in Seq(Task)
    BY <1>3, <2>5
  <2> QED
    BY <1>1, <2>1, <2>2, <2>3, <2>4, <2>6 DEF TInv
<1> QED
  BY <1>2, <1>3 DEF TenderInit

-----------------------------------------------------------------------------
(* The user and the answers of the main process *)

\* A task keeps its number and its kind; what is tracked stays or is let go.
LEMMA TrackedLess ==
  ASSUME TInv, screen' \in Screen,
         \A k \in Kinds : screen'.tracked[k] \in {0, screen.tracked[k]},
         DOMAIN tasks \subseteq DOMAIN tasks',
         \A t \in DOMAIN tasks : tasks'[t].kind = tasks[t].kind
  PROVE  TrackedOnes'
BY DEF TInv, TrackedOnes, Kind

\* A step that changes the screen only, and whom it tracks only by forgetting.
LEMMA ScreenOnly ==
  ASSUME TInv, UNCHANGED <<tasks, db, left>>, calls' \subseteq Kinds,
         held' \in [Kinds -> SUBSET SeenOnce], screen' \in Screen,
         \A k \in Kinds : screen'.tracked[k] \in {0, screen.tracked[k]}
  PROVE  TInv'
<1>1. TrackedOnes'
  BY TrackedLess
<1> QED
  BY <1>1 DEF TInv, RowsOK, LeftOK

LEMMA AskKeeps ==
  ASSUME TInv,
         AskImport \/ AskExtraction \/ AskFog \/ AskMatrix \/ AskAddendum
  PROVE  TInv'
<1>0. screen \in Screen /\ held \in [Kinds -> SUBSET SeenOnce]
  BY DEF TInv
<1>1. /\ calls' \subseteq Kinds /\ UNCHANGED <<db, held, left>>
  BY DEF AskImport, AskExtraction, AskFog, AskMatrix, AskAddendum, Ask, TInv, Kinds
<1>2. CASE AskImport
  <2>1. screen' \in Screen
    BY <1>2, BlankTyped DEF AskImport, Screen, Kinds
  <2>2. \A k \in Kinds : screen'.tracked[k] = 0
    BY <1>2 DEF AskImport, Blank
  <2> QED
    BY <1>0, <1>1, <1>2, <2>1, <2>2, ScreenOnly DEF AskImport
<1>3. CASE AskExtraction
  <2>1. screen' \in Screen
    <3>1. [screen.tracked EXCEPT !["fog"] = 0] \in [Kinds -> Nat]
      BY <1>0 DEF Screen
    <3> QED
      BY <1>0, <1>3, <3>1 DEF AskExtraction, Screen, Kinds, Null
  <2>2. \A k \in Kinds : screen'.tracked[k] \in {0, screen.tracked[k]}
    BY <1>0, <1>3 DEF AskExtraction, Screen
  <2>3. \A t \in DOMAIN tasks : /\ tasks'[t] \in Task
                                /\ tasks'[t].kind = tasks[t].kind
    <3> TAKE t \in DOMAIN tasks
    <3>1. tasks[t] \in Task
      BY DEF TInv
    <3>2. tasks'[t] \in {tasks[t], [tasks[t] EXCEPT !.abort = TRUE]}
      BY <1>3 DEF AskExtraction
    <3> QED
      BY <3>1, <3>2 DEF Task
  <2>4. DOMAIN tasks' = 1..Len(tasks) /\ DOMAIN tasks = 1..Len(tasks) /\ Len(tasks) \in Nat
    BY <1>3 DEF AskExtraction, TInv
  <2>5. tasks' \in [1..Len(tasks) -> Task]
    <3>1. tasks' = [t \in 1..Len(tasks) |-> tasks'[t]]
      BY <1>3, <2>4 DEF AskExtraction
    <3> QED
      BY <2>3, <2>4, <3>1
  <2>6. tasks' \in Seq(Task)
    BY <2>4, <2>5
  <2>7. TrackedOnes'
    BY <2>1, <2>2, <2>3, <2>4, TrackedLess
  <2> QED
    BY <1>1, <2>1, <2>6, <2>7 DEF TInv, RowsOK, LeftOK
<1>4. CASE AskFog
  <2>1. screen' \in Screen /\ screen'.tracked = screen.tracked
    BY <1>0, <1>4 DEF AskFog, Screen, Kinds, Null
  <2> QED
    BY <1>0, <1>1, <1>4, <2>1, ScreenOnly DEF AskFog
<1>5. CASE AskMatrix
  <2>1. screen' \in Screen /\ screen'.tracked = screen.tracked
    BY <1>0, <1>5 DEF AskMatrix, Screen, Kinds
  <2> QED
    BY <1>0, <1>1, <1>5, <2>1, ScreenOnly DEF AskMatrix
<1>6. CASE AskAddendum
  <2>1. screen' \in Screen /\ screen'.tracked = screen.tracked
    BY <1>0, <1>6 DEF AskAddendum, Screen, Kinds
  <2> QED
    BY <1>0, <1>1, <1>6, <2>1, ScreenOnly DEF AskAddendum
<1> QED
  BY <1>2, <1>3, <1>4, <1>5, <1>6

LEMMA AnswerKeeps ==
  ASSUME TInv, NEW k \in Kinds, Answer(k)
  PROVE  TInv'
<1>0. screen \in Screen /\ UNCHANGED <<db, held, left>> /\ calls' \subseteq Kinds
  BY DEF TInv, Answer, asideVars
<1>1. CASE k \in {"fog", "matrix"} /\ db.reqs = {}
  <2>1. screen' \in Screen /\ screen'.tracked = screen.tracked
    <3> DEFINE e == screen.matrixError \/ k = "matrix"
    <3>1. screen' = [screen EXCEPT !.loading = @ \ {k}, !.matrixError = e]
      BY <1>1 DEF Answer
    <3>2. e \in BOOLEAN
      OBVIOUS
    <3> HIDE DEF e
    <3> QED
      BY <1>0, <3>1, <3>2 DEF Screen
  <2> QED
    BY <1>0, <1>1, <2>1, ScreenOnly DEF Answer, TInv
<1>2. CASE ~(k \in {"fog", "matrix"} /\ db.reqs = {})
  <2> DEFINE x == [Begun(k) EXCEPT !.known = db.reqs]
  <2>1. x \in Task /\ x.kind = k
    BY DEF Begun, Task, TaskPlaces, TInv, RowsOK, Rows
  <2> HIDE DEF x
  <2>2. tasks \in Seq(Task) /\ tasks' = Append(tasks, x)
    BY <1>2 DEF TInv, Answer, x
  <2>3. /\ tasks' \in Seq(Task) /\ Len(tasks) \in Nat
        /\ DOMAIN tasks' = 1..(Len(tasks) + 1) /\ DOMAIN tasks = 1..Len(tasks)
        /\ tasks'[Len(tasks) + 1] = x
        /\ \A t \in DOMAIN tasks : tasks'[t] = tasks[t]
    BY <2>1, <2>2
  <2>4. screen' = [screen EXCEPT !.loading = @ \ {k}, !.tracked[k] = Len(tasks) + 1]
    BY <1>2 DEF Answer
  <2>5. [screen.tracked EXCEPT ![k] = Len(tasks) + 1] \in [Kinds -> Nat]
    BY <1>0, <2>3 DEF Screen
  <2>6. screen' \in Screen
        /\ screen'.tracked = [screen.tracked EXCEPT ![k] = Len(tasks) + 1]
    BY <1>0, <2>4, <2>5 DEF Screen
  <2>7. ASSUME NEW j \in Kinds
        PROVE  \/ screen'.tracked[j] = 0
               \/ screen'.tracked[j] \in DOMAIN tasks'
                  /\ tasks'[screen'.tracked[j]].kind = j
    <3>1. CASE j = k
      BY <1>0, <2>1, <2>3, <2>6, <3>1 DEF Screen
    <3>2. CASE j # k
      <4>1. screen'.tracked[j] = screen.tracked[j]
        BY <1>0, <2>6, <3>2 DEF Screen
      <4> QED
        BY <2>3, <4>1 DEF TInv, TrackedOnes, Kind
    <3> QED
      BY <3>1, <3>2
  <2>8. TrackedOnes'
    BY <2>7 DEF TrackedOnes, Kind
  <2> QED
    BY <1>0, <2>3, <2>6, <2>8 DEF TInv, RowsOK, LeftOK
<1> QED
  BY <1>1, <1>2

\* One field of one task changes.
LEMMA TaskTyped ==
  ASSUME TInv, NEW t \in DOMAIN tasks, NEW x \in Task, x.kind = Kind(t),
         tasks' = [tasks EXCEPT ![t] = x]
  PROVE  /\ tasks' \in Seq(Task) /\ DOMAIN tasks' = DOMAIN tasks
         /\ \A u \in DOMAIN tasks : tasks'[u].kind = tasks[u].kind
BY DEF TInv, Kind

LEMMA CancelImportKeeps ==
  ASSUME TInv, CancelImport
  PROVE  TInv'
<1> DEFINE t == screen.tracked["import"]
           x == [tasks[t] EXCEPT !.abort = TRUE]
<1>1. t \in DOMAIN tasks
  BY DEF CancelImport, TInv, TrackedOnes, Kinds
<1>2. tasks[t] \in Task
  BY <1>1 DEF TInv
<1>3. x \in Task /\ x.kind = Kind(t)
  BY <1>2 DEF Task, Kind
<1>4. tasks' = [tasks EXCEPT ![t] = x]
  BY DEF CancelImport
<1> HIDE DEF t, x
<1>5. /\ tasks' \in Seq(Task) /\ DOMAIN tasks' = DOMAIN tasks
      /\ \A u \in DOMAIN tasks : tasks'[u].kind = tasks[u].kind
  BY <1>1, <1>3, <1>4, TaskTyped
<1>6. screen' \in Screen /\ \A k \in Kinds : screen'.tracked[k] = 0
  BY BlankTyped DEF CancelImport, Blank
<1>7. TrackedOnes'
  BY <1>6 DEF TrackedOnes
<1> QED
  BY <1>5, <1>6, <1>7 DEF CancelImport, TInv, RowsOK, LeftOK

-----------------------------------------------------------------------------
(* The executors *)

\* The links after a mapping: those of the user, and those of the task.
LEMMA ReplacedTyped ==
  ASSUME RowsOK, NEW S \in SUBSET db.reqs, NEW t \in Ids
  PROVE  /\ Replaced(S, t) \in Cells
         /\ \A r \in Ids : Replaced(S, t)[r] # NoLink => r \in db.reqs
         /\ \A r \in Ids : Manual(r) => Replaced(S, t)[r] = db.links[r]
<1>1. Linked("auto", t) \in Cell
  BY LinkedIsACell DEF Ids
<1>2. db.links \in Cells
  BY DEF RowsOK, Rows
<1>3. Replaced(S, t) \in Cells
  BY <1>1, <1>2, NoLinkIsACell DEF Replaced, Cells
<1>4. \A r \in Ids : Manual(r) => db.links[r] # NoLink
  BY DEF Manual, NoLink
<1>5. \A r \in Ids : Replaced(S, t)[r] # NoLink => r \in db.reqs
  BY <1>4 DEF Replaced, RowsOK, Referred
<1>6. \A r \in Ids : Manual(r) => Replaced(S, t)[r] = db.links[r]
  BY DEF Replaced
<1> QED
  BY <1>3, <1>5, <1>6

\* What every step of a task leaves as it is, and what of the rest is typed.
TaskFrame(t) ==
  /\ t \in DOMAIN tasks
  /\ UNCHANGED <<screen, calls, held>>
  /\ left' = left \/ (left.troubles > 0 /\ left' = [left EXCEPT !.troubles = @ - 1])
  /\ \E x \in Task : x.kind = Kind(t) /\ tasks' = [tasks EXCEPT ![t] = x]

LEMMA TaskFrameKeeps ==
  ASSUME TInv, NEW t, TaskFrame(t), RowsOK'
  PROVE  TInv'
<1>1. PICK x \in Task : x.kind = Kind(t) /\ tasks' = [tasks EXCEPT ![t] = x]
  BY DEF TaskFrame
<1>2. /\ tasks' \in Seq(Task) /\ DOMAIN tasks' = DOMAIN tasks
      /\ \A u \in DOMAIN tasks : tasks'[u].kind = tasks[u].kind
  BY <1>1, TaskTyped DEF TaskFrame
<1>3. screen' \in Screen /\ screen' = screen
  BY DEF TInv, TaskFrame
<1>4. TrackedOnes'
  BY <1>2, <1>3, TrackedLess
<1>5. LeftOK'
  <2>1. left \in [tasks : Nat, edits : Nat, visits : Nat, troubles : Nat]
    BY DEF TInv, LeftOK
  <2>2. left.troubles > 0 => left.troubles - 1 \in Nat
    BY <2>1
  <2> QED
    BY <2>1, <2>2 DEF TaskFrame, LeftOK
<1> QED
  BY <1>2, <1>3, <1>4, <1>5 DEF TInv, TaskFrame

\* To move on is to change one field.
LEMMA MovesOnFrame ==
  ASSUME TInv, NEW t \in DOMAIN tasks, NEW s \in TaskPlaces, MovesOn(t, s)
  PROVE  \E x \in Task : x.kind = Kind(t) /\ tasks' = [tasks EXCEPT ![t] = x]
<1> DEFINE x == [tasks[t] EXCEPT !.at = s]
<1>1. tasks[t] \in Task
  BY DEF TInv
<1>2. x \in Task /\ x.kind = Kind(t)
  BY <1>1 DEF Task, Kind
<1>3. tasks' = [tasks EXCEPT ![t] = x]
  BY DEF MovesOn
<1> QED
  BY <1>2, <1>3

\* A task that moves on, and one that is let down, change nothing else of theirs.
LEMMA MovesOnKeeps ==
  ASSUME TInv, NEW t \in DOMAIN tasks, NEW s \in TaskPlaces, MovesOn(t, s),
         UNCHANGED <<screen, calls, held, left>>, RowsOK'
  PROVE  TInv'
<1>1. \E x \in Task : x.kind = Kind(t) /\ tasks' = [tasks EXCEPT ![t] = x]
  BY MovesOnFrame
<1>2. TaskFrame(t)
  BY <1>1 DEF TaskFrame
<1> QED
  BY <1>2, TaskFrameKeeps

LEMMA LetDownKeeps ==
  ASSUME TInv, NEW t \in DOMAIN tasks, NEW s \in TaskPlaces, NEW between,
         LetDown(t, s, between), UNCHANGED <<screen, calls, held>>
  PROVE  TInv'
<1>1. \E x \in Task : x.kind = Kind(t) /\ tasks' = [tasks EXCEPT ![t] = x]
  BY MovesOnFrame DEF LetDown
<1>2. TaskFrame(t)
  BY <1>1 DEF TaskFrame, LetDown
<1>3. RowsOK'
  BY DEF LetDown, TInv, RowsOK
<1> QED
  BY <1>2, <1>3, TaskFrameKeeps

LEMMA ImportKeeps ==
  ASSUME TInv, NEW t \in Ids, ImportStep(t)
  PROVE  TInv'
<1>1. t \in DOMAIN tasks /\ UNCHANGED <<screen, calls, held>> /\ t \in Nat
  BY DEF ImportStep, Works, Ids
<1>2. CASE LetDown(t, "failed", FALSE)
  BY <1>1, <1>2, LetDownKeeps DEF TaskPlaces
<1>3. CASE db' = [db EXCEPT !.tender = t] /\ MovesOn(t, "completed")
           /\ UNCHANGED <<left, broken>>
  <2>1. RowsOK'
    BY <1>1, <1>3 DEF TInv, RowsOK, Rows, Referred
  <2> QED
    BY <1>1, <1>3, <2>1, MovesOnKeeps DEF TaskPlaces
<1> QED
  BY <1>2, <1>3 DEF ImportStep

LEMMA ExtractionKeeps ==
  ASSUME TInv, NEW t \in Ids, ExtractionStep(t)
  PROVE  TInv'
<1>0. RowsOK
  BY DEF TInv
<1>1. t \in DOMAIN tasks /\ UNCHANGED <<screen, calls, held>>
  BY DEF ExtractionStep, Works
<1>2. CASE LetDown(t, "failed", FALSE) \/ LetDown(t, "failed", TRUE)
  BY <1>1, <1>2, LetDownKeeps DEF TaskPlaces
<1>3. CASE db' = [db EXCEPT !.fog = {}] /\ MovesOn(t, "cleared")
           /\ UNCHANGED <<left, broken>>
  <2>1. RowsOK'
    BY <1>0, <1>3 DEF RowsOK, Rows, Referred
  <2> QED
    BY <1>1, <1>3, <2>1, MovesOnKeeps DEF TaskPlaces
<1>4. CASE db' = Emptied /\ MovesOn(t, "emptied") /\ UNCHANGED <<left, broken>>
  <2> DEFINE none == [r \in Ids |-> NoLink]
  <2>1. none \in Cells /\ \A r \in Ids : none[r] = NoLink
    BY NoLinkIsACell DEF Cells
  <2>2. db' = [db EXCEPT !.reqs = {}, !.patched = {}, !.fog = {}, !.links = none]
    BY <1>4 DEF Emptied
  <2> HIDE DEF none
  <2>3. RowsOK'
    BY <1>0, <2>1, <2>2 DEF RowsOK, Rows, Referred
  <2> QED
    BY <1>1, <1>4, <2>3, MovesOnKeeps DEF TaskPlaces
<1>5. CASE db' = [db EXCEPT !.reqs = @ \cup {t}, !.scored = TRUE]
           /\ MovesOn(t, "completed") /\ UNCHANGED <<left, broken>>
  <2>1. RowsOK'
    BY <1>0, <1>5 DEF RowsOK, Rows, Referred
  <2> QED
    BY <1>1, <1>5, <2>1, MovesOnKeeps DEF TaskPlaces
<1> QED
  BY <1>2, <1>3, <1>4, <1>5 DEF ExtractionStep

LEMMA FogKeeps ==
  ASSUME TInv, NEW t \in Ids, FogStep(t)
  PROVE  TInv'
<1>0. RowsOK
  BY DEF TInv
<1>1. t \in DOMAIN tasks /\ UNCHANGED <<screen, calls, held>>
  BY DEF FogStep, Works
<1>2. CASE LetDown(t, "failed", FALSE)
  BY <1>1, <1>2, LetDownKeeps DEF TaskPlaces
<1>3. ASSUME NEW s \in {"cancelled", "failed"},
             MovesOn(t, s), UNCHANGED <<db, left, broken>>
      PROVE  TInv'
  <2>1. RowsOK'
    BY <1>0, <1>3 DEF RowsOK
  <2> QED
    BY <1>1, <1>3, <2>1, MovesOnKeeps DEF TaskPlaces
<1>4. CASE /\ tasks[t].known \subseteq db.reqs
           /\ db' = [db EXCEPT !.fog = tasks[t].known] /\ MovesOn(t, "completed")
           /\ UNCHANGED <<left, broken>>
  <2>0. tasks[t] \in Task
    BY <1>1 DEF TInv
  <2>1. tasks[t].known \in SUBSET Ids
    BY <2>0 DEF Task
  <2>2. RowsOK'
    BY <1>0, <1>4, <2>1 DEF RowsOK, Rows, Referred
  <2> QED
    BY <1>1, <1>4, <2>2, MovesOnKeeps DEF TaskPlaces
<1> QED
  BY <1>2, <1>3, <1>4 DEF FogStep

LEMMA RemapsKeeps ==
  ASSUME TInv, NEW t \in Ids, t \in DOMAIN tasks, NEW among, Remaps(t, among),
         UNCHANGED <<screen, calls, held>>
  PROVE  TInv'
<1>0. RowsOK
  BY DEF TInv
<1>1. CASE MovesOn(t, "failed") /\ UNCHANGED <<db, left>>
  <2>1. RowsOK'
    BY <1>0, <1>1 DEF RowsOK
  <2> QED
    BY <1>1, <2>1, MovesOnKeeps DEF TaskPlaces
<1>2. CASE /\ \E S \in SUBSET db.reqs : db' = [db EXCEPT !.links = Replaced(S, t)]
           /\ MovesOn(t, "mapped") /\ UNCHANGED left
  <2>1. PICK S \in SUBSET db.reqs : db' = [db EXCEPT !.links = Replaced(S, t)]
    BY <1>2
  <2>2. /\ Replaced(S, t) \in Cells
        /\ \A r \in Ids : Replaced(S, t)[r] # NoLink => r \in db.reqs
    BY <1>0, ReplacedTyped
  <2>3. RowsOK'
    BY <1>0, <2>1, <2>2 DEF RowsOK, Rows, Referred
  <2> QED
    BY <1>2, <2>3, MovesOnKeeps DEF TaskPlaces
<1> QED
  BY <1>1, <1>2 DEF Remaps

LEMMA SnapshotKeeps ==
  ASSUME TInv, NEW t \in DOMAIN tasks, Snapshot(t), UNCHANGED <<screen, calls, held>>
  PROVE  TInv'
<1>1. CASE LetDown(t, "failed", TRUE)
  BY <1>1, LetDownKeeps DEF TaskPlaces
<1>2. CASE db' = [db EXCEPT !.mapped = TRUE] /\ MovesOn(t, "completed")
           /\ UNCHANGED <<left, broken>>
  <2>1. RowsOK'
    BY <1>2 DEF TInv, RowsOK, Rows, Referred
  <2> QED
    BY <1>2, <2>1, MovesOnKeeps DEF TaskPlaces
<1> QED
  BY <1>1, <1>2 DEF Snapshot

LEMMA MatrixKeeps ==
  ASSUME TInv, NEW t \in Ids, MatrixStep(t)
  PROVE  TInv'
<1>1. t \in DOMAIN tasks /\ UNCHANGED <<screen, calls, held>>
  BY DEF MatrixStep, Works
<1>2. CASE LetDown(t, "failed", FALSE)
  BY <1>1, <1>2, LetDownKeeps DEF TaskPlaces
<1>3. CASE Remaps(t, tasks[t].known)
  BY <1>1, <1>3, RemapsKeeps
<1>4. CASE Snapshot(t)
  BY <1>1, <1>4, SnapshotKeeps
<1> QED
  BY <1>2, <1>3, <1>4 DEF MatrixStep

LEMMA AddendumKeeps ==
  ASSUME TInv, NEW t \in Ids, AddendumStep(t)
  PROVE  TInv'
<1>0. RowsOK
  BY DEF TInv
<1>1. t \in DOMAIN tasks /\ UNCHANGED <<screen, calls, held>>
  BY DEF AddendumStep, Works
<1>2. CASE LetDown(t, "failed", FALSE) \/ LetDown(t, "unmapped", FALSE)
  BY <1>1, <1>2, LetDownKeeps DEF TaskPlaces
<1>3. CASE /\ tasks' = [tasks EXCEPT ![t].known = db.reqs, ![t].at = "reading"]
           /\ UNCHANGED <<db, left, broken>>
  <2> DEFINE x == [tasks[t] EXCEPT !.known = db.reqs, !.at = "reading"]
  <2>1. tasks[t] \in Task /\ db.reqs \in SUBSET Ids
    BY <1>0, <1>1 DEF TInv, RowsOK, Rows
  <2>2. x \in Task /\ x.kind = Kind(t)
    BY <2>1 DEF Task, Kind, TaskPlaces
  <2>3. tasks' = [tasks EXCEPT ![t] = x]
    BY <1>1, <1>3 DEF TInv
  <2>4. TaskFrame(t)
    BY <1>1, <1>3, <2>2, <2>3 DEF TaskFrame
  <2>5. RowsOK'
    BY <1>0, <1>3 DEF RowsOK
  <2> QED
    BY <2>4, <2>5, TaskFrameKeeps
<1>4. CASE /\ db' = [db EXCEPT !.patched = @ \cup {t : r \in tasks[t].known}]
           /\ MovesOn(t, "patched") /\ UNCHANGED <<left, broken>>
  <2>1. {t : r \in tasks[t].known} \subseteq Ids
    OBVIOUS
  <2>2. RowsOK'
    BY <1>0, <1>4, <2>1 DEF RowsOK, Rows, Referred
  <2> QED
    BY <1>1, <1>4, <2>2, MovesOnKeeps DEF TaskPlaces
<1>5. CASE UNCHANGED db /\ MovesOn(t, "failed") /\ UNCHANGED <<left, broken>>
  <2>1. RowsOK'
    BY <1>0, <1>5 DEF RowsOK
  <2> QED
    BY <1>1, <1>5, <2>1, MovesOnKeeps DEF TaskPlaces
<1>6. CASE /\ db' = [db EXCEPT !.reqs = @ \cup {t}] /\ MovesOn(t, "created")
           /\ UNCHANGED <<left, broken>>
  <2>1. RowsOK'
    BY <1>0, <1>6 DEF RowsOK, Rows, Referred
  <2> QED
    BY <1>1, <1>6, <2>1, MovesOnKeeps DEF TaskPlaces
<1>7. CASE Remaps(t, tasks[t].known \cup {t})
  BY <1>1, <1>7, RemapsKeeps
<1>8. CASE Snapshot(t)
  BY <1>1, <1>8, SnapshotKeeps
<1> QED
  BY <1>2, <1>3, <1>4, <1>5, <1>6, <1>7, <1>8 DEF AddendumStep

LEMMA TaskStepKeeps ==
  ASSUME TInv, NEW t \in Ids, TaskStep(t)
  PROVE  TInv'
BY ImportKeeps, ExtractionKeeps, FogKeeps, MatrixKeeps, AddendumKeeps DEF TaskStep

-----------------------------------------------------------------------------
(* The monitor *)

\* A screen that tracks what is tracked now, or less.
Shows(sc) ==
  sc \in Screen /\ \A k \in Kinds : sc.tracked[k] \in {0, screen.tracked[k]}

LEMMA ShowsKeeps ==
  ASSUME TInv, UNCHANGED <<tasks, db, calls, left>>,
         held' \in [Kinds -> SUBSET SeenOnce], screen' \in {sc \in Screen : Shows(sc)}
  PROVE  TInv'
<1>1. calls' \subseteq Kinds
  BY DEF TInv
<1>2. screen' \in Screen /\ \A k \in Kinds : screen'.tracked[k] \in {0, screen.tracked[k]}
  BY DEF Shows
<1> QED
  BY <1>1, <1>2, ScreenOnly

LEMMA ShowsScreen == ASSUME TInv PROVE Shows(screen)
BY DEF TInv, Shows

\* A screen that lets go of a task.
LEMMA ShowsUntracked ==
  ASSUME TInv, NEW sc, Shows(sc), NEW k \in Kinds, NEW on \in SUBSET Kinds
  PROVE  Shows([sc EXCEPT !.tracked[k] = 0, !.loading = on])
<1>1. [sc.tracked EXCEPT ![k] = 0] \in [Kinds -> Nat]
  BY DEF Shows, Screen
<1> QED
  BY <1>1 DEF Shows, Screen

LEMMA ShowsEnded ==
  ASSUME TInv, NEW k \in Kinds
  PROVE  Shows(Ended(k))
<1>1. screen.loading \ {k} \in SUBSET Kinds
  BY DEF TInv, Screen
<1> QED
  BY <1>1, ShowsScreen, ShowsUntracked DEF Ended

LEMMA ShowsFogDropped ==
  ASSUME TInv, NEW sc, Shows(sc)
  PROVE  Shows(FogDropped(sc))
<1> DEFINE on == sc.loading \ {"fog"}
           piece == [sc EXCEPT !.tracked["fog"] = 0, !.loading = on]
<1>1. on \in SUBSET Kinds
  BY DEF Shows, Screen
<1>2. Shows(piece)
  BY <1>1, ShowsUntracked DEF Kinds
<1>3. FogDropped(sc) = [piece EXCEPT !.fog = {}]
  BY DEF FogDropped, Shows, Screen, Null
<1> HIDE DEF piece
<1> QED
  BY <1>2, <1>3 DEF Shows, Screen

LEMMA ShowsTender ==
  ASSUME TInv, NEW sc, Shows(sc)
  PROVE  Shows(TenderShown(sc))
<1> DEFINE on == sc.loading \ {"import"}
           piece == [sc EXCEPT !.tracked["import"] = 0, !.loading = on]
<1>1. on \in SUBSET Kinds
  BY DEF Shows, Screen
<1>2. Shows(piece)
  BY <1>1, ShowsUntracked DEF Kinds
<1>3. TenderShown(sc) = [piece EXCEPT !.tender = GetTender]
  BY DEF TenderShown, Shows, Screen
<1>4. GetTender \in SUBSET Nat
  BY AnswersTyped DEF TInv
<1> HIDE DEF piece
<1> QED
  BY <1>2, <1>3, <1>4 DEF Shows, Screen

\* Other fields of a screen may be filled with what was answered.
LEMMA ShowsFilled ==
  ASSUME NEW sc, Shows(sc), NEW reqs \in SUBSET ReqsShown,
         NEW fog \in SUBSET (SUBSET Ids), NEW matrix \in SUBSET Matrix,
         NEW wrong \in BOOLEAN, NEW on \in SUBSET Kinds
  PROVE  /\ Shows([sc EXCEPT !.reqs = reqs]) /\ Shows([sc EXCEPT !.fog = fog])
         /\ Shows([sc EXCEPT !.matrix = matrix])
         /\ Shows([sc EXCEPT !.matrixError = wrong]) /\ Shows([sc EXCEPT !.loading = on])
         /\ Shows([sc EXCEPT !.matrix = matrix, !.matrixError = wrong])
         /\ Shows([sc EXCEPT !.matrix = matrix, !.reqs = reqs])
         /\ Shows([sc EXCEPT !.reqs = reqs, !.matrix = matrix])
         /\ Shows([sc EXCEPT !.reqs = reqs, !.fog = fog, !.matrix = matrix])
BY DEF Shows, Screen

LEMMA ReadsKeeps ==
  ASSUME TInv, NEW k \in Kinds, Reads(k)
  PROVE  TInv'
<1>1. RowsOK
  BY DEF TInv
<1>2. UNCHANGED <<tasks, db, calls, left>>
  BY DEF Reads, Tracked
<1>3. held' \in [Kinds -> SUBSET SeenOnce]
  <2>1. {Seen} \in SUBSET SeenOnce
    BY <1>1, SeenTyped
  <2> QED
    BY <2>1 DEF Reads, TInv
<1>4. GetReqs \in SUBSET ReqsShown
  BY <1>1, AnswersTyped
<1>5. Shows(screen')
  <2>1. Shows([screen EXCEPT !.reqs = GetReqs])
    BY <1>4, ShowsScreen DEF Shows, Screen
  <2> QED
    BY <2>1, ShowsScreen DEF Reads
<1>6. screen' \in {sc \in Screen : Shows(sc)}
  BY <1>5 DEF Shows
<1> QED
  BY <1>2, <1>3, <1>6, ShowsKeeps

LEMMA SetsKeeps ==
  ASSUME TInv, NEW k \in Kinds, Sets(k)
  PROVE  TInv'
<1>1. UNCHANGED <<tasks, db, calls, left>>
  BY DEF Sets
<1>2. held' \in [Kinds -> SUBSET SeenOnce]
  BY DEF Sets, TInv, Null
<1>3. held[k] \in SUBSET SeenOnce
  BY DEF TInv
<1>4. PICK answer \in held[k] :
       \/ screen' = [FogDropped(Ended(k)) EXCEPT
                       !.reqs = IF @ = Null THEN {[of |-> {}, patched |-> {}]} ELSE @]
       \/ screen' = screen
       \/ screen' = [Ended(k) EXCEPT !.fog = answer.fog]
       \/ screen' = [Ended(k) EXCEPT !.matrix = answer.matrix, !.matrixError = FALSE]
       \/ screen' = [Ended(k) EXCEPT !.matrix = answer.matrix, !.reqs = answer.reqs]
  BY DEF Sets
<1>5. /\ answer.reqs \in SUBSET ReqsShown /\ answer.fog \in SUBSET (SUBSET Ids)
      /\ answer.matrix \in SUBSET Matrix
  BY <1>3, <1>4 DEF SeenOnce
<1>6. Shows(Ended(k)) /\ Shows(screen)
  BY ShowsEnded, ShowsScreen
<1>7. Shows([FogDropped(Ended(k)) EXCEPT
               !.reqs = IF @ = Null THEN {[of |-> {}, patched |-> {}]} ELSE @])
  <2> DEFINE sc   == FogDropped(Ended(k))
             reqs == IF sc.reqs = Null THEN {[of |-> {}, patched |-> {}]} ELSE sc.reqs
  <2>1. Shows(sc)
    BY <1>6, ShowsFogDropped
  <2>2. [of |-> {}, patched |-> {}] \in ReqsShown
    BY DEF ReqsShown
  <2>3. reqs \in SUBSET ReqsShown
    BY <2>1, <2>2 DEF Shows, Screen
  <2> HIDE DEF sc, reqs
  <2>4. Shows([sc EXCEPT !.reqs = reqs])
    BY <2>1, <2>3 DEF Shows, Screen
  <2> QED
    BY <2>4 DEF sc, reqs
<1>8. Shows([Ended(k) EXCEPT !.fog = answer.fog])
  BY <1>5, <1>6 DEF Shows, Screen
<1>9. Shows([Ended(k) EXCEPT !.matrix = answer.matrix, !.matrixError = FALSE])
  BY <1>5, <1>6 DEF Shows, Screen
<1>10. Shows([Ended(k) EXCEPT !.matrix = answer.matrix, !.reqs = answer.reqs])
  BY <1>5, <1>6 DEF Shows, Screen
<1>11. Shows(screen')
  BY <1>4, <1>6, <1>7, <1>8, <1>9, <1>10
<1>12. screen' \in {sc \in Screen : Shows(sc)}
  BY <1>11 DEF Shows
<1> QED
  BY <1>1, <1>2, <1>12, ShowsKeeps

LEMMA FailedKeeps ==
  ASSUME TInv, NEW k \in Kinds, Failed(k)
  PROVE  TInv'
<1> DEFINE lost == [Ended(k) EXCEPT !.loading = @ \ {"import"}]
<1>1. UNCHANGED <<tasks, db, calls, left>> /\ held' \in [Kinds -> SUBSET SeenOnce]
  BY DEF Failed, Tracked, TInv
<1>2. Shows(lost)
  <2>1. Shows(Ended(k))
    BY ShowsEnded
  <2> QED
    BY <2>1 DEF Shows, Screen
<1>3. \/ screen' = FogDropped(lost) \/ screen' = [lost EXCEPT !.matrixError = TRUE]
      \/ screen' = lost \/ screen' = Fetched(lost)
  BY DEF Failed
<1> HIDE DEF lost
<1>4. Shows(FogDropped(lost)) /\ Shows([lost EXCEPT !.matrixError = TRUE])
  BY <1>2, ShowsFogDropped DEF Shows, Screen
<1>5. Shows(Fetched(lost))
  <2>1. GetReqs \in SUBSET ReqsShown /\ GetMatrix \in SUBSET Matrix
    BY AnswersTyped DEF TInv
  <2> QED
    BY <1>2, <2>1 DEF Fetched, Shows, Screen
<1>6. Shows(screen')
  BY <1>2, <1>3, <1>4, <1>5
<1>7. screen' \in {sc \in Screen : Shows(sc)}
  BY <1>6 DEF Shows
<1> QED
  BY <1>1, <1>7, ShowsKeeps

LEMMA MonitorKeeps ==
  ASSUME TInv, NEW k \in Kinds, MonitorStep(k)
  PROVE  TInv'
<1>1. CASE ImportEnds
  <2>1. UNCHANGED <<tasks, db, calls, left>> /\ held' \in [Kinds -> SUBSET SeenOnce]
    BY <1>1 DEF ImportEnds, Tracked, TInv
  <2>2. Shows(screen')
    BY <1>1, ShowsScreen, ShowsTender DEF ImportEnds
  <2>3. screen' \in {sc \in Screen : Shows(sc)}
    BY <2>2 DEF Shows
  <2> QED
    BY <2>1, <2>3, ShowsKeeps
<1> QED
  BY <1>1, ReadsKeeps, SetsKeeps, FailedKeeps DEF MonitorStep

-----------------------------------------------------------------------------
(* The links the user edits, and a mount *)

LEMMA EditsLeft ==
  ASSUME LeftOK, NEW r, NEW link, Edits(r, link)
  PROVE  LeftOK' /\ left'.edits # left.edits
<1>1. left \in [tasks : Nat, edits : Nat, visits : Nat, troubles : Nat]
  BY DEF LeftOK
<1>2. left.edits > 0 /\ left' = [left EXCEPT !.edits = @ - 1]
  BY DEF Edits
<1> QED
  BY <1>1, <1>2 DEF LeftOK

\* An edit that is refused, and one that is written.
LEMMA EditKeeps ==
  ASSUME TInv, NEW r \in Ids, NEW link, Edits(r, link),
         \/ UNCHANGED db
         \/ \E new \in Cell, mapped \in BOOLEAN :
              /\ db' = [db EXCEPT !.links[r] = new, !.mapped = mapped]
              /\ new # NoLink => r \in db.reqs
  PROVE  TInv'
<1>0. RowsOK /\ LeftOK
  BY DEF TInv
<1>1. UNCHANGED <<tasks, screen, calls, held>>
  BY DEF Edits
<1>2. LeftOK'
  BY <1>0, EditsLeft
<1>3. TrackedOnes'
  BY <1>1 DEF TInv, TrackedOnes, Kind
<1>4. RowsOK'
  <2>1. CASE UNCHANGED db
    BY <1>0, <2>1 DEF RowsOK
  <2>2. ASSUME NEW new \in Cell, NEW mapped \in BOOLEAN,
               db' = [db EXCEPT !.links[r] = new, !.mapped = mapped],
               new # NoLink => r \in db.reqs
        PROVE  RowsOK'
    <3> DEFINE cells == [db.links EXCEPT ![r] = new]
    <3>1. db.links \in Cells
      BY <1>0 DEF RowsOK, Rows
    <3>2. cells \in Cells /\ \A s \in Ids : cells[s] # NoLink => s \in db.reqs
      BY <1>0, <2>2, <3>1 DEF Cells, RowsOK, Referred
    <3>3. db' = [db EXCEPT !.links = cells, !.mapped = mapped]
      BY <1>0, <2>2 DEF RowsOK, Rows
    <3> HIDE DEF cells
    <3> QED
      BY <1>0, <2>2, <3>2, <3>3 DEF RowsOK, Rows, Referred
  <2> QED
    BY <2>1, <2>2
<1> QED
  BY <1>1, <1>2, <1>3, <1>4 DEF TInv

LEMMA WritesShape ==
  ASSUME TInv, NEW r \in Ids, NEW new \in Cell, NEW mapped \in BOOLEAN,
         Writes(r, new, mapped)
  PROVE  \E wrote \in BOOLEAN :
           db' = [db EXCEPT !.links[r] = new, !.mapped = wrote]
<1> DEFINE wrote == db.mapped \/ mapped
<1>1. db' = [db EXCEPT !.links[r] = new, !.mapped = wrote]
  BY DEF Writes
<1>2. wrote \in BOOLEAN
  OBVIOUS
<1> HIDE DEF wrote
<1> QED
  BY <1>1, <1>2

LEMMA CreateKeeps ==
  ASSUME TInv, NEW r \in Ids, CreateLink(r)
  PROVE  TInv'
<1> DEFINE new == Linked("manual", MaxTasks + left.edits)
<1>1. MaxTasks + left.edits \in Nat \ {0}
  BY TenderAssumption DEF TInv, LeftOK
<1>2. new \in Cell
  BY <1>1, LinkedIsACell
<1>3. CASE Refused
  BY <1>3, EditKeeps DEF CreateLink, Refused
<1>4. CASE r \in db.reqs /\ Writes(r, new, TRUE)
  <2>1. \E wrote \in BOOLEAN : db' = [db EXCEPT !.links[r] = new, !.mapped = wrote]
    BY <1>2, <1>4, WritesShape
  <2> HIDE DEF new
  <2> QED
    BY <1>2, <1>4, <2>1, EditKeeps DEF CreateLink
<1> QED
  BY <1>3, <1>4 DEF CreateLink

LEMMA UpdateKeeps ==
  ASSUME TInv, NEW r \in Ids, UpdateLink(r)
  PROVE  TInv'
<1>0. screen.matrix \subseteq Matrix /\ db.links \in Cells
  BY DEF TInv, Screen, RowsOK, Rows
<1>1. PICK link \in {m.links[r] : m \in screen.matrix} :
        /\ link # NoLink /\ Edits(r, link)
        /\ IF db.links[r].id = link.id
           THEN Writes(r, Linked("manual", link.id), TRUE) ELSE Refused
  BY DEF UpdateLink
<1>2. link \in Cell
  BY <1>0, <1>1 DEF Matrix, Cells
<1>3. link.id \in Nat \ {0}
  BY <1>1, <1>2 DEF Cell
<1>4. Linked("manual", link.id) \in Cell
  BY <1>3, LinkedIsACell
<1>5. CASE Refused
  BY <1>1, <1>5, EditKeeps DEF Refused
<1>6. CASE db.links[r].id = link.id /\ Writes(r, Linked("manual", link.id), TRUE)
  <2>1. \E wrote \in BOOLEAN :
          db' = [db EXCEPT !.links[r] = Linked("manual", link.id), !.mapped = wrote]
    BY <1>4, <1>6, WritesShape
  <2>2. db.links[r] # NoLink
    BY <1>3, <1>6 DEF NoLink
  <2>3. r \in db.reqs
    BY <2>2 DEF TInv, RowsOK, Referred
  <2> QED
    BY <1>1, <1>4, <2>1, <2>3, EditKeeps
<1> QED
  BY <1>1, <1>5, <1>6

LEMMA DeleteLinkKeeps ==
  ASSUME TInv, NEW r \in Ids, DeleteLink(r)
  PROVE  TInv'
<1>1. PICK link \in {m.links[r] : m \in screen.matrix} :
        /\ Edits(r, link)
        /\ IF db.links[r].id = link.id THEN Writes(r, NoLink, FALSE) ELSE Refused
  BY DEF DeleteLink
<1>2. CASE Refused
  BY <1>1, <1>2, EditKeeps DEF Refused
<1>3. CASE Writes(r, NoLink, FALSE)
  <2>1. \E wrote \in BOOLEAN : db' = [db EXCEPT !.links[r] = NoLink, !.mapped = wrote]
    BY <1>3, NoLinkIsACell, WritesShape
  <2> QED
    BY <1>1, <2>1, NoLinkIsACell, EditKeeps
<1> QED
  BY <1>1, <1>2, <1>3

LEMMA FetchKeeps ==
  ASSUME TInv, Refreshes \/ Visit
  PROVE  TInv'
<1>0. /\ GetReqs \in SUBSET ReqsShown /\ GetMatrix \in SUBSET Matrix
      /\ GetFog \in SUBSET (SUBSET Ids)
  BY AnswersTyped DEF TInv
<1>1. UNCHANGED <<tasks, db, calls, held>>
  BY DEF Refreshes, Visit
<1>2. Shows(screen')
  <2>1. CASE Refreshes
    BY <1>0, <2>1, ShowsScreen DEF Refreshes, Shows, Screen
  <2>2. CASE Visit
    <3> DEFINE base == IF GetTender = Null THEN [screen EXCEPT !.loading = @ \ {"import"}]
                       ELSE TenderShown(screen)
    <3>1. Shows(base)
      <4>1. Shows([screen EXCEPT !.loading = @ \ {"import"}])
        BY ShowsScreen DEF Shows, Screen
      <4> QED
        BY <4>1, ShowsScreen, ShowsTender
    <3>2. screen' = [base EXCEPT !.reqs = GetReqs, !.fog = GetFog, !.matrix = GetMatrix]
      BY <2>2 DEF Visit
    <3> HIDE DEF base
    <3> QED
      BY <1>0, <3>1, <3>2 DEF Shows, Screen
  <2> QED
    BY <2>1, <2>2
<1>3. screen' \in Screen /\ TrackedOnes'
  BY <1>1, <1>2, TrackedLess DEF Shows
<1>4. LeftOK'
  <2>1. left \in [tasks : Nat, edits : Nat, visits : Nat, troubles : Nat]
    BY DEF TInv, LeftOK
  <2>2. left' = left \/ (left.visits > 0 /\ left' = [left EXCEPT !.visits = @ - 1])
    BY DEF Refreshes, Visit
  <2> QED
    BY <2>1, <2>2 DEF LeftOK
<1> QED
  BY <1>1, <1>3, <1>4 DEF TInv, RowsOK

-----------------------------------------------------------------------------
(* The invariant *)

LEMMA TInvNext ==
  ASSUME TInv, [TenderNext]_tenderVars
  PROVE  TInv'
<1>1. CASE AskImport \/ AskExtraction \/ AskFog \/ AskMatrix \/ AskAddendum
  BY <1>1, AskKeeps
<1>2. CASE CancelImport
  BY <1>2, CancelImportKeeps
<1>3. CASE Refreshes \/ Visit
  BY <1>3, FetchKeeps
<1>4. ASSUME NEW k \in Kinds, Answer(k) \/ MonitorStep(k)
      PROVE  TInv'
  BY <1>4, AnswerKeeps, MonitorKeeps
<1>5. ASSUME NEW t \in Ids, TaskStep(t)
      PROVE  TInv'
  BY <1>5, TaskStepKeeps
<1>6. ASSUME NEW r \in Ids, CreateLink(r) \/ UpdateLink(r) \/ DeleteLink(r)
      PROVE  TInv'
  BY <1>6, CreateKeeps, UpdateKeeps, DeleteLinkKeeps
<1>7. CASE UNCHANGED tenderVars
  BY <1>7 DEF tenderVars, asideVars, TInv, RowsOK, TrackedOnes, Kind, LeftOK
<1> QED
  BY <1>1, <1>2, <1>3, <1>4, <1>5, <1>6, <1>7 DEF TenderNext

LEMMA TenderInvariant == TenderSpec => []TInv
<1>1. TInv /\ [TenderNext]_tenderVars => TInv'
  BY TInvNext
<1> QED
  BY <1>1, TInvInit, PTL DEF TenderSpec

LEMMA TInvIsType == TInv => TenderTypeOK
<1> SUFFICES ASSUME TInv PROVE TenderTypeOK
  OBVIOUS
<1>1. \A t \in DOMAIN tasks : Kind(t) \in Kinds /\ tasks[t].known \subseteq Ids
  <2> TAKE t \in DOMAIN tasks
  <2>1. tasks[t] \in Task
    BY DEF TInv
  <2> QED
    BY <2>1 DEF Task, Kind
<1>2. /\ db.reqs \subseteq Ids /\ db.patched \subseteq Ids /\ db.fog \subseteq db.reqs
      /\ \A r \in Ids : db.links[r] # NoLink => r \in db.reqs
  BY DEF TInv, RowsOK, Rows, Referred
<1>3. \A k \in Kinds : screen.tracked[k] \in {0} \cup {t \in DOMAIN tasks : Kind(t) = k}
  BY DEF TInv, TrackedOnes
<1>4. screen.loading \subseteq Kinds /\ calls \subseteq Kinds
  BY DEF TInv, Screen
<1> QED
  BY <1>1, <1>2, <1>3, <1>4 DEF TenderTypeOK

\* However tasks, edits and mounts overlap, certainties and links belong to
\* requirements that exist, and what the monitor tracks under a kind is a task
\* of that kind (the foreign keys of the schema, analysisStore.ts).
THEOREM TenderTypeCorrect == TenderSpec => []TenderTypeOK
<1>1. TInv => TenderTypeOK
  BY TInvIsType
<1> QED
  BY <1>1, TenderInvariant, PTL

-----------------------------------------------------------------------------
(* What the user has linked *)

Kept == \A r \in Ids : Manual(r) /\ r \in db'.reqs /\ left'.edits = left.edits
                         => db'.links[r] = db.links[r]

LEMMA KeptWhenAlike == ASSUME db'.links = db.links PROVE Kept
BY DEF Kept

LEMMA KeptByTasks ==
  ASSUME TInv, NEW t \in Ids, TaskStep(t)
  PROVE  Kept
<1>0. RowsOK /\ db \in Rows
  BY DEF TInv, RowsOK
<1>1. ASSUME NEW S \in SUBSET db.reqs, db' = [db EXCEPT !.links = Replaced(S, t)]
      PROVE  Kept
  <2>1. db'.links = Replaced(S, t)
    BY <1>0, <1>1 DEF Rows
  <2>2. \A r \in Ids : Manual(r) => Replaced(S, t)[r] = db.links[r]
    BY <1>0, ReplacedTyped
  <2> QED
    BY <2>1, <2>2 DEF Kept
<1>2. ASSUME NEW among, Remaps(t, among)
      PROVE  Kept
  BY <1>1, <1>2, KeptWhenAlike DEF Remaps
<1>3. CASE Snapshot(t)
  BY <1>0, <1>3, KeptWhenAlike DEF Snapshot, LetDown, Rows
<1>4. CASE ImportStep(t) \/ FogStep(t)
  BY <1>0, <1>4, KeptWhenAlike DEF ImportStep, FogStep, LetDown, Rows
<1>5. CASE MatrixStep(t)
  BY <1>2, <1>3, <1>5, KeptWhenAlike DEF MatrixStep, LetDown
<1>6. CASE AddendumStep(t)
  BY <1>0, <1>2, <1>3, <1>6, KeptWhenAlike DEF AddendumStep, LetDown, Rows
<1>7. CASE ExtractionStep(t)
  <2>1. CASE db' = Emptied
    <3>1. db'.reqs = {}
      BY <1>0, <2>1 DEF Emptied, Rows
    <3> QED
      BY <3>1 DEF Kept
  <2>2. CASE db' # Emptied
    BY <1>0, <1>7, <2>2, KeptWhenAlike DEF ExtractionStep, LetDown, Rows
  <2> QED
    BY <2>1, <2>2
<1> QED
  BY <1>4, <1>5, <1>6, <1>7 DEF TaskStep

LEMMA KeptByOthers ==
  ASSUME TInv, [TenderNext]_tenderVars, \A t \in Ids : ~TaskStep(t)
  PROVE  Kept
<1>1. CASE AskImport \/ AskExtraction \/ AskFog \/ AskMatrix \/ AskAddendum
  BY <1>1, KeptWhenAlike DEF AskImport, AskExtraction, AskFog, AskMatrix, AskAddendum, Ask
<1>2. CASE CancelImport \/ Refreshes \/ Visit
  BY <1>2, KeptWhenAlike DEF CancelImport, Refreshes, Visit
<1>3. ASSUME NEW k \in Kinds, Answer(k) \/ MonitorStep(k)
      PROVE  Kept
  BY <1>3, KeptWhenAlike DEF Answer, MonitorStep, Reads, Sets, Failed, ImportEnds, Tracked
<1>4. ASSUME NEW r \in Ids, CreateLink(r) \/ UpdateLink(r) \/ DeleteLink(r)
      PROVE  Kept
  <2>1. \E link : Edits(r, link)
    BY <1>4 DEF CreateLink, UpdateLink, DeleteLink
  <2>2. LeftOK
    BY DEF TInv
  <2>3. left'.edits # left.edits
    BY <2>1, <2>2, EditsLeft
  <2> QED
    BY <2>3 DEF Kept
<1>5. CASE UNCHANGED tenderVars
  BY <1>5, KeptWhenAlike DEF tenderVars
<1> QED
  BY <1>1, <1>2, <1>3, <1>4, <1>5 DEF TenderNext

\* A link the user made or changed is replaced by no generation and lost in no
\* other task than an extraction of the requirements anew
\* (traceability-link-repo.ts, replaceAutoByProject).
THEOREM ManualLinksKept == TenderSpec => ManualKept
<1>1. TInv /\ [TenderNext]_tenderVars => Kept
  BY KeptByTasks, KeptByOthers
<1>2. Kept => [Kept]_tenderVars
  OBVIOUS
<1>3. ManualKept <=> [][Kept]_tenderVars
  BY DEF ManualKept, Kept
<1> QED
  BY <1>1, <1>2, <1>3, TenderInvariant, PTL DEF TenderSpec

-----------------------------------------------------------------------------
(* What the screen tells *)

Over == {"completed", "failed", "cancelled", "unmapped"}

\* Where the task of a kind is that the store tracks.
Place(k) == IF screen.tracked[k] = 0 THEN "idle" ELSE tasks[screen.tracked[k]].at

\* Every task under way is the tracked one of its kind.
Followed == \A t \in DOMAIN tasks : tasks[t].at \notin Over => screen.tracked[Kind(t)] = t

\* A kind that is asked for is not tracked; what a handler holds is of the
\* tracked task, which is completed.
Waits ==
  /\ \A k \in calls : Place(k) = "idle"
  /\ \A k \in Kinds : held[k] # Null => Place(k) = "completed" /\ k # "import"

\* What a handler has read is still so; the matrix need not be.
HeldIsFresh ==
  /\ \A answer \in held["fog"] : answer.fog = GetFog
  /\ \A answer \in held["addendum"] : answer.reqs = GetReqs

\* A completed task has written.
HasWritten ==
  /\ Place("import") = "completed" => db.tender # 0
  /\ Place("extraction") = "completed" => db.scored

\* Before the first extraction is through there is nothing else.
Untouched ==
  /\ db.reqs = {} /\ db.patched = {} /\ db.fog = {} /\ Linkless /\ ~db.mapped
  /\ screen.reqs = Null /\ screen.fog = Null /\ screen.matrix = Null
  /\ \A k \in {"fog", "matrix", "addendum"} : k \notin calls /\ Place(k) = "idle"

\* Then there is no other extraction, since the requirements are on the screen
\* or on their way to it.
Extracted ==
  /\ "extraction" \notin calls /\ Place("extraction") \in {"idle", "completed"}
  /\ \/ screen.reqs # Null
     \/ Place("extraction") = "completed" /\ held["extraction"] = Null

Phase == IF db.scored THEN Extracted ELSE Untouched

\* An extraction is asked for with the tender on the screen, which stays there.
TenderStays ==
  "extraction" \in calls \/ Place("extraction") # "idle" \/ db.scored =>
    screen.tender # Null

\* Each part of the screen tells what the rows say, unless a tracked task has
\* changed them, or in the matrix the user.
TellsTender == Place("import") # "completed" => screen.tender \in {Null, GetTender}

TellsReqs ==
  /\ Place("extraction") # "completed" \/ held["extraction"] # Null
  /\ Place("addendum") \in {"idle", "begun", "reading", "failed"}
  => screen.reqs \in {Null, GetReqs}

TellsFog == Place("fog") # "completed" => screen.fog \in {Null, GetFog}

TellsMatrix ==
  \/ screen.matrix \in {Null, GetMatrix} \/ refresh \/ overtaken
  \/ Place("matrix") \in {"mapped", "completed"}
  \/ Place("addendum") \in {"created", "mapped", "completed"}

Tells == TellsTender /\ TellsReqs /\ TellsFog /\ TellsMatrix

Intact == ~detached /\ ~broken

Story == /\ Followed /\ Waits /\ HeldIsFresh /\ HasWritten /\ Phase /\ TenderStays
         /\ Tells

TellsInv == TInv /\ (Intact => Story)

-----------------------------------------------------------------------------
LEMMA PlaceIdle ==
  ASSUME TInv, NEW k \in Kinds
  PROVE  /\ Place(k) = "idle" <=> screen.tracked[k] = 0
         /\ Place(k) \in TaskPlaces \cup {"idle"}
<1>1. CASE screen.tracked[k] = 0
  BY <1>1 DEF Place
<1>2. CASE screen.tracked[k] # 0
  <2>1. tasks[screen.tracked[k]] \in Task
    BY <1>2 DEF TInv, TrackedOnes
  <2>2. tasks[screen.tracked[k]].at \in TaskPlaces
    BY <2>1 DEF Task
  <2> QED
    BY <1>2, <2>2 DEF Place, TaskPlaces
<1> QED
  BY <1>1, <1>2

LEMMA TellsInit == TenderInit => TellsInv
<1> SUFFICES ASSUME TenderInit PROVE TellsInv
  OBVIOUS
<1>1. TInv
  BY TInvInit
<1>2. ASSUME Intact PROVE Story
  <2>1. calls = {} /\ held = [k \in Kinds |-> {}]
    BY DEF TenderInit, Null
  <2>2. \A k \in Kinds : screen.tracked[k] = 0
    <3>1. screen.tracked = Blank.tracked
      <4>1. CASE screen = Blank
        BY <4>1
      <4>2. ASSUME NEW reqs, NEW matrix,
                   screen = [Blank EXCEPT !.tender = {1}, !.reqs = reqs, !.matrix = matrix]
            PROVE  screen.tracked = Blank.tracked
        BY <4>2 DEF Blank
      <4> QED
        BY <4>1, <4>2 DEF TenderInit
    <3> QED
      BY <3>1 DEF Blank
  <2>3. \A k \in Kinds : Place(k) = "idle"
    BY <2>2 DEF Place
  <2>4. Waits /\ HeldIsFresh /\ HasWritten
    BY <2>1, <2>3 DEF Waits, HeldIsFresh, HasWritten, Kinds, Null
  <2>5. CASE tasks = <<>> /\ db = NoRows /\ screen = Blank
    <3>1. Followed
      BY <2>5 DEF Followed
    <3>2. /\ db.scored = FALSE /\ db.reqs = {} /\ db.patched = {} /\ db.fog = {}
          /\ db.mapped = FALSE /\ Linkless
      BY <2>5 DEF NoRows, Linkless
    <3>3. screen.reqs = {} /\ screen.fog = {} /\ screen.matrix = {} /\ screen.tender = {}
      BY <2>5 DEF Blank, Null
    <3>4. Phase /\ TenderStays
      BY <2>1, <2>3, <3>2, <3>3 DEF Phase, Untouched, TenderStays, Null, Kinds
    <3>5. Tells
      BY <3>3 DEF Tells, TellsTender, TellsReqs, TellsFog, TellsMatrix, Null
    <3> QED
      BY <2>4, <3>1, <3>4, <3>5 DEF Story
  <2>6. CASE /\ tasks = <<Done("import"), Done("extraction")>>
             /\ db = [NoRows EXCEPT !.tender = 1, !.reqs = {2}, !.scored = TRUE,
                                    !.links[2] = Linked("manual", 1), !.mapped = TRUE]
             /\ screen = [Blank EXCEPT !.tender = {1},
                                       !.reqs = IF broken THEN Null ELSE GetReqs,
                                       !.matrix = GetMatrix]
    <3>1. Followed
      <4>1. DOMAIN tasks = {1, 2} /\ tasks[1].at = "completed" /\ tasks[2].at = "completed"
        BY <2>6 DEF Done, Begun
      <4> QED
        BY <4>1 DEF Followed, Over
    <3>2. db.scored = TRUE /\ db.reqs = {2} /\ db.tender = 1 /\ db.fog = {}
      BY <2>6 DEF NoRows
    <3>3. screen.tender = {1} /\ screen.reqs = GetReqs /\ screen.fog = {}
          /\ screen.matrix = GetMatrix
      BY <1>2, <2>6 DEF Blank, Null, Intact
    <3>4. GetReqs # {}
      BY <3>2 DEF GetReqs
    <3>5. Phase /\ TenderStays
      BY <2>1, <2>3, <3>2, <3>3, <3>4 DEF Phase, Extracted, TenderStays, Null, Kinds
    <3>6. Tells
      BY <3>2, <3>3 DEF Tells, TellsTender, TellsReqs, TellsFog, TellsMatrix, Null,
                        GetTender
    <3> QED
      BY <2>4, <3>1, <3>5, <3>6 DEF Story
  <2> QED
    BY <2>5, <2>6 DEF TenderInit
<1> QED
  BY <1>1, <1>2 DEF TellsInv

\* When nothing is under way, the screen tells what the rows say.
LEMMA TellsIsScreenTells == TellsInv => ScreenTells
<1> SUFFICES ASSUME TellsInv, Quiet, ~detached, ~broken, ~overtaken
             PROVE  /\ screen.tender \in {Null, GetTender}
                    /\ screen.reqs \in {Null, GetReqs}
                    /\ screen.fog \in {Null, GetFog}
                    /\ screen.matrix \in {Null, GetMatrix}
  BY DEF ScreenTells
<1>1. Tells
  BY DEF TellsInv, Intact, Story
<1>2. \A k \in Kinds : Place(k) = "idle"
  BY DEF Quiet, Place
<1>3. ~refresh
  BY DEF Quiet
<1> QED
  BY <1>1, <1>2, <1>3 DEF Tells, TellsTender, TellsReqs, TellsFog, TellsMatrix, Kinds

-----------------------------------------------------------------------------
(* Where the tracked tasks are after a step *)

\* A task under way moves to another place; the screen stays as it is.
TaskMoves(t, s) ==
  /\ t \in DOMAIN tasks /\ UNCHANGED <<screen, calls, held, refresh, detached, overtaken>>
  /\ \E x \in Task : x.kind = Kind(t) /\ x.at = s /\ tasks' = [tasks EXCEPT ![t] = x]

LEMMA PlaceMoves ==
  ASSUME TInv, Followed, NEW t, NEW s, TaskMoves(t, s), tasks[t].at \notin Over
  PROVE  /\ Followed' /\ Kind(t) \in Kinds /\ Place(Kind(t)) = tasks[t].at
         /\ \A k \in Kinds : Place(k)' = IF k = Kind(t) THEN s ELSE Place(k)
<1>1. PICK x \in Task : x.kind = Kind(t) /\ x.at = s /\ tasks' = [tasks EXCEPT ![t] = x]
  BY DEF TaskMoves
<1>2. t \in DOMAIN tasks /\ screen' = screen /\ tasks[t] \in Task /\ t # 0
  BY DEF TaskMoves, TInv
<1>3. Kind(t) \in Kinds
  BY <1>2 DEF Kind, Task
<1>4. screen.tracked[Kind(t)] = t
  BY <1>2 DEF Followed
<1>5. /\ DOMAIN tasks' = DOMAIN tasks /\ tasks'[t] = x
      /\ \A u \in DOMAIN tasks : u # t => tasks'[u] = tasks[u]
  BY <1>1, <1>2 DEF TInv
<1>6. Followed'
  BY <1>1, <1>2, <1>4, <1>5 DEF Followed, Kind
<1>7. Place(Kind(t)) = tasks[t].at
  BY <1>2, <1>4 DEF Place
<1>8. ASSUME NEW k \in Kinds PROVE Place(k)' = IF k = Kind(t) THEN s ELSE Place(k)
  <2>1. CASE k = Kind(t)
    BY <1>1, <1>2, <1>4, <1>5, <2>1 DEF Place
  <2>2. CASE k # Kind(t)
    <3>1. screen.tracked[k] # 0 => screen.tracked[k] \in DOMAIN tasks /\ screen.tracked[k] # t
      BY <2>2 DEF TInv, TrackedOnes
    <3> QED
      BY <1>2, <1>5, <2>2, <3>1 DEF Place
  <2> QED
    BY <2>1, <2>2
<1> QED
  BY <1>3, <1>6, <1>7, <1>8

\* The screen lets go of tasks that are over.
LEMMA PlaceEnds ==
  ASSUME TInv, Followed, UNCHANGED tasks,
         \A k \in Kinds : \/ screen'.tracked[k] = screen.tracked[k]
                          \/ screen'.tracked[k] = 0 /\ Place(k) \in Over \cup {"idle"}
  PROVE  /\ Followed'
         /\ \A k \in Kinds :
              Place(k)' = IF screen'.tracked[k] = screen.tracked[k] THEN Place(k) ELSE "idle"
<1>1. Followed'
  <2> SUFFICES ASSUME NEW t \in DOMAIN tasks, tasks[t].at \notin Over
               PROVE  screen'.tracked[Kind(t)] = t
    BY DEF Followed, Kind
  <2>1. tasks[t] \in Task /\ t # 0
    BY DEF TInv
  <2>2. Kind(t) \in Kinds /\ tasks[t].at # "idle"
    BY <2>1 DEF Kind, Task, TaskPlaces
  <2>3. screen.tracked[Kind(t)] = t
    BY DEF Followed
  <2>4. Place(Kind(t)) = tasks[t].at
    BY <2>1, <2>3 DEF Place
  <2> QED
    BY <2>2, <2>3, <2>4
<1>2. ASSUME NEW k \in Kinds
      PROVE  Place(k)' = IF screen'.tracked[k] = screen.tracked[k] THEN Place(k) ELSE "idle"
  BY DEF Place
<1> QED
  BY <1>1, <1>2

LEMMA AnswersAlike ==
  /\ db'.tender = db.tender => GetTender' = GetTender
  /\ db'.reqs = db.reqs /\ db'.patched = db.patched /\ db'.scored = db.scored
       => GetReqs' = GetReqs
  /\ db'.fog = db.fog => GetFog' = GetFog
  /\ db'.reqs = db.reqs /\ db'.links = db.links /\ db'.mapped = db.mapped
       => GetMatrix' = GetMatrix
BY DEF GetTender, GetReqs, GetFog, GetMatrix, Linkless

-----------------------------------------------------------------------------
(* The executors *)

\* The task is the tracked one, and no handler holds anything of it.
LEMMA TaskFollowed ==
  ASSUME TInv, Story, NEW t, NEW s, TaskMoves(t, s), tasks[t].at \notin Over
  PROVE  /\ Kind(t) \in Kinds /\ Place(Kind(t)) = tasks[t].at /\ tasks[t].at # "idle"
         /\ held[Kind(t)] = {} /\ Kind(t) \notin calls
         /\ \A k \in Kinds : Place(k)' = IF k = Kind(t) THEN s ELSE Place(k)
         /\ Followed' /\ Waits'
<1>1. Followed /\ Waits
  BY DEF Story
<1>2. /\ Followed' /\ Kind(t) \in Kinds /\ Place(Kind(t)) = tasks[t].at
      /\ \A k \in Kinds : Place(k)' = IF k = Kind(t) THEN s ELSE Place(k)
  BY <1>1, PlaceMoves
<1>3. tasks[t].at # "idle"
  <2>1. tasks[t] \in Task
    BY DEF TaskMoves, TInv
  <2> QED
    BY <2>1 DEF Task, TaskPlaces
<1>4. held[Kind(t)] = {} /\ Kind(t) \notin calls
  BY <1>1, <1>2, <1>3 DEF Waits, Over, Null
<1>5. Waits'
  BY <1>1, <1>2, <1>4 DEF Waits, TaskMoves, TInv, Null
<1> QED
  BY <1>2, <1>3, <1>4, <1>5

\* A step of an executor that changes no row.
LEMMA IdleTaskTells ==
  ASSUME TInv, Story, NEW t, NEW s, TaskMoves(t, s), tasks[t].at \notin Over,
         UNCHANGED db,
         s \notin {"idle", "completed"},
         Kind(t) = "addendum" /\ s \in {"begun", "reading", "failed"}
           => tasks[t].at \in {"begun", "reading"},
         Kind(t) = "matrix" => tasks[t].at # "mapped",
         Kind(t) = "addendum" => tasks[t].at \notin {"created", "mapped"}
  PROVE  Story'
<1>1. /\ Kind(t) \in Kinds /\ Place(Kind(t)) = tasks[t].at /\ tasks[t].at # "idle"
      /\ held[Kind(t)] = {} /\ Kind(t) \notin calls
      /\ \A k \in Kinds : Place(k)' = IF k = Kind(t) THEN s ELSE Place(k)
      /\ Followed' /\ Waits'
  BY TaskFollowed
<1>2. UNCHANGED <<screen, calls, held, refresh, overtaken>>
  BY DEF TaskMoves
<1>3. UNCHANGED <<GetTender, GetReqs, GetFog, GetMatrix>>
  BY AnswersAlike
<1>4. HeldIsFresh'
  BY <1>2, <1>3 DEF Story, HeldIsFresh
<1>5. HasWritten'
  BY <1>1 DEF Story, HasWritten, Kinds
<1>6. tasks[t].at \notin {"idle", "completed"}
  BY <1>1 DEF Over
<1>7. Phase'
  <2>1. CASE db.scored
    BY <1>1, <1>2, <1>6, <2>1 DEF Story, Phase, Extracted, Kinds
  <2>2. CASE ~db.scored
    BY <1>1, <1>2, <1>6, <2>2 DEF Story, Phase, Untouched, Linkless, Kinds
  <2> QED
    BY <2>1, <2>2
<1>8. TenderStays'
  BY <1>1, <1>2, <1>6 DEF Story, TenderStays, Kinds
<1>9. TellsTender' /\ TellsFog'
  BY <1>1, <1>2, <1>3, <1>6 DEF Story, Tells, TellsTender, TellsFog, Kinds
<1>10. TellsReqs'
  BY <1>1, <1>2, <1>3, <1>6 DEF Story, Tells, TellsReqs, Kinds
<1>11. TellsMatrix'
  BY <1>1, <1>2, <1>3, <1>6 DEF Story, Tells, TellsMatrix, Kinds
<1> QED
  BY <1>1, <1>4, <1>5, <1>7, <1>8, <1>9, <1>10, <1>11 DEF Story, Tells

LEMMA WorksMoves ==
  ASSUME TInv, NEW t, NEW k, NEW s, NEW to \in TaskPlaces, Works(t, k, s), MovesOn(t, to)
  PROVE  TaskMoves(t, to) /\ Kind(t) = k /\ tasks[t].at = s
<1> DEFINE x == [tasks[t] EXCEPT !.at = to]
<1>1. tasks[t] \in Task /\ t \in DOMAIN tasks
  BY DEF Works, TInv
<1>2. x \in Task /\ x.kind = Kind(t) /\ x.at = to
  BY <1>1 DEF Task, Kind
<1>3. tasks' = [tasks EXCEPT ![t] = x]
  BY DEF MovesOn
<1> HIDE DEF x
<1> QED
  BY <1>1, <1>2, <1>3 DEF TaskMoves, Works, At

LEMMA ImportTells ==
  ASSUME TInv, Story, NEW t \in Ids, ImportStep(t)
  PROVE  Story'
<1>1. CASE LetDown(t, "failed", FALSE)
  <2>1. Works(t, "import", "begun") /\ MovesOn(t, "failed") /\ UNCHANGED db
    BY <1>1 DEF ImportStep, LetDown
  <2>2. TaskMoves(t, "failed") /\ Kind(t) = "import" /\ tasks[t].at = "begun"
    BY <2>1, WorksMoves DEF TaskPlaces
  <2> QED
    BY <2>1, <2>2, IdleTaskTells DEF Over
<1>2. CASE db' = [db EXCEPT !.tender = t] /\ MovesOn(t, "completed")
  <2>1. TaskMoves(t, "completed") /\ Kind(t) = "import" /\ tasks[t].at = "begun"
    BY <1>2, WorksMoves DEF ImportStep, TaskPlaces
  <2>2. /\ Place("import") = "begun" /\ Place("import")' = "completed"
        /\ \A k \in Kinds : k # "import" => Place(k)' = Place(k)
        /\ Followed' /\ Waits'
    BY <2>1, TaskFollowed DEF Over, Kinds
  <2>3. UNCHANGED <<screen, calls, held, refresh, overtaken>>
    BY <2>1 DEF TaskMoves
  <2>4. /\ db'.tender = t /\ db'.reqs = db.reqs /\ db'.patched = db.patched
        /\ db'.fog = db.fog /\ db'.scored = db.scored /\ db'.links = db.links
        /\ db'.mapped = db.mapped
    BY <1>2 DEF TInv, RowsOK, Rows
  <2>5. UNCHANGED <<GetReqs, GetFog, GetMatrix>>
    BY <2>4, AnswersAlike
  <2>6. HeldIsFresh'
    BY <2>3, <2>5 DEF Story, HeldIsFresh
  <2>7. HasWritten'
    BY <2>2, <2>4 DEF Story, HasWritten, Kinds, Ids
  <2>8. Phase'
    <3>1. CASE db.scored
      BY <2>2, <2>3, <2>4, <3>1 DEF Story, Phase, Extracted, Kinds
    <3>2. CASE ~db.scored
      BY <2>2, <2>3, <2>4, <3>2 DEF Story, Phase, Untouched, Linkless, Kinds
    <3> QED
      BY <3>1, <3>2
  <2>9. TenderStays'
    BY <2>2, <2>3, <2>4 DEF Story, TenderStays, Kinds
  <2>10. Tells'
    BY <2>2, <2>3, <2>5
       DEF Story, Tells, TellsTender, TellsReqs, TellsFog, TellsMatrix, Kinds
  <2> QED
    BY <2>2, <2>6, <2>7, <2>8, <2>9, <2>10 DEF Story
<1> QED
  BY <1>1, <1>2 DEF ImportStep

\* An extraction under way is the project's first.
LEMMA ExtractionTells ==
  ASSUME TInv, Story, NEW t \in Ids, ExtractionStep(t), ~broken'
  PROVE  Story'
<1>0. t \in DOMAIN tasks /\ Kind(t) = "extraction" /\ tasks[t].at \in {"begun", "cleared", "emptied"}
  BY DEF ExtractionStep, Works, At
<1>1. Place("extraction") = tasks[t].at
  <2>1. tasks[t] \in Task /\ t # 0
    BY <1>0 DEF TInv
  <2> QED
    BY <1>0, <2>1 DEF Story, Followed, Over, Place
<1>2. Untouched /\ ~db.scored
  BY <1>0, <1>1 DEF Story, Phase, Extracted
<1>3. db.reqs = {} /\ db.patched = {} /\ db.fog = {} /\ db.links = [r \in Ids |-> NoLink]
  <2>1. db.links \in [Ids -> Cell]
    BY DEF TInv, RowsOK, Rows, Cells
  <2> QED
    BY <1>2, <2>1 DEF Untouched, Linkless
<1>4. CASE Works(t, "extraction", "begun")
  <2>1. CASE LetDown(t, "failed", FALSE)
    <3>1. MovesOn(t, "failed") /\ UNCHANGED db
      BY <2>1 DEF LetDown
    <3>2. TaskMoves(t, "failed") /\ Kind(t) = "extraction" /\ tasks[t].at = "begun"
      BY <1>4, <3>1, WorksMoves DEF TaskPlaces
    <3> QED
      BY <3>1, <3>2, IdleTaskTells DEF Over
  <2>2. CASE db' = [db EXCEPT !.fog = {}] /\ MovesOn(t, "cleared")
    <3>1. TaskMoves(t, "cleared") /\ Kind(t) = "extraction" /\ tasks[t].at = "begun"
      BY <1>4, <2>2, WorksMoves DEF TaskPlaces
    <3>2. UNCHANGED db
      BY <1>3, <2>2 DEF TInv, RowsOK, Rows
    <3> QED
      BY <3>1, <3>2, IdleTaskTells DEF Over
  <2> QED
    BY <1>4, <2>1, <2>2 DEF ExtractionStep, Works, At
<1>5. CASE Works(t, "extraction", "cleared")
  <2>1. db' = Emptied /\ MovesOn(t, "emptied")
    BY <1>5 DEF ExtractionStep, Works, At
  <2>2. TaskMoves(t, "emptied") /\ Kind(t) = "extraction" /\ tasks[t].at = "cleared"
    BY <1>5, <2>1, WorksMoves DEF TaskPlaces
  <2>3. UNCHANGED db
    BY <1>3, <2>1 DEF Emptied, TInv, RowsOK, Rows
  <2> QED
    BY <2>2, <2>3, IdleTaskTells DEF Over
<1>6. CASE Works(t, "extraction", "emptied")
  <2>1. ~LetDown(t, "failed", TRUE)
    BY DEF LetDown
  <2>2. db' = [db EXCEPT !.reqs = @ \cup {t}, !.scored = TRUE] /\ MovesOn(t, "completed")
    BY <1>6, <2>1 DEF ExtractionStep, Works, At
  <2>3. TaskMoves(t, "completed") /\ Kind(t) = "extraction" /\ tasks[t].at = "emptied"
    BY <1>6, <2>2, WorksMoves DEF TaskPlaces
  <2>4. /\ Place("extraction")' = "completed" /\ held["extraction"] = {}
        /\ "extraction" \notin calls
        /\ \A k \in Kinds : k # "extraction" => Place(k)' = Place(k)
        /\ Followed' /\ Waits'
    BY <2>3, TaskFollowed DEF Over, Kinds
  <2>5. UNCHANGED <<screen, calls, held, refresh, overtaken>>
    BY <2>3 DEF TaskMoves
  <2>6. db'.tender = db.tender /\ db'.scored = TRUE /\ db'.fog = {}
    BY <1>3, <2>2 DEF TInv, RowsOK, Rows
  <2>7. /\ screen.reqs = {} /\ screen.fog = {} /\ screen.matrix = {}
        /\ Place("fog") = "idle" /\ Place("addendum") = "idle"
    BY <1>2 DEF Untouched, Null
  <2>8. held["fog"] = {} /\ held["addendum"] = {}
    BY <2>7 DEF Story, Waits, Kinds, Null
  <2>9. HeldIsFresh' /\ HasWritten'
    BY <2>4, <2>5, <2>6, <2>8 DEF Story, HeldIsFresh, HasWritten, Kinds
  <2>10. Phase'
    BY <2>4, <2>5, <2>6 DEF Phase, Extracted, Null
  <2>11. TenderStays'
    BY <1>0, <1>1, <2>5 DEF Story, TenderStays
  <2>12. TellsTender'
    BY <2>4, <2>5, <2>6, AnswersAlike DEF Story, Tells, TellsTender, Kinds
  <2>13. TellsReqs' /\ TellsFog' /\ TellsMatrix'
    BY <2>5, <2>7 DEF TellsReqs, TellsFog, TellsMatrix, Null
  <2> QED
    BY <2>4, <2>9, <2>10, <2>11, <2>12, <2>13 DEF Story, Tells
<1> QED
  BY <1>4, <1>5, <1>6 DEF ExtractionStep

\* What a fog map, a mapping or an addendum writes with the step to `s`.
WritesAs(t, s) ==
  /\ tasks[t].at \notin Over /\ Kind(t) \in {"fog", "matrix", "addendum"}
  /\ db'.tender = db.tender /\ db'.scored = db.scored
  /\ db'.fog = db.fog \/ (Kind(t) = "fog" /\ s = "completed")
  /\ (db'.reqs = db.reqs /\ db'.patched = db.patched) \/ Kind(t) = "addendum"
  /\ Kind(t) = "addendum" => s \in {"patched", "created", "mapped", "completed"}
  /\ \/ /\ db'.reqs = db.reqs /\ db'.links = db.links /\ db'.mapped = db.mapped
        /\ Kind(t) = "matrix" => tasks[t].at # "mapped"
        /\ Kind(t) = "addendum" => tasks[t].at \notin {"created", "mapped"}
     \/ Kind(t) = "matrix" /\ s \in {"mapped", "completed"}
     \/ Kind(t) = "addendum" /\ s \in {"created", "mapped", "completed"}

\* The screen need not tell it until the task is no longer tracked.
LEMMA WritingTells ==
  ASSUME TInv, Story, NEW t, NEW s, TaskMoves(t, s), WritesAs(t, s)
  PROVE  Story'
<1>0. tasks[t].at \notin Over /\ Kind(t) \in {"fog", "matrix", "addendum"}
      /\ db'.tender = db.tender /\ db'.scored = db.scored
  BY DEF WritesAs
<1>1. /\ Kind(t) \in Kinds /\ Place(Kind(t)) = tasks[t].at /\ tasks[t].at # "idle"
      /\ held[Kind(t)] = {} /\ Kind(t) \notin calls
      /\ \A k \in Kinds : Place(k)' = IF k = Kind(t) THEN s ELSE Place(k)
      /\ Followed' /\ Waits'
  BY <1>0, TaskFollowed
<1>2. UNCHANGED <<screen, calls, held, refresh, overtaken>>
  BY DEF TaskMoves
<1>3. db.scored = TRUE /\ Extracted
  <2>1. ~Untouched
    BY <1>0, <1>1 DEF Untouched
  <2>2. db.scored \in BOOLEAN
    BY DEF TInv, RowsOK, Rows
  <2> QED
    BY <2>1, <2>2 DEF Story, Phase
<1>4. GetTender' = GetTender
  BY <1>0, AnswersAlike
<1>5. HeldIsFresh'
  <2>1. \A answer \in held["fog"] : answer.fog = GetFog'
    <3>1. CASE Kind(t) = "fog"
      BY <1>1, <3>1
    <3>2. CASE Kind(t) # "fog"
      BY <1>0, <3>2, AnswersAlike DEF Story, HeldIsFresh, WritesAs
    <3> QED
      BY <3>1, <3>2
  <2>2. \A answer \in held["addendum"] : answer.reqs = GetReqs'
    <3>1. CASE Kind(t) = "addendum"
      BY <1>1, <3>1
    <3>2. CASE Kind(t) # "addendum"
      BY <1>0, <3>2, AnswersAlike DEF Story, HeldIsFresh, WritesAs
    <3> QED
      BY <3>1, <3>2
  <2> QED
    BY <1>2, <2>1, <2>2 DEF HeldIsFresh
<1>6. HasWritten'
  BY <1>0, <1>1 DEF Story, HasWritten, Kinds
<1>7. Phase'
  BY <1>0, <1>1, <1>2, <1>3 DEF Phase, Extracted, Kinds
<1>8. TenderStays'
  BY <1>0, <1>1, <1>2, <1>3 DEF Story, TenderStays, Kinds
<1>9. TellsTender'
  BY <1>0, <1>1, <1>2, <1>4 DEF Story, Tells, TellsTender, Kinds
<1>10. TellsReqs'
  <2>1. CASE Kind(t) = "addendum"
    BY <1>1, <2>1 DEF TellsReqs, Kinds, WritesAs
  <2>2. CASE Kind(t) # "addendum"
    BY <1>0, <1>1, <1>2, <2>2, AnswersAlike DEF Story, Tells, TellsReqs, Kinds, WritesAs
  <2> QED
    BY <2>1, <2>2
<1>11. TellsFog'
  <2>1. CASE Kind(t) = "fog" /\ s = "completed"
    BY <1>1, <2>1 DEF TellsFog
  <2>2. CASE db'.fog = db.fog /\ Kind(t) = "fog"
    BY <1>0, <1>1, <1>2, <2>2, AnswersAlike DEF Story, Tells, TellsFog, Over
  <2>3. CASE db'.fog = db.fog /\ Kind(t) # "fog"
    BY <1>1, <1>2, <2>3, AnswersAlike DEF Story, Tells, TellsFog, Kinds
  <2> QED
    BY <2>1, <2>2, <2>3 DEF WritesAs
<1>12. TellsMatrix'
  <2>1. CASE \/ Kind(t) = "matrix" /\ s \in {"mapped", "completed"}
             \/ Kind(t) = "addendum" /\ s \in {"created", "mapped", "completed"}
    BY <1>1, <2>1 DEF TellsMatrix
  <2>2. CASE /\ GetMatrix' = GetMatrix
             /\ Kind(t) = "matrix" => tasks[t].at # "mapped"
             /\ Kind(t) = "addendum" => tasks[t].at \notin {"created", "mapped"}
    BY <1>0, <1>1, <1>2, <2>2 DEF Story, Tells, TellsMatrix, Over, Kinds
  <2> QED
    BY <2>1, <2>2, AnswersAlike DEF WritesAs
<1> QED
  BY <1>1, <1>5, <1>6, <1>7, <1>8, <1>9, <1>10, <1>11, <1>12 DEF Story, Tells

LEMMA FogTells ==
  ASSUME TInv, Story, NEW t \in Ids, FogStep(t)
  PROVE  Story'
<1>0. Works(t, "fog", "begun")
  BY DEF FogStep
<1>1. ASSUME NEW to \in {"failed", "cancelled"}, MovesOn(t, to), UNCHANGED db
      PROVE  Story'
  <2>1. TaskMoves(t, to) /\ Kind(t) = "fog" /\ tasks[t].at = "begun"
    BY <1>0, <1>1, WorksMoves DEF TaskPlaces
  <2> QED
    BY <1>1, <2>1, IdleTaskTells DEF Over
<1>2. CASE db' = [db EXCEPT !.fog = tasks[t].known] /\ MovesOn(t, "completed")
  <2>1. TaskMoves(t, "completed") /\ Kind(t) = "fog" /\ tasks[t].at = "begun"
    BY <1>0, <1>2, WorksMoves DEF TaskPlaces
  <2>2. /\ db'.tender = db.tender /\ db'.reqs = db.reqs /\ db'.patched = db.patched
        /\ db'.scored = db.scored /\ db'.links = db.links /\ db'.mapped = db.mapped
    BY <1>2 DEF TInv, RowsOK, Rows
  <2>3. WritesAs(t, "completed")
    BY <2>1, <2>2 DEF WritesAs, Over
  <2> QED
    BY <2>1, <2>3, WritingTells
<1> QED
  BY <1>1, <1>2 DEF FogStep, LetDown

\* A mapping, of a matrix or of an addendum.
LEMMA RemapsTells ==
  ASSUME TInv, Story, NEW t \in Ids, NEW among, Remaps(t, among), ~broken',
         \/ Works(t, "matrix", "begun") \/ Works(t, "addendum", "created")
  PROVE  Story'
<1>1. PICK k \in {"matrix", "addendum"}, s \in {"begun", "created"} : 
        Works(t, k, s) /\ (k = "matrix" <=> s = "begun")
  OBVIOUS
<1>2. ASSUME NEW S \in SUBSET among, db' = [db EXCEPT !.links = Replaced(S, t)],
             MovesOn(t, "mapped")
      PROVE  Story'
  <2>1. TaskMoves(t, "mapped") /\ Kind(t) = k /\ tasks[t].at = s
    BY <1>1, <1>2, WorksMoves DEF TaskPlaces
  <2>2. /\ db'.tender = db.tender /\ db'.reqs = db.reqs /\ db'.patched = db.patched
        /\ db'.scored = db.scored /\ db'.fog = db.fog
    BY <1>2 DEF TInv, RowsOK, Rows
  <2>3. WritesAs(t, "mapped")
    BY <1>1, <2>1, <2>2 DEF WritesAs, Over
  <2> QED
    BY <2>1, <2>3, WritingTells
<1>3. CASE MovesOn(t, "failed") /\ UNCHANGED db /\ broken' = (broken \/ Kind(t) = "addendum")
  <2>1. TaskMoves(t, "failed") /\ Kind(t) = k /\ tasks[t].at = s
    BY <1>1, <1>3, WorksMoves DEF TaskPlaces
  <2>2. k = "matrix"
    BY <1>1, <1>3, <2>1
  <2> QED
    BY <1>1, <1>3, <2>1, <2>2, IdleTaskTells DEF Over
<1> QED
  BY <1>2, <1>3 DEF Remaps

LEMMA SnapshotTells ==
  ASSUME TInv, Story, NEW t \in Ids, Snapshot(t), ~broken',
         \/ Works(t, "matrix", "mapped") \/ Works(t, "addendum", "mapped")
  PROVE  Story'
<1>1. PICK k \in {"matrix", "addendum"} : Works(t, k, "mapped")
  OBVIOUS
<1>2. db' = [db EXCEPT !.mapped = TRUE] /\ MovesOn(t, "completed")
  BY DEF Snapshot, LetDown
<1>3. TaskMoves(t, "completed") /\ Kind(t) = k /\ tasks[t].at = "mapped"
  BY <1>1, <1>2, WorksMoves DEF TaskPlaces
<1>4. /\ db'.tender = db.tender /\ db'.reqs = db.reqs /\ db'.patched = db.patched
      /\ db'.scored = db.scored /\ db'.fog = db.fog
  BY <1>2 DEF TInv, RowsOK, Rows
<1>5. WritesAs(t, "completed")
  BY <1>3, <1>4 DEF WritesAs, Over
<1> QED
  BY <1>3, <1>5, WritingTells

LEMMA MatrixTells ==
  ASSUME TInv, Story, NEW t \in Ids, MatrixStep(t), ~broken'
  PROVE  Story'
<1>1. CASE Works(t, "matrix", "begun") /\ LetDown(t, "failed", FALSE)
  <2>1. MovesOn(t, "failed") /\ UNCHANGED db
    BY <1>1 DEF LetDown
  <2>2. TaskMoves(t, "failed") /\ Kind(t) = "matrix" /\ tasks[t].at = "begun"
    BY <1>1, <2>1, WorksMoves DEF TaskPlaces
  <2> QED
    BY <2>1, <2>2, IdleTaskTells DEF Over
<1> QED
  BY <1>1, RemapsTells, SnapshotTells DEF MatrixStep

LEMMA AddendumTells ==
  ASSUME TInv, Story, NEW t \in Ids, AddendumStep(t), ~broken'
  PROVE  Story'
<1>1. CASE Works(t, "addendum", "begun")
  <2> DEFINE x == [tasks[t] EXCEPT !.known = db.reqs, !.at = "reading"]
  <2>0. tasks[t].at = "begun" /\ Kind(t) = "addendum" /\ t \in DOMAIN tasks
    BY <1>1 DEF Works, At
  <2>1. tasks' = [tasks EXCEPT ![t] = x] /\ UNCHANGED db
    BY <2>0 DEF AddendumStep, Works, At
  <2>2. x \in Task /\ x.kind = Kind(t) /\ x.at = "reading"
    <3>1. tasks[t] \in Task
      BY <2>0 DEF TInv
    <3> QED
      BY <3>1 DEF Task, TaskPlaces, Kind, TInv, RowsOK, Rows
  <2> HIDE DEF x
  <2>3. TaskMoves(t, "reading")
    BY <1>1, <2>1, <2>2 DEF TaskMoves, Works
  <2> QED
    BY <2>0, <2>1, <2>3, IdleTaskTells DEF Over
<1>2. CASE Works(t, "addendum", "reading")
  <2>0. tasks[t].at = "reading"
    BY <1>2 DEF Works, At
  <2>1. CASE MovesOn(t, "failed") /\ UNCHANGED db
    <3>1. TaskMoves(t, "failed") /\ Kind(t) = "addendum"
      BY <1>2, <2>1, WorksMoves DEF TaskPlaces
    <3> QED
      BY <2>0, <2>1, <3>1, IdleTaskTells DEF Over
  <2>2. CASE /\ db' = [db EXCEPT !.patched = @ \cup {t : r \in tasks[t].known}]
             /\ MovesOn(t, "patched")
    <3>1. TaskMoves(t, "patched") /\ Kind(t) = "addendum"
      BY <1>2, <2>2, WorksMoves DEF TaskPlaces
    <3>2. /\ db'.tender = db.tender /\ db'.reqs = db.reqs /\ db'.fog = db.fog
          /\ db'.scored = db.scored /\ db'.links = db.links /\ db'.mapped = db.mapped
      BY <2>2 DEF TInv, RowsOK, Rows
    <3>3. WritesAs(t, "patched")
      BY <2>0, <3>1, <3>2 DEF WritesAs, Over
    <3> QED
      BY <3>1, <3>3, WritingTells
  <2> QED
    BY <2>0, <2>1, <2>2 DEF AddendumStep, Works, At, LetDown
<1>3. CASE Works(t, "addendum", "patched")
  <2>0. tasks[t].at = "patched"
    BY <1>3 DEF Works, At
  <2>1. CASE MovesOn(t, "unmapped") /\ UNCHANGED db
    <3>1. TaskMoves(t, "unmapped") /\ Kind(t) = "addendum"
      BY <1>3, <2>1, WorksMoves DEF TaskPlaces
    <3> QED
      BY <2>0, <2>1, <3>1, IdleTaskTells DEF Over
  <2>2. CASE db' = [db EXCEPT !.reqs = @ \cup {t}] /\ MovesOn(t, "created")
    <3>1. TaskMoves(t, "created") /\ Kind(t) = "addendum"
      BY <1>3, <2>2, WorksMoves DEF TaskPlaces
    <3>2. /\ db'.tender = db.tender /\ db'.fog = db.fog /\ db'.scored = db.scored
      BY <2>2 DEF TInv, RowsOK, Rows
    <3>3. WritesAs(t, "created")
      BY <2>0, <3>1, <3>2 DEF WritesAs, Over
    <3> QED
      BY <3>1, <3>3, WritingTells
  <2> QED
    BY <2>0, <2>1, <2>2 DEF AddendumStep, Works, At, LetDown
<1>4. CASE Works(t, "addendum", "created")
  <2>1. Remaps(t, tasks[t].known \cup {t})
    BY <1>4 DEF AddendumStep, Works, At
  <2> QED
    BY <1>4, <2>1, RemapsTells
<1>5. CASE Works(t, "addendum", "mapped")
  <2>1. Snapshot(t)
    BY <1>5 DEF AddendumStep, Works, At
  <2> QED
    BY <1>5, <2>1, SnapshotTells
<1> QED
  BY <1>1, <1>2, <1>3, <1>4, <1>5 DEF AddendumStep

LEMMA TaskTells ==
  ASSUME TInv, Story, NEW t \in Ids, TaskStep(t), ~broken'
  PROVE  Story'
BY ImportTells, ExtractionTells, FogTells, MatrixTells, AddendumTells DEF TaskStep

-----------------------------------------------------------------------------
(* What the user asks for *)

LEMMA ShownIsScored ==
  ASSUME TInv, Story, screen.reqs # {}
  PROVE  db.scored = TRUE /\ Extracted
<1>1. ~Untouched
  BY DEF Untouched, Null
<1>2. db.scored \in BOOLEAN
  BY DEF TInv, RowsOK, Rows
<1> QED
  BY <1>1, <1>2 DEF Story, Phase

LEMMA SamePlaces ==
  ASSUME UNCHANGED tasks, screen'.tracked = screen.tracked
  PROVE  /\ Followed => Followed'
         /\ \A k \in Kinds : Place(k)' = Place(k)
BY DEF Followed, Place, Kind

\* Anything but an import.
LEMMA AskingTells ==
  ASSUME TInv, Story, NEW k \in Kinds \ {"import"}, Ask(k), UNCHANGED tasks,
         screen.tracked[k] = 0,
         screen'.tracked = screen.tracked, screen'.tender = screen.tender,
         screen'.reqs = screen.reqs, screen'.matrix = screen.matrix,
         screen'.fog = screen.fog \/ screen'.fog = {},
         k = "extraction" => Untouched /\ screen.tender # {},
         k = "extraction" <=> ~db.scored
  PROVE  Story'
<1>1. /\ calls' = calls \cup {k}
      /\ UNCHANGED <<db, held, refresh, overtaken>>
  BY DEF Ask
<1>2. /\ Followed' /\ Place(k) = "idle"
      /\ \A j \in Kinds : Place(j)' = Place(j)
  BY SamePlaces DEF Story, Place
<1>3. UNCHANGED <<GetTender, GetReqs, GetFog, GetMatrix>>
  BY <1>1, AnswersAlike
<1>4. Waits'
  BY <1>1, <1>2 DEF Story, Waits, TInv
<1>5. HeldIsFresh' /\ HasWritten'
  BY <1>1, <1>2, <1>3 DEF Story, HeldIsFresh, HasWritten, Kinds
<1>6. Phase'
  <2>1. CASE k = "extraction"
    BY <1>1, <1>2, <2>1 DEF Phase, Untouched, Linkless, Null, Kinds
  <2>2. CASE k # "extraction"
    BY <1>1, <1>2, <2>2 DEF Story, Phase, Extracted, Kinds
  <2> QED
    BY <2>1, <2>2
<1>7. TenderStays'
  BY <1>1, <1>2 DEF Story, TenderStays, Null, Kinds
<1>8. TellsTender' /\ TellsFog'
  BY <1>1, <1>2, <1>3 DEF Story, Tells, TellsTender, TellsFog, Null, Kinds
<1>9. TellsReqs' /\ TellsMatrix'
  BY <1>1, <1>2, <1>3 DEF Story, Tells, TellsReqs, TellsMatrix, Kinds
<1> QED
  BY <1>2, <1>4, <1>5, <1>6, <1>7, <1>8, <1>9 DEF Story, Tells

\* Nothing else is asked for or under way, and no requirements are there yet.
LEMMA AskImportTells ==
  ASSUME TInv, Story, AskImport, ~detached'
  PROVE  Story'
<1>1. /\ calls = {} /\ \A k \in Kinds : screen.tracked[k] = 0 /\ held[k] = {}
      /\ screen.tender = {} \/ screen.reqs = {}
  BY DEF AskImport, LetsGo, Null
<1>2. /\ calls' = {"import"} /\ screen' = [Blank EXCEPT !.loading = {"import"}]
      /\ UNCHANGED <<tasks, db, held>>
  BY <1>1 DEF AskImport, Ask
<1>3. \A k \in Kinds : Place(k) = "idle"
  BY <1>1 DEF Place
<1>4. Untouched /\ ~db.scored
  <2>1. ~db.scored
    BY <1>1, <1>3 DEF Story, Phase, Extracted, TenderStays, Null, Kinds
  <2> QED
    BY <2>1 DEF Story, Phase
<1>5. /\ screen'.tracked = screen.tracked /\ screen'.tender = {} /\ screen'.reqs = {}
      /\ screen'.fog = {} /\ screen'.matrix = {}
  <2>1. screen'.tracked = [k \in Kinds |-> 0]
    BY <1>2 DEF Blank
  <2>2. screen.tracked \in [Kinds -> Nat]
    BY DEF TInv, Screen
  <2>3. screen'.tracked = screen.tracked
    BY <1>1, <2>1, <2>2
  <2> QED
    BY <1>2, <2>3 DEF Blank, Null
<1>6. Followed' /\ \A k \in Kinds : Place(k)' = "idle"
  BY <1>2, <1>3, <1>5, SamePlaces DEF Story
<1>7. Waits' /\ HeldIsFresh' /\ HasWritten' /\ TenderStays'
  BY <1>1, <1>2, <1>4, <1>6 DEF Waits, HeldIsFresh, HasWritten, TenderStays, Null, Kinds
<1>8. Phase'
  BY <1>2, <1>4, <1>5, <1>6 DEF Phase, Untouched, Linkless, Null, Kinds
<1>9. Tells'
  BY <1>5 DEF Tells, TellsTender, TellsReqs, TellsFog, TellsMatrix, Null
<1> QED
  BY <1>6, <1>7, <1>8, <1>9 DEF Story

LEMMA AskExtractionTells ==
  ASSUME TInv, Story, AskExtraction, ~detached'
  PROVE  Story'
<1>1. /\ Ask("extraction") /\ screen.tracked["extraction"] = 0 /\ screen.tracked["fog"] = 0
      /\ screen.tender # {} /\ screen.reqs = {}
  BY DEF AskExtraction, Busy, Browsing, LetsGo, Null
<1>2. Untouched /\ ~db.scored
  <2>1. Place("extraction") = "idle"
    BY <1>1 DEF Place
  <2> QED
    BY <1>1, <2>1 DEF Story, Phase, Extracted, Null
<1>3. UNCHANGED tasks
  <2>1. \A t \in DOMAIN tasks : t # 0
    BY DEF TInv
  <2>2. tasks' = [t \in DOMAIN tasks |-> tasks[t]]
    BY <1>1, <2>1 DEF AskExtraction
  <2>3. tasks = [t \in DOMAIN tasks |-> tasks[t]]
    BY DEF TInv
  <2> QED
    BY <2>2, <2>3
<1>4. /\ screen'.tracked = screen.tracked /\ screen'.tender = screen.tender
      /\ screen'.reqs = screen.reqs /\ screen'.matrix = screen.matrix /\ screen'.fog = {}
  <2>1. screen.tracked = [screen.tracked EXCEPT !["fog"] = 0]
    BY <1>1 DEF TInv, Screen, Kinds
  <2> QED
    BY <2>1 DEF AskExtraction, TInv, Screen, Null
<1> QED
  BY <1>1, <1>2, <1>3, <1>4, AskingTells DEF Kinds

LEMMA AskTells ==
  ASSUME TInv, Story, ~detached',
         AskImport \/ AskExtraction \/ AskFog \/ AskMatrix \/ AskAddendum
  PROVE  Story'
<1>1. CASE AskFog \/ AskMatrix \/ AskAddendum
  <2>1. PICK k \in {"fog", "matrix", "addendum"} :
          Ask(k) /\ screen.tracked[k] = 0 /\ screen.reqs # {}
    BY <1>1 DEF AskFog, AskMatrix, AskAddendum, Busy, HasReqs, Null
  <2>2. /\ UNCHANGED tasks
        /\ screen'.tracked = screen.tracked /\ screen'.tender = screen.tender
        /\ screen'.reqs = screen.reqs /\ screen'.matrix = screen.matrix
        /\ screen'.fog = screen.fog \/ screen'.fog = {}
    BY <1>1 DEF AskFog, AskMatrix, AskAddendum, TInv, Screen, Null
  <2>3. db.scored = TRUE
    BY <2>1, ShownIsScored
  <2> QED
    BY <2>1, <2>2, <2>3, AskingTells DEF Kinds
<1> QED
  BY <1>1, AskImportTells, AskExtractionTells

\* The new task is the tracked one of its kind; there was none.
LEMMA AnswerTells ==
  ASSUME TInv, Story, NEW k \in Kinds, Answer(k)
  PROVE  Story'
<1>0. /\ k \in calls /\ calls' = calls \ {k}
      /\ UNCHANGED <<db, held, refresh, overtaken>>
  BY DEF Answer, asideVars
<1>1. Place(k) = "idle" /\ screen.tracked[k] = 0
  BY <1>0, PlaceIdle DEF Story, Waits
<1>2. /\ screen'.tender = screen.tender /\ screen'.reqs = screen.reqs
      /\ screen'.fog = screen.fog /\ screen'.matrix = screen.matrix
  BY DEF Answer, TInv, Screen
<1>3. /\ Followed'
      /\ \A j \in Kinds \ {k} : Place(j)' = Place(j)
      /\ Place(k)' \in {"idle", "begun"}
  <2>1. CASE UNCHANGED tasks
    <3>1. screen'.tracked = screen.tracked
      <4>1. Append(tasks, [Begun(k) EXCEPT !.known = db.reqs]) # tasks
        BY DEF TInv
      <4> QED
        BY <2>1, <4>1 DEF Answer, TInv, Screen
    <3> QED
      BY <1>1, <2>1, <3>1, SamePlaces DEF Story
  <2>2. CASE /\ tasks' = Append(tasks, [Begun(k) EXCEPT !.known = db.reqs])
             /\ screen' = [screen EXCEPT !.loading = @ \ {k}, !.tracked[k] = Len(tasks) + 1]
    <3> DEFINE n == Len(tasks) + 1
    <3>1. /\ DOMAIN tasks' = DOMAIN tasks \cup {n} /\ n \notin DOMAIN tasks
          /\ tasks'[n].at = "begun" /\ tasks'[n].kind = k /\ n # 0
          /\ \A t \in DOMAIN tasks : tasks'[t] = tasks[t]
      BY <2>2 DEF TInv, Begun
    <3>2. screen'.tracked[k] = n /\ \A j \in Kinds \ {k} : screen'.tracked[j] = screen.tracked[j]
      BY <2>2 DEF TInv, Screen
    <3> HIDE DEF n
    <3>3. Place(k)' = "begun"
      BY <3>1, <3>2 DEF Place
    <3>4. ASSUME NEW j \in Kinds \ {k} PROVE Place(j)' = Place(j)
      BY <3>1, <3>2 DEF Place, TInv, TrackedOnes
    <3>5. ASSUME NEW t \in DOMAIN tasks', tasks'[t].at \notin Over
          PROVE  screen'.tracked[tasks'[t].kind] = t
      <4>1. CASE t = n
        BY <3>1, <3>2, <4>1
      <4>2. CASE t \in DOMAIN tasks
        <5>1. tasks[t] \in Task /\ t # 0
          BY <4>2 DEF TInv
        <5>2. Kind(t) \in Kinds /\ screen.tracked[Kind(t)] = t
          BY <3>1, <3>5, <4>2, <5>1 DEF Story, Followed, Task, Kind
        <5> QED
          BY <1>1, <3>1, <3>2, <4>2, <5>1, <5>2 DEF Kind
      <4> QED
        BY <3>1, <3>5, <4>1, <4>2
    <3>6. Followed'
      BY <3>5 DEF Followed, Kind
    <3> QED
      BY <3>3, <3>4, <3>6
  <2> QED
    BY <2>1, <2>2 DEF Answer
<1>4. UNCHANGED <<GetTender, GetReqs, GetFog, GetMatrix>>
  BY <1>0, AnswersAlike
<1>5. held[k] = {}
  BY <1>1 DEF Story, Waits, Null
<1>6. Waits'
  BY <1>0, <1>3, <1>5 DEF Story, Waits, TInv, Null
<1>7. HeldIsFresh' /\ HasWritten'
  BY <1>0, <1>3, <1>4 DEF Story, HeldIsFresh, HasWritten, Kinds
<1>8. Phase'
  <2>1. CASE db.scored
    BY <1>0, <1>1, <1>2, <1>3, <2>1 DEF Story, Phase, Extracted, Kinds
  <2>2. CASE ~db.scored
    BY <1>0, <1>1, <1>2, <1>3, <2>2 DEF Story, Phase, Untouched, Linkless, Kinds
  <2> QED
    BY <2>1, <2>2
<1>9. TenderStays'
  BY <1>0, <1>1, <1>2, <1>3 DEF Story, TenderStays, Kinds
<1>10. TellsTender' /\ TellsFog'
  BY <1>0, <1>1, <1>2, <1>3, <1>4 DEF Story, Tells, TellsTender, TellsFog, Kinds
<1>11. TellsReqs'
  BY <1>0, <1>1, <1>2, <1>3, <1>4 DEF Story, Tells, TellsReqs, Kinds
<1>12. TellsMatrix'
  BY <1>0, <1>1, <1>2, <1>3, <1>4 DEF Story, Tells, TellsMatrix, Kinds
<1> QED
  BY <1>3, <1>6, <1>7, <1>8, <1>9, <1>10, <1>11, <1>12 DEF Story, Tells

-----------------------------------------------------------------------------
(* The monitor *)

\* The end of any task but an import is the end of one that came after an
\* extraction, or of the extraction.
LEMMA CompletedIsScored ==
  ASSUME TInv, Story, NEW k \in Kinds \ {"import"}, Place(k) = "completed"
  PROVE  db.scored = TRUE /\ Extracted
<1>1. db.scored \in BOOLEAN
  BY DEF TInv, RowsOK, Rows
<1>2. CASE k = "extraction"
  BY <1>1, <1>2 DEF Story, HasWritten, Phase
<1>3. CASE k # "extraction"
  BY <1>1, <1>3 DEF Story, Phase, Untouched, Kinds
<1> QED
  BY <1>2, <1>3

LEMMA TrackedPlace ==
  ASSUME NEW k \in Kinds, NEW s, Tracked(k, s)
  PROVE  Place(k) = s /\ UNCHANGED <<tasks, db, calls, refresh>>
BY DEF Tracked, Place, At

LEMMA ImportEndsTells ==
  ASSUME TInv, Story, ImportEnds
  PROVE  Story'
<1>1. /\ Place("import") = "completed"
      /\ UNCHANGED <<tasks, db, calls, held, refresh, overtaken>>
  BY TrackedPlace DEF ImportEnds, Kinds
<1>2. /\ screen'.tender = GetTender /\ screen'.reqs = screen.reqs
      /\ screen'.fog = screen.fog /\ screen'.matrix = screen.matrix
      /\ screen'.tracked = [screen.tracked EXCEPT !["import"] = 0]
  BY DEF ImportEnds, TenderShown, TInv, Screen
<1>3. /\ screen'.tracked["import"] = 0
      /\ \A k \in Kinds \ {"import"} : screen'.tracked[k] = screen.tracked[k]
  BY <1>2 DEF TInv, Screen, Kinds
<1>4. /\ Followed'
      /\ \A k \in Kinds \ {"import"} : Place(k)' = Place(k)
      /\ Place("import")' = "idle"
  BY <1>1, <1>3, PlaceEnds, PlaceIdle DEF Story, Over, Kinds
<1>5. UNCHANGED <<GetTender, GetReqs, GetFog, GetMatrix>> /\ GetTender # {}
  <2>1. db.tender # 0
    BY <1>1 DEF Story, HasWritten
  <2> QED
    BY <1>1, <2>1, AnswersAlike DEF GetTender
<1>6. Waits'
  BY <1>1, <1>4 DEF Story, Waits, TInv
<1>7. HeldIsFresh' /\ HasWritten'
  BY <1>1, <1>4, <1>5 DEF Story, HeldIsFresh, HasWritten, Kinds
<1>8. Phase'
  <2>1. CASE db.scored
    BY <1>1, <1>2, <1>4, <2>1 DEF Story, Phase, Extracted, Kinds
  <2>2. CASE ~db.scored
    BY <1>1, <1>2, <1>4, <2>2 DEF Story, Phase, Untouched, Linkless, Kinds
  <2> QED
    BY <2>1, <2>2
<1>9. TenderStays' /\ TellsTender'
  BY <1>1, <1>2, <1>5 DEF TenderStays, TellsTender, Null
<1>10. TellsReqs' /\ TellsFog' /\ TellsMatrix'
  BY <1>1, <1>2, <1>4, <1>5
     DEF Story, Tells, TellsReqs, TellsFog, TellsMatrix, Kinds
<1> QED
  BY <1>4, <1>6, <1>7, <1>8, <1>9, <1>10 DEF Story, Tells

LEMMA ReadsTells ==
  ASSUME TInv, Story, NEW k \in Kinds, Reads(k)
  PROVE  Story'
<1>1. /\ k # "import" /\ Place(k) = "completed" /\ held[k] = {}
      /\ UNCHANGED <<tasks, db, calls, refresh, overtaken>>
  BY TrackedPlace DEF Reads, Null
<1>2. /\ held'[k] = {Seen} /\ \A j \in Kinds \ {k} : held'[j] = held[j]
  BY DEF Reads, TInv
<1>3. /\ screen'.tender = screen.tender /\ screen'.fog = screen.fog
      /\ screen'.matrix = screen.matrix /\ screen'.tracked = screen.tracked
      /\ screen'.reqs = IF k = "extraction" THEN GetReqs ELSE screen.reqs
  BY DEF Reads, TInv, Screen
<1>4. Followed' /\ \A j \in Kinds : Place(j)' = Place(j)
  BY <1>1, <1>3, SamePlaces DEF Story
<1>5. UNCHANGED <<GetTender, GetReqs, GetFog, GetMatrix>>
  BY <1>1, AnswersAlike
<1>6. db.scored = TRUE /\ Extracted
  BY <1>1, CompletedIsScored
<1>7. GetReqs # {}
  BY <1>6 DEF GetReqs
<1>8. Waits'
  BY <1>1, <1>2, <1>4 DEF Story, Waits, TInv
<1>9. HeldIsFresh'
  <2>1. Seen.fog = GetFog /\ Seen.reqs = GetReqs
    BY DEF Seen
  <2> QED
    BY <1>2, <1>5, <2>1 DEF Story, HeldIsFresh, Kinds
<1>10. HasWritten' /\ TenderStays'
  BY <1>1, <1>3, <1>4 DEF Story, HasWritten, TenderStays, Kinds
<1>11. Phase'
  BY <1>1, <1>2, <1>3, <1>4, <1>6, <1>7 DEF Phase, Extracted, Null, Kinds
<1>12. TellsTender' /\ TellsFog' /\ TellsMatrix'
  BY <1>1, <1>3, <1>4, <1>5 DEF Story, Tells, TellsTender, TellsFog, TellsMatrix, Kinds
<1>13. TellsReqs'
  <2>1. CASE k = "extraction"
    BY <1>3, <1>5, <2>1 DEF TellsReqs
  <2>2. CASE k # "extraction"
    BY <1>2, <1>3, <1>4, <1>5, <2>2 DEF Story, Tells, TellsReqs, Kinds
  <2> QED
    BY <2>1, <2>2
<1> QED
  BY <1>4, <1>8, <1>9, <1>10, <1>11, <1>12, <1>13 DEF Story, Tells

\* What the end of a task other than an import leaves of the screen.
EndsAs(k, from) ==
  /\ k \in Kinds /\ Place(k) = from
  /\ from \in Over /\ (from = "completed" => k # "import")
  /\ UNCHANGED <<tasks, db, calls, refresh>>
  /\ held'[k] = {} /\ \A j \in Kinds \ {k} : held'[j] = held[j]
  /\ screen'.tracked[k] = 0
  /\ \A j \in Kinds \ {k} : screen'.tracked[j] = screen.tracked[j]
  /\ screen'.tender = screen.tender
  /\ screen'.reqs = screen.reqs \/ (screen'.reqs = GetReqs /\ db.scored = TRUE)
  /\ screen'.fog \in {screen.fog, Null, GetFog}
  /\ \/ screen'.matrix = screen.matrix /\ overtaken' = overtaken
     \/ db.scored = TRUE /\ (screen'.matrix = GetMatrix \/ overtaken' = TRUE)

LEMMA EndTells ==
  ASSUME TInv, Story, NEW k, NEW from, EndsAs(k, from),
         k = "extraction" => held[k] # {} \/ from # "completed",
         k = "fog" /\ from = "completed" => screen'.fog = GetFog,
         k = "matrix" /\ from = "completed" => screen'.matrix = GetMatrix \/ overtaken' = TRUE,
         k = "addendum" /\ from # "failed" =>
           screen'.reqs = GetReqs /\ (screen'.matrix = GetMatrix \/ overtaken' = TRUE)
  PROVE  Story'
<1>1. /\ k \in Kinds /\ Place(k) = from /\ from \in Over /\ (from = "completed" => k # "import")
      /\ UNCHANGED <<tasks, db, calls, refresh>>
      /\ held'[k] = {} /\ \A j \in Kinds \ {k} : held'[j] = held[j]
      /\ screen'.tracked[k] = 0
      /\ \A j \in Kinds \ {k} : screen'.tracked[j] = screen.tracked[j]
      /\ screen'.tender = screen.tender
  BY DEF EndsAs
<1>2. /\ Followed'
      /\ \A j \in Kinds \ {k} : Place(j)' = Place(j)
      /\ Place(k)' = "idle"
  BY <1>1, PlaceEnds, PlaceIdle DEF Story
<1>3. UNCHANGED <<GetTender, GetReqs, GetFog, GetMatrix>>
  BY <1>1, AnswersAlike
<1>4. Waits'
  BY <1>1, <1>2 DEF Story, Waits, TInv, Null
<1>5. HeldIsFresh'
  <2>1. held'["fog"] \subseteq held["fog"] /\ held'["addendum"] \subseteq held["addendum"]
    BY <1>1 DEF Kinds
  <2> QED
    BY <1>3, <2>1 DEF Story, HeldIsFresh
<1>6. HasWritten'
  BY <1>1, <1>2 DEF Story, HasWritten, Kinds
<1>7. Phase'
  <2>1. CASE db.scored
    <3>1. GetReqs # {}
      BY <2>1 DEF GetReqs
    <3>2. screen.reqs # {} => screen'.reqs # {}
      BY <3>1 DEF EndsAs
    <3>3. Extracted
      BY <2>1 DEF Story, Phase
    <3>4. ASSUME k = "extraction" PROVE Extracted'
      BY <1>1, <1>2, <3>2, <3>3, <3>4 DEF Extracted, Null, Over
    <3>5. ASSUME k # "extraction" PROVE Extracted'
      BY <1>1, <1>2, <3>2, <3>3, <3>5 DEF Extracted, Null, Kinds
    <3>6. Extracted'
      BY <3>4, <3>5
    <3> QED
      BY <1>1, <2>1, <3>6 DEF Phase
  <2>2. CASE ~db.scored
    <3>1. Untouched
      BY <2>2 DEF Story, Phase
    <3>2. GetFog = {}
      BY <3>1 DEF Untouched, GetFog, Null
    <3>3. screen'.reqs = {} /\ screen'.fog = {} /\ screen'.matrix = {}
      BY <2>2, <3>1, <3>2 DEF EndsAs, Untouched, Null
    <3>4. \A j \in {"fog", "matrix", "addendum"} : j \notin calls' /\ Place(j)' = "idle"
      BY <1>1, <1>2, <3>1 DEF Untouched, Kinds
    <3> QED
      BY <1>1, <2>2, <3>1, <3>3, <3>4 DEF Phase, Untouched, Linkless, Null
  <2> QED
    BY <2>1, <2>2
<1>8. TenderStays'
  BY <1>1, <1>2 DEF Story, TenderStays, Kinds
<1>9. TellsTender'
  BY <1>1, <1>2, <1>3 DEF Story, Tells, TellsTender, Kinds
<1>10. TellsReqs'
  <2>1. CASE screen'.reqs = GetReqs
    BY <1>3, <2>1 DEF TellsReqs
  <2>2. CASE screen'.reqs = screen.reqs /\ (k = "addendum" => from = "failed")
    BY <1>1, <1>2, <1>3, <2>2 DEF Story, Tells, TellsReqs, Null, Kinds
  <2> QED
    BY <2>1, <2>2 DEF EndsAs
<1>11. TellsFog'
  <2>1. CASE screen'.fog \in {Null, GetFog}
    BY <1>3, <2>1 DEF TellsFog
  <2>2. CASE screen'.fog = screen.fog /\ (k = "fog" => from # "completed")
    BY <1>1, <1>2, <1>3, <2>2 DEF Story, Tells, TellsFog, Kinds
  <2> QED
    BY <2>1, <2>2 DEF EndsAs
<1>12. TellsMatrix'
  <2>1. CASE screen'.matrix = GetMatrix \/ overtaken' = TRUE
    BY <1>3, <2>1 DEF TellsMatrix
  <2>2. CASE /\ screen'.matrix = screen.matrix /\ overtaken' = overtaken
             /\ k = "matrix" => from # "completed"
             /\ k = "addendum" => from = "failed"
    BY <1>1, <1>2, <1>3, <2>2 DEF Story, Tells, TellsMatrix, Over, Kinds
  <2> QED
    BY <2>1, <2>2 DEF EndsAs
<1> QED
  BY <1>2, <1>4, <1>5, <1>6, <1>7, <1>8, <1>9, <1>10, <1>11, <1>12 DEF Story, Tells

LEMMA EndedShape ==
  ASSUME TInv, NEW k \in Kinds
  PROVE  LET sc == Ended(k) IN
         /\ sc \in Screen /\ sc.tracked[k] = 0
         /\ \A j \in Kinds \ {k} : sc.tracked[j] = screen.tracked[j]
         /\ sc.tender = screen.tender /\ sc.reqs = screen.reqs
         /\ sc.fog = screen.fog /\ sc.matrix = screen.matrix
BY DEF Ended, TInv, Screen

LEMMA FogDroppedShape ==
  ASSUME NEW sc \in Screen
  PROVE  LET to == FogDropped(sc) IN
         /\ to \in Screen /\ to.tracked["fog"] = 0
         /\ \A j \in Kinds \ {"fog"} : to.tracked[j] = sc.tracked[j]
         /\ to.tender = sc.tender /\ to.reqs = sc.reqs /\ to.fog = Null
         /\ to.matrix = sc.matrix
BY DEF FogDropped, Screen, Null, Kinds

LEMMA SetsTells ==
  ASSUME TInv, Story, NEW k \in Kinds, Sets(k), ~detached'
  PROVE  Story'
<1>1. PICK answer \in held[k] :
       \/ /\ k = "extraction"
          /\ screen' = [FogDropped(Ended(k)) EXCEPT
                          !.reqs = IF @ = Null THEN {[of |-> {}, patched |-> {}]} ELSE @]
          /\ detached' = (detached \/ LetsGo({"fog"})) /\ UNCHANGED overtaken
       \/ /\ k = "fog"
          /\ screen' = IF screen.tracked[k] = 0 THEN screen
                       ELSE [Ended(k) EXCEPT !.fog = answer.fog]
          /\ UNCHANGED <<detached, overtaken>>
       \/ /\ k = "matrix"
          /\ screen' = [Ended(k) EXCEPT !.matrix = answer.matrix, !.matrixError = FALSE]
          /\ overtaken' = (answer.matrix # GetMatrix) /\ UNCHANGED detached
       \/ /\ k = "addendum"
          /\ screen' = [Ended(k) EXCEPT !.matrix = answer.matrix, !.reqs = answer.reqs]
          /\ overtaken' = (answer.matrix # GetMatrix) /\ UNCHANGED detached
  BY DEF Sets
<1>2. /\ UNCHANGED <<tasks, db, calls, refresh>>
      /\ held'[k] = {} /\ \A j \in Kinds \ {k} : held'[j] = held[j]
  BY DEF Sets, TInv, Null
<1>3. Place(k) = "completed" /\ k # "import" /\ screen.tracked[k] # 0
  BY <1>1, PlaceIdle DEF Story, Waits, Null
<1>4. db.scored = TRUE /\ Extracted
  BY <1>3, CompletedIsScored
<1> DEFINE sc == Ended(k)
<1>5. /\ sc \in Screen /\ sc.tracked[k] = 0
      /\ \A j \in Kinds \ {k} : sc.tracked[j] = screen.tracked[j]
      /\ sc.tender = screen.tender /\ sc.reqs = screen.reqs
      /\ sc.fog = screen.fog /\ sc.matrix = screen.matrix
  BY EndedShape
<1> HIDE DEF sc
<1>6. CASE k = "extraction"
  <2> DEFINE to == FogDropped(sc)
  <2>1. /\ to \in Screen /\ to.tracked["fog"] = 0
        /\ \A j \in Kinds \ {"fog"} : to.tracked[j] = sc.tracked[j]
        /\ to.tender = sc.tender /\ to.reqs = sc.reqs /\ to.fog = Null
        /\ to.matrix = sc.matrix
    BY <1>5, FogDroppedShape
  <2> HIDE DEF to
  <2>2. screen.tracked["fog"] = 0 /\ overtaken' = overtaken
    BY <1>1, <1>6 DEF LetsGo
  <2>3. screen.reqs # {}
    BY <1>1, <1>4, <1>6 DEF Extracted, Null
  <2>4. screen' = [to EXCEPT !.reqs = to.reqs]
    BY <1>1, <1>5, <1>6, <2>1, <2>3 DEF sc, to, Null
  <2>5. screen' = to
    BY <2>1, <2>4 DEF Screen
  <2>6. EndsAs(k, "completed")
    BY <1>2, <1>3, <1>5, <1>6, <2>1, <2>2, <2>5 DEF EndsAs, Over, Kinds
  <2>7. held[k] # {}
    BY <1>1
  <2> QED
    BY <1>6, <2>6, <2>7, EndTells
<1>7. CASE k = "fog"
  <2>1. screen' = [sc EXCEPT !.fog = answer.fog] /\ overtaken' = overtaken
    BY <1>1, <1>3, <1>7 DEF sc
  <2>2. answer.fog = GetFog
    BY <1>1, <1>7 DEF Story, HeldIsFresh
  <2>3. /\ screen'.tracked = sc.tracked /\ screen'.tender = sc.tender
        /\ screen'.reqs = sc.reqs /\ screen'.matrix = sc.matrix /\ screen'.fog = GetFog
    BY <1>5, <2>1, <2>2 DEF Screen
  <2>4. EndsAs(k, "completed")
    BY <1>2, <1>3, <1>5, <2>1, <2>3 DEF EndsAs, Over
  <2> QED
    BY <1>7, <2>3, <2>4, EndTells
<1>8. CASE k = "matrix"
  <2>1. screen' = [sc EXCEPT !.matrix = answer.matrix, !.matrixError = FALSE]
        /\ overtaken' = (answer.matrix # GetMatrix)
    BY <1>1, <1>8 DEF sc
  <2>2. /\ screen'.tracked = sc.tracked /\ screen'.tender = sc.tender
        /\ screen'.reqs = sc.reqs /\ screen'.fog = sc.fog
        /\ screen'.matrix = GetMatrix \/ overtaken' = TRUE
    BY <1>5, <2>1 DEF Screen
  <2>3. EndsAs(k, "completed")
    BY <1>2, <1>3, <1>4, <1>5, <2>2 DEF EndsAs, Over
  <2> QED
    BY <1>8, <2>2, <2>3, EndTells
<1>9. CASE k = "addendum"
  <2>1. screen' = [sc EXCEPT !.matrix = answer.matrix, !.reqs = answer.reqs]
        /\ overtaken' = (answer.matrix # GetMatrix)
    BY <1>1, <1>9 DEF sc
  <2>2. answer.reqs = GetReqs
    BY <1>1, <1>9 DEF Story, HeldIsFresh
  <2>3. /\ screen'.tracked = sc.tracked /\ screen'.tender = sc.tender
        /\ screen'.reqs = GetReqs /\ screen'.fog = sc.fog
        /\ screen'.matrix = GetMatrix \/ overtaken' = TRUE
    BY <1>5, <2>1, <2>2 DEF Screen
  <2>4. EndsAs(k, "completed")
    BY <1>2, <1>3, <1>4, <1>5, <2>3 DEF EndsAs, Over
  <2> QED
    BY <1>9, <2>3, <2>4, EndTells
<1> QED
  BY <1>1, <1>6, <1>7, <1>8, <1>9

LEMMA FailedTells ==
  ASSUME TInv, Story, NEW k \in Kinds, Failed(k), ~detached'
  PROVE  Story'
<1> DEFINE sc   == Ended(k)
           lost == [sc EXCEPT !.loading = @ \ {"import"}]
<1>1. /\ sc \in Screen /\ sc.tracked[k] = 0
      /\ \A j \in Kinds \ {k} : sc.tracked[j] = screen.tracked[j]
      /\ sc.tender = screen.tender /\ sc.reqs = screen.reqs
      /\ sc.fog = screen.fog /\ sc.matrix = screen.matrix
  BY EndedShape
<1>2. UNCHANGED held
      /\ \/ /\ k = "extraction" /\ Tracked(k, "failed")
            /\ screen' = FogDropped(lost)
            /\ detached' = (detached \/ LetsGo({"fog"})) /\ UNCHANGED overtaken
         \/ /\ k = "matrix" /\ Tracked(k, "failed")
            /\ screen' = [lost EXCEPT !.matrixError = TRUE]
            /\ UNCHANGED <<detached, overtaken>>
         \/ /\ k \in {"import", "fog", "addendum"} /\ Tracked(k, "failed")
            /\ screen' = lost /\ UNCHANGED <<detached, overtaken>>
         \/ /\ k = "addendum" /\ Tracked(k, "unmapped")
            /\ screen' = Fetched(lost)
            /\ overtaken' = FALSE /\ UNCHANGED detached
  BY DEF Failed
<1> HIDE DEF sc
<1>3. /\ lost \in Screen /\ lost.tracked = sc.tracked
      /\ lost.tender = screen.tender /\ lost.reqs = screen.reqs
      /\ lost.fog = screen.fog /\ lost.matrix = screen.matrix
  BY <1>1 DEF Screen
<1> HIDE DEF lost
<1>4. ASSUME NEW from \in {"failed", "unmapped"}, Tracked(k, from)
      PROVE  /\ Place(k) = from /\ UNCHANGED <<tasks, db, calls, refresh>>
             /\ held'[k] = {} /\ \A j \in Kinds \ {k} : held'[j] = held[j]
             /\ from \in Over /\ from # "completed"
  BY <1>2, <1>4, TrackedPlace DEF Story, Waits, Null, Over
<1>5. CASE /\ Tracked(k, "failed") /\ UNCHANGED overtaken
           /\ screen' = lost \/ screen' = [lost EXCEPT !.matrixError = TRUE]
  <2>1. /\ screen'.tracked = sc.tracked /\ screen'.tender = screen.tender
        /\ screen'.reqs = screen.reqs /\ screen'.fog = screen.fog
        /\ screen'.matrix = screen.matrix
    BY <1>3, <1>5 DEF Screen
  <2>2. EndsAs(k, "failed")
    BY <1>1, <1>4, <1>5, <2>1 DEF EndsAs
  <2> QED
    BY <2>2, EndTells
<1>6. CASE /\ k = "extraction" /\ Tracked(k, "failed") /\ UNCHANGED overtaken
           /\ screen' = FogDropped(lost) /\ ~LetsGo({"fog"})
  <2>1. /\ screen'.tracked["fog"] = 0 /\ screen'.fog = Null
        /\ \A j \in Kinds \ {"fog"} : screen'.tracked[j] = sc.tracked[j]
        /\ screen'.tender = screen.tender /\ screen'.reqs = screen.reqs
        /\ screen'.matrix = screen.matrix
    BY <1>3, <1>6, FogDroppedShape
  <2>2. screen.tracked["fog"] = 0
    BY <1>6 DEF LetsGo
  <2>3. EndsAs(k, "failed")
    BY <1>1, <1>4, <1>6, <2>1, <2>2 DEF EndsAs, Kinds
  <2> QED
    BY <1>6, <2>3, EndTells
<1>7. CASE k = "addendum" /\ Tracked(k, "unmapped") /\ screen' = Fetched(lost)
  <2>1. /\ screen'.tracked = sc.tracked /\ screen'.tender = screen.tender
        /\ screen'.reqs = GetReqs /\ screen'.fog = screen.fog
        /\ screen'.matrix = GetMatrix
    BY <1>3, <1>7 DEF Fetched, Screen
  <2>2. Place(k) = "unmapped"
    BY <1>4, <1>7
  <2>3. db.scored = TRUE
    <3>1. ~Untouched
      BY <1>7, <2>2 DEF Untouched
    <3>2. db.scored \in BOOLEAN
      BY DEF TInv, RowsOK, Rows
    <3> QED
      BY <3>1, <3>2 DEF Story, Phase
  <2>4. EndsAs(k, "unmapped")
    BY <1>1, <1>4, <1>7, <2>1, <2>3 DEF EndsAs
  <2> QED
    BY <1>7, <2>1, <2>4, EndTells
<1> QED
  BY <1>2, <1>5, <1>6, <1>7

LEMMA MonitorTells ==
  ASSUME TInv, Story, NEW k \in Kinds, MonitorStep(k), ~detached'
  PROVE  Story'
BY ReadsTells, SetsTells, FailedTells, ImportEndsTells DEF MonitorStep

-----------------------------------------------------------------------------
(* The links the user edits, and a mount *)

LEMMA EditTells ==
  ASSUME TInv, Story, NEW r \in Ids, CreateLink(r) \/ UpdateLink(r) \/ DeleteLink(r)
  PROVE  Story'
<1>1. \E link : Edits(r, link)
  BY DEF CreateLink, UpdateLink, DeleteLink
<1>2. /\ UNCHANGED <<tasks, screen, calls, held, overtaken>> /\ screen.reqs # {}
  BY <1>1 DEF Edits, HasReqs
<1>3. db.scored = TRUE /\ Extracted
  BY <1>2, ShownIsScored
<1>4. /\ db'.tender = db.tender /\ db'.reqs = db.reqs /\ db'.patched = db.patched
      /\ db'.fog = db.fog /\ db'.scored = db.scored
      /\ UNCHANGED <<db, refresh>> \/ refresh' = TRUE
  BY DEF CreateLink, UpdateLink, DeleteLink, Writes, Refused, TInv, RowsOK, Rows
<1>5. Followed' /\ \A k \in Kinds : Place(k)' = Place(k)
  BY <1>2, SamePlaces DEF Story
<1>6. UNCHANGED <<GetTender, GetReqs, GetFog>>
  BY <1>4, AnswersAlike
<1>7. Waits' /\ HeldIsFresh' /\ HasWritten' /\ TenderStays'
  BY <1>2, <1>4, <1>5, <1>6 DEF Story, Waits, HeldIsFresh, HasWritten, TenderStays, TInv, Kinds
<1>8. Phase'
  BY <1>2, <1>3, <1>4, <1>5 DEF Phase, Extracted, Kinds
<1>9. TellsTender' /\ TellsReqs' /\ TellsFog'
  BY <1>2, <1>5, <1>6 DEF Story, Tells, TellsTender, TellsReqs, TellsFog, Kinds
<1>10. TellsMatrix'
  <2>1. CASE refresh' = TRUE
    BY <2>1 DEF TellsMatrix
  <2>2. CASE UNCHANGED <<db, refresh>>
    BY <1>2, <1>5, <2>2, AnswersAlike DEF Story, Tells, TellsMatrix, Kinds
  <2> QED
    BY <1>4, <2>1, <2>2
<1> QED
  BY <1>5, <1>7, <1>8, <1>9, <1>10 DEF Story, Tells

\* What is read anew is what the main process answers.
LEMMA FetchTells ==
  ASSUME TInv, Story, Refreshes \/ Visit, ~detached'
  PROVE  Story'
<1>1. UNCHANGED <<tasks, db, calls, held>>
  BY DEF Refreshes, Visit
<1>2. UNCHANGED <<GetTender, GetReqs, GetFog, GetMatrix>>
  BY <1>1, AnswersAlike
<1>3. /\ screen'.tracked = screen.tracked
      /\ screen'.tender = screen.tender \/ (screen'.tender = GetTender /\ GetTender # {})
      /\ screen'.reqs \in {screen.reqs, GetReqs} /\ screen'.fog \in {screen.fog, GetFog}
      /\ screen'.matrix = GetMatrix
  <2>1. CASE Refreshes
    BY <2>1 DEF Refreshes, TInv, Screen
  <2>2. CASE Visit
    <3> DEFINE base == IF GetTender = Null THEN [screen EXCEPT !.loading = @ \ {"import"}]
                       ELSE TenderShown(screen)
    <3>1. screen' = [base EXCEPT !.reqs = GetReqs, !.fog = GetFog, !.matrix = GetMatrix]
      BY <2>2 DEF Visit
    <3>2. /\ base \in Screen /\ base.tracked = screen.tracked
          /\ base.tender = screen.tender \/ (base.tender = GetTender /\ GetTender # {})
      <4>1. CASE GetTender = Null
        BY <4>1 DEF TInv, Screen
      <4>2. CASE GetTender # Null
        <5>1. screen.tracked["import"] = 0
          BY <2>2, <4>2 DEF Visit, LetsGo
        <5>2. screen.tracked = [screen.tracked EXCEPT !["import"] = 0]
          BY <5>1 DEF TInv, Screen, Kinds
        <5>3. GetTender \subseteq Nat
          BY AnswersTyped DEF TInv
        <5> QED
          BY <4>2, <5>2, <5>3 DEF TenderShown, TInv, Screen, Null
      <4> QED
        BY <4>1, <4>2
    <3> HIDE DEF base
    <3> QED
      BY <3>1, <3>2 DEF Screen
  <2> QED
    BY <2>1, <2>2
<1>4. Followed' /\ \A k \in Kinds : Place(k)' = Place(k)
  BY <1>1, <1>3, SamePlaces DEF Story
<1>5. Waits' /\ HeldIsFresh' /\ HasWritten'
  BY <1>1, <1>2, <1>4 DEF Story, Waits, HeldIsFresh, HasWritten, TInv, Kinds
<1>6. Phase'
  <2>1. CASE db.scored
    <3>1. GetReqs # {}
      BY <2>1 DEF GetReqs
    <3> QED
      BY <1>1, <1>3, <1>4, <2>1, <3>1 DEF Story, Phase, Extracted, Null, Kinds
  <2>2. CASE ~db.scored
    <3>1. Untouched
      BY <2>2 DEF Story, Phase
    <3>2. GetReqs = {} /\ GetFog = {} /\ GetMatrix = {}
      BY <2>2, <3>1 DEF Untouched, GetReqs, GetFog, GetMatrix, Null
    <3> QED
      BY <1>1, <1>3, <1>4, <2>2, <3>1, <3>2 DEF Phase, Untouched, Linkless, Null, Kinds
  <2> QED
    BY <2>1, <2>2
<1>7. TenderStays'
  BY <1>1, <1>3, <1>4 DEF Story, TenderStays, Null, Kinds
<1>8. TellsTender' /\ TellsMatrix'
  BY <1>2, <1>3, <1>4 DEF Story, Tells, TellsTender, TellsMatrix, Kinds
<1>9. TellsReqs' /\ TellsFog'
  BY <1>1, <1>2, <1>3, <1>4 DEF Story, Tells, TellsReqs, TellsFog, Kinds
<1> QED
  BY <1>4, <1>5, <1>6, <1>7, <1>8, <1>9 DEF Story, Tells

-----------------------------------------------------------------------------
(* The invariant *)

\* A task that was let go of, or broken off between two writes, stays so.
LEMMA IntactBefore ==
  ASSUME [TenderNext]_tenderVars, Intact'
  PROVE  Intact
<1> SUFFICES /\ UNCHANGED detached \/ \E now : detached' = (detached \/ now)
             /\ UNCHANGED broken \/ \E now : broken' = (broken \/ now)
  <2>1. ASSUME NEW now, detached' = (detached \/ now) PROVE ~detached
    BY <2>1 DEF Intact
  <2>2. ASSUME NEW now, broken' = (broken \/ now) PROVE ~broken
    BY <2>2 DEF Intact
  <2> QED
    BY <2>1, <2>2, Zenon DEF Intact
<1>1. CASE UNCHANGED tenderVars
  BY <1>1 DEF tenderVars, asideVars
<1>2. CASE AskImport
  <2>1. detached' = (detached \/ LetsGo(Kinds) \/ calls # {}) /\ UNCHANGED broken
    BY <1>2 DEF AskImport, Ask
  <2> DEFINE now == LetsGo(Kinds) \/ calls # {}
  <2>2. detached' = (detached \/ now)
    BY <2>1
  <2> HIDE DEF now
  <2> QED
    BY <2>1, <2>2, Zenon
<1>3. CASE AskExtraction
  BY <1>3, Zenon DEF AskExtraction, Ask
<1>4. CASE AskFog \/ AskMatrix \/ AskAddendum
  BY <1>4, Zenon DEF AskFog, AskMatrix, AskAddendum, Ask
<1>5. CASE CancelImport \/ Refreshes
  BY <1>5 DEF CancelImport, Refreshes, Intact
<1>6. CASE Visit
  BY <1>6, Zenon DEF Visit
<1>7. ASSUME NEW k \in Kinds, Answer(k) \/ MonitorStep(k)
      PROVE  /\ UNCHANGED detached \/ \E now : detached' = (detached \/ now)
             /\ UNCHANGED broken
  <2>1. CASE Answer(k)
    BY <2>1 DEF Answer, asideVars
  <2>2. CASE Reads(k) \/ ImportEnds
    BY <2>2 DEF Reads, ImportEnds, Tracked
  <2>3. CASE Sets(k)
    BY <2>3, Zenon DEF Sets
  <2>4. CASE Failed(k)
    BY <2>4, Zenon DEF Failed, Tracked
  <2> QED
    BY <1>7, <2>1, <2>2, <2>3, <2>4 DEF MonitorStep
<1>8. ASSUME NEW t \in Ids, TaskStep(t)
      PROVE  /\ UNCHANGED detached
             /\ UNCHANGED broken \/ \E now : broken' = (broken \/ now)
  <2>1. UNCHANGED detached
    BY <1>8, Zenon DEF TaskStep, ImportStep, ExtractionStep, FogStep, MatrixStep, AddendumStep,
                       Works
  <2>2. \A s, between : LetDown(t, s, between) => \E now : broken' = (broken \/ now)
    BY Zenon DEF LetDown
  <2>3. \A among : Remaps(t, among) => UNCHANGED broken \/ \E now : broken' = (broken \/ now)
    BY Zenon DEF Remaps
  <2>4. Snapshot(t) => UNCHANGED broken \/ \E now : broken' = (broken \/ now)
    BY <2>2, Zenon DEF Snapshot
  <2>5. CASE ImportStep(t) \/ ExtractionStep(t) \/ FogStep(t)
    <3>1. UNCHANGED broken \/ LetDown(t, "failed", FALSE) \/ LetDown(t, "failed", TRUE)
      BY <2>5 DEF ImportStep, ExtractionStep, FogStep
    <3> QED
      BY <2>1, <2>2, <3>1, Zenon
  <2>6. CASE MatrixStep(t) \/ AddendumStep(t)
    <3>1. \/ UNCHANGED broken \/ Snapshot(t)
          \/ LetDown(t, "failed", FALSE) \/ LetDown(t, "unmapped", FALSE)
          \/ Remaps(t, tasks[t].known) \/ Remaps(t, tasks[t].known \cup {t})
      BY <2>6 DEF MatrixStep, AddendumStep
    <3> QED
      BY <2>1, <2>2, <2>3, <2>4, <3>1, Zenon
  <2> QED
    BY <1>8, <2>1, <2>5, <2>6 DEF TaskStep
<1>9. ASSUME NEW r \in Ids, CreateLink(r) \/ UpdateLink(r) \/ DeleteLink(r)
      PROVE  UNCHANGED <<detached, broken>>
  BY <1>9 DEF CreateLink, UpdateLink, DeleteLink, Edits
<1> QED
  BY <1>1, <1>2, <1>3, <1>4, <1>5, <1>6, <1>7, <1>8, <1>9 DEF TenderNext

LEMMA TellsInvNext ==
  ASSUME TellsInv, [TenderNext]_tenderVars
  PROVE  TellsInv'
<1>1. TInv /\ TInv'
  BY TInvNext DEF TellsInv
<1> SUFFICES ASSUME Intact' PROVE Story'
  BY <1>1 DEF TellsInv
<1>2. Story /\ ~detached' /\ ~broken'
  BY IntactBefore DEF TellsInv, Intact
<1>3. CASE AskImport \/ AskExtraction \/ AskFog \/ AskMatrix \/ AskAddendum
  BY <1>1, <1>2, <1>3, AskTells
<1>4. CASE CancelImport
  BY <1>2, <1>4 DEF CancelImport
<1>5. CASE Refreshes \/ Visit
  BY <1>1, <1>2, <1>5, FetchTells
<1>6. ASSUME NEW k \in Kinds, Answer(k) \/ MonitorStep(k)
      PROVE  Story'
  BY <1>1, <1>2, <1>6, AnswerTells, MonitorTells
<1>7. ASSUME NEW t \in Ids, TaskStep(t)
      PROVE  Story'
  BY <1>1, <1>2, <1>7, TaskTells
<1>8. ASSUME NEW r \in Ids, CreateLink(r) \/ UpdateLink(r) \/ DeleteLink(r)
      PROVE  Story'
  BY <1>1, <1>2, <1>8, EditTells
<1>9. CASE UNCHANGED tenderVars
  <2>1. UNCHANGED <<tasks, db, screen, calls, held, refresh, overtaken>>
    BY <1>9 DEF tenderVars, asideVars
  <2>2. Followed' /\ \A k \in Kinds : Place(k)' = Place(k)
    BY <1>2, <2>1, SamePlaces DEF Story
  <2>3. UNCHANGED <<GetTender, GetReqs, GetFog, GetMatrix>>
    BY <2>1, AnswersAlike
  <2>4. Waits' /\ HeldIsFresh' /\ HasWritten' /\ TenderStays'
    BY <1>1, <1>2, <2>1, <2>2, <2>3
       DEF Story, Waits, HeldIsFresh, HasWritten, TenderStays, TInv, Kinds
  <2>5. Phase'
    BY <1>2, <2>1, <2>2 DEF Story, Phase, Extracted, Untouched, Linkless, Kinds
  <2>6. Tells'
    BY <1>2, <2>1, <2>2, <2>3
       DEF Story, Tells, TellsTender, TellsReqs, TellsFog, TellsMatrix, Kinds
  <2> QED
    BY <2>2, <2>4, <2>5, <2>6 DEF Story
<1> QED
  BY <1>3, <1>4, <1>5, <1>6, <1>7, <1>8, <1>9 DEF TenderNext

\* When no task is asked for, tracked or being read, each part of the screen is
\* empty or what the main process would answer, however imports, extractions,
\* fog maps, matrices, addenda, edits and mounts have overlapped - unless the
\* store let go of a task, a task failed between two writes, or a handler set a
\* matrix the user changed while it was reading on (analysisStore.ts and the
\* task monitor of useAnalysis.ts).
THEOREM ScreenAlwaysTells == TenderSpec => []ScreenTells
<1>1. TenderInit => TellsInv
  BY TellsInit
<1>2. TellsInv /\ [TenderNext]_tenderVars => TellsInv'
  BY TellsInvNext
<1>3. TellsInv => ScreenTells
  BY TellsIsScreenTells
<1> QED
  BY <1>1, <1>2, <1>3, PTL DEF TenderSpec

-----------------------------------------------------------------------------
(***************************************************************************)
(* The nested analyses on the queue.                                       *)
(***************************************************************************)

\* Nobody retries a task of an analysis by hand, so the queue does not count
\* further than its own retries.
NestedBound ==
  /\ \A t \in Tasks : retryCount[t] \in 0..MaxRetries
  /\ \A r \in Runs : /\ pc[r] # "retrying"
                     /\ pc[r] = "writeRetry" => seen[r] + 1 \in 0..MaxRetries

NestedInv == TypeOK /\ NestedBound

\* A run gets to the count only by reading it.
LEMMA CountsStay ==
  ASSUME NestedBound, retryCount' = retryCount,
         \A q \in Runs : pc'[q] \in {"retrying", "writeRetry"} => pc'[q] = pc[q] /\ seen'[q] = seen[q]
  PROVE  NestedBound'
BY DEF NestedBound

LEMMA EndStays ==
  ASSUME NestedInv, NEW r \in Runs, NEW outcome, End(r, outcome), retryCount' = retryCount
  PROVE  NestedBound'
<1>1. \A q \in Runs : q # r => seen'[q] = seen[q]
  BY DEF End, Finally, FinallyTail, NestedInv, TypeOK
<1>2. \A q \in Runs : pc'[q] \in {"retrying", "writeRetry"} => q # r /\ pc'[q] = pc[q]
  BY DEF End, Finally, ProcessQueue, Goto, NestedInv, TypeOK
<1> QED BY <1>1, <1>2, CountsStay DEF NestedInv

LEMMA CatchPlaceStays ==
  ASSUME NEW r \in Runs, NEW raised
  PROVE  CatchPlace(r, raised) \notin {"retrying", "writeRetry"}
BY DEF CatchPlace

LEMMA RunStepStays ==
  ASSUME NestedInv, NEW r \in Runs, RunStep(r)
  PROVE  NestedBound'
<1> USE DEF NestedInv
<1>1. CASE Execute(r) \/ Recover(r)
  BY <1>1, CountsStay DEF Execute, Recover, CallExecute, Goto, TypeOK, rows, runVars
<1>2. CASE ExecuteFound(r) \/ DequeuedFound(r)
  BY <1>2, CountsStay DEF ExecuteFound, DequeuedFound, ExecuteTask, Goto, TypeOK, rows, runVars
<1>3. CASE MarkRunning(r)
  BY <1>3, CountsStay, CatchPlaceStays DEF MarkRunning, Goto, TypeOK, runVars
<1>4. CASE WriteCompleted(r)
  <2>1. CASE WriteFinal(r, "completed")
    BY <2>1, EndStays DEF WriteFinal
  <2>2. CASE ~WriteFinal(r, "completed")
    BY <1>4, <2>2, CountsStay, CatchPlaceStays DEF WriteCompleted, Goto, TypeOK, rows, runVars
  <2> QED BY <2>1, <2>2
<1>5. CASE WriteTimedOut(r) \/ WriteCancelled(r) \/ WriteFailed(r)
  BY <1>5, EndStays DEF WriteTimedOut, WriteCancelled, WriteFailed, WriteFinal
<1>6. CASE RowGone(r)
  BY <1>6, EndStays DEF RowGone, rows
<1>7. CASE CheckRetry(r)
  <2> DEFINE t == TaskOf(r)
  <2>1. /\ t \in Tasks /\ retryCount' = retryCount /\ seen' = [seen EXCEPT ![r] = retryCount[t]]
        /\ pc' = [pc EXCEPT ![r] = IF retryCount[t] < MaxRetries THEN "writeRetry" ELSE "writeFailed"]
    BY <1>7 DEF CheckRetry, Goto, TaskOf, Runs, rows
  <2>2. /\ \A q \in Runs : q # r => pc'[q] = pc[q] /\ seen'[q] = seen[q]
        /\ seen'[r] = retryCount[t]
        /\ pc'[r] = IF retryCount[t] < MaxRetries THEN "writeRetry" ELSE "writeFailed"
    BY <2>1 DEF TypeOK
  <2>3. retryCount[t] < MaxRetries => retryCount[t] + 1 \in 0..MaxRetries
    BY <2>1, QueueAssumption DEF NestedBound
  <2> QED BY <2>1, <2>2, <2>3 DEF NestedBound
<1>8. CASE WriteRetry(r)
  <2> DEFINE t == TaskOf(r)
  <2>1. /\ pc[r] = "writeRetry" /\ retryCount' = [retryCount EXCEPT ![t] = seen[r] + 1]
        /\ pc' = [pc EXCEPT ![r] = "reread"] /\ seen' = seen
    BY <1>8 DEF WriteRetry, Goto, runVars
  <2>2. \A u \in Tasks : retryCount'[u] \in 0..MaxRetries
    BY <2>1 DEF NestedBound, TypeOK
  <2>3. \A q \in Runs : pc'[q] \in {"retrying", "writeRetry"} => pc'[q] = pc[q]
    BY <2>1 DEF TypeOK
  <2> QED BY <2>1, <2>2, <2>3 DEF NestedBound
<1>9. CASE RetryAttempt(r)
  <2>1. \A q \in Runs : q # r => seen'[q] = seen[q]
    BY <1>9 DEF RetryAttempt, TypeOK
  <2>2. \A q \in Runs : pc'[q] \in {"retrying", "writeRetry"} => q # r /\ pc'[q] = pc[q]
    BY <1>9 DEF RetryAttempt, ProcessQueue, Goto, TypeOK
  <2> QED BY <1>9, <2>1, <2>2, CountsStay DEF RetryAttempt, rows
<1>10. CASE RetryWrite(r)
  BY <1>10 DEF RetryWrite, NestedBound
<1> QED BY <1>1, <1>2, <1>3, <1>4, <1>5, <1>6, <1>7, <1>8, <1>9, <1>10 DEF RunStep

LEMMA EnqueueStays ==
  ASSUME NestedInv, NEW r \in Runs, Enqueue(r)
  PROVE  NestedBound'
BY CountsStay DEF Enqueue, Goto, NestedInv, TypeOK, runVars

LEMMA ExecutorEndsStays ==
  ASSUME NestedInv, NEW r \in Runs, NEW outcome, ExecutorEnds(r, outcome)
  PROVE  NestedBound'
BY CountsStay, CatchPlaceStays DEF ExecutorEnds, Goto, NestedInv, TypeOK, rows, runVars

LEMMA TimerFiresStays ==
  ASSUME NestedInv, NEW r \in Runs, TimerFires(r)
  PROVE  NestedBound'
BY CountsStay DEF TimerFires, NestedInv, rows

\* The task of the attempt an analysis is making is a task of the queue.
LEMMA InnerIsTask ==
  ASSUME NestedInv, NEW r \in Runs
  PROVE  <<Inner(r), r[2]>> \in Runs
<1>1. r = <<r[1], r[2]>> /\ r[1] \in Tasks /\ r[2] \in Calls
  BY DEF Runs
<1>2. Analysis(r) \in Analyses
  BY <1>1, NestedAssumption DEF AnalysisTasks, Analysis, TaskOf
<1>3. retryCount[TaskOf(r)] + 1 \in 0..(MaxRetries + 1)
  BY <1>1, QueueAssumption DEF NestedInv, NestedBound, TaskOf
<1>4. Inner(r) \in Tasks
  BY <1>2, <1>3, NestedAssumption DEF Inner, AnalysisTasks
<1> QED BY <1>1, <1>4 DEF Runs

\* Every step of an analysis is a step of the queue.
LEMMA NestedStepIsQueueStep ==
  ASSUME NestedInv, [NestedNext]_nestedVars
  PROVE  [Next]_vars /\ NestedBound'
<1>1. CASE UNCHANGED nestedVars
  <2>1. UNCHANGED vars
    BY <1>1 DEF nestedVars
  <2>2. retryCount' = retryCount /\ pc' = pc /\ seen' = seen
    BY <2>1 DEF vars
  <2> QED BY <2>1, <2>2, CountsStay DEF NestedInv
<1>2. ASSUME NEW r \in Runs, Request(r)
      PROVE  Next /\ NestedBound'
  BY <1>2, EnqueueStays DEF Request, Next
<1>3. ASSUME NEW r \in Runs, StartAgent(r)
      PROVE  Next /\ NestedBound'
  <2>1. Enqueue(<<Inner(r), r[2]>>) /\ <<Inner(r), r[2]>> \in Runs
    BY <1>3, InnerIsTask DEF StartAgent
  <2> QED BY <2>1, EnqueueStays DEF Next
<1>4. ASSUME NEW r \in Runs, PollEnds(r) \/ Deadline(r) \/ Heed(r)
      PROVE  Next /\ NestedBound'
  <2>1. PICK outcome \in Outcomes : ExecutorEnds(r, outcome)
    BY <1>4 DEF PollEnds, Deadline, Heed, Stop, Outcomes
  <2> QED BY <2>1, ExecutorEndsStays DEF Next, ExecutorStep
<1>5. ASSUME NEW r \in Runs, AgentStep(r)
      PROVE  Next /\ NestedBound'
  <2>1. PICK outcome \in Outcomes : ExecutorEnds(r, outcome)
    BY <1>5 DEF AgentStep, ExecutorStep
  <2> QED BY <2>1, ExecutorEndsStays DEF Next, ExecutorStep
<1>6. ASSUME NEW r \in Runs, RunStep(r)
      PROVE  Next /\ NestedBound'
  BY <1>6, RunStepStays DEF Next
<1>7. ASSUME NEW r \in Runs, TimerFires(r)
      PROVE  Next /\ NestedBound'
  BY <1>7, TimerFiresStays DEF Next
<1>8. CASE NestedNext
  BY <1>2, <1>3, <1>4, <1>5, <1>6, <1>7, <1>8 DEF NestedNext, Resumes, OuterStep
<1> QED BY <1>1, <1>8

LEMMA NestedStarts == NestedInit => NestedInv
BY InitTypeOK, QueueAssumption DEF NestedInit, NestedInv, NestedBound, Init

\* An analysis that polls its agent's task does nothing to the queue that a
\* client of it may not do: every behaviour of any number of analyses, with any
\* of them deaf or without a deadline, is a behaviour of TaskQueue, and no
\* attempt is counted beyond the retries there are.
THEOREM NestedTasksAreClients == NestedSpec => Spec /\ []NestedBound
<1>1. NestedInit => Init /\ NestedInv
  BY NestedStarts DEF NestedInit
<1>2. NestedInv /\ [NestedNext]_nestedVars => [Next]_vars /\ NestedInv'
  BY NestedStepIsQueueStep, TypePreserved DEF NestedInv
<1>3. NestedInv => NestedBound
  BY DEF NestedInv
<1> QED BY <1>1, <1>2, <1>3, PTL DEF NestedSpec, Spec

\* So the analyses share the slots as every client does: an outer task that
\* waits for an inner one neither leaks a slot nor leaves one free while a task
\* waits in the queue.
THEOREM NestedSlotsAccounted ==
  NestedSpec => [](TypeOK /\ SlotsAccounted /\ QueuedOnlyWhenFull)
BY NestedTasksAreClients, TypeCorrect, SlotsAreAccounted, NoLostWakeUp, PTL

-----------------------------------------------------------------------------
(***************************************************************************)
(* Document, tender and nested analyses together.                          *)
(***************************************************************************)

\* The types of the three parts hold also where a part rests; each part keeps
\* its own, whichever of them moves.
ProjectInv == DocumentTypeOK /\ TellsInv /\ NestedInv

LEMMA DocumentRestsTyped == DocumentRests => DocumentTypeOK
<1>1. Skeleton \subseteq Changes
  BY AutosaveAssumption
<1>2. MaxFileFaults \in Nat /\ MaxSidecarFaults \in Nat
  BY DocumentFileAssumption
<1> SUFFICES ASSUME DocumentRests PROVE DocumentTypeOK
  OBVIOUS
<1>3. faults \in [{"file", "sidecar"} -> Nat]
  BY <1>2 DEF DocumentRests, FileInit
<1>4. proposal \in Content /\ sequence \in Nat /\ saves \subseteq Save
  BY <1>1 DEF DocumentRests, FileInit, Content
<1>5. {editor, content, got, done, cleared, index} \subseteq Content
  BY <1>1 DEF DocumentRests, Content
<1>6. mut \in [at : MutationPlaces, heard : BOOLEAN, base : Content, new : Content]
  BY DEF DocumentRests, Idle, MutationPlaces, Content
<1> QED BY <1>3, <1>4, <1>5, <1>6 DEF DocumentRests, DocumentTypeOK

LEMMA ProjectStarts == ProjectInit => ProjectInv
<1>1. ProjectInit => TenderInit
  BY DEF ProjectInit, TenderRests
<1>2. ProjectInit => DocumentTypeOK
  BY TypeInit, DocumentRestsTyped DEF ProjectInit
<1>3. ProjectInit => NestedInv
  BY NestedStarts DEF ProjectInit
<1> QED BY <1>1, <1>2, <1>3, TellsInit DEF ProjectInv

LEMMA ProjectStep == ProjectInv /\ [ProjectNext]_projectVars => ProjectInv'
<1> SUFFICES ASSUME ProjectInv, [ProjectNext]_projectVars PROVE ProjectInv'
  OBVIOUS
<1>1. /\ [DocumentNext]_documentVars /\ [TenderNext]_tenderVars
      /\ [NestedNext]_nestedVars
  BY DEF ProjectNext, projectVars
<1>2. DocumentTypeOK'
  BY <1>1, TypeNext DEF ProjectInv
<1>3. TellsInv'
  BY <1>1, TellsInvNext DEF ProjectInv
<1>4. NestedInv'
  BY <1>1, NestedStepIsQueueStep, TypePreserved DEF ProjectInv, NestedInv
<1> QED BY <1>2, <1>3, <1>4 DEF ProjectInv

\* Whichever of them moves, the variables of document, tender and analyses keep
\* their types, the rows their foreign keys, and the screen tells the rows.
THEOREM ProjectTypeCorrect == ProjectSpec => [](ProjectTypeOK /\ ScreenTells)
<1>1. ProjectInv => TenderTypeOK
  BY TInvIsType DEF ProjectInv, TellsInv
<1>2. ProjectInv => ProjectTypeOK /\ ScreenTells
  BY <1>1, TellsIsScreenTells DEF ProjectInv, ProjectTypeOK, NestedInv
<1> QED BY <1>2, ProjectStarts, ProjectStep, PTL DEF ProjectSpec
=============================================================================
