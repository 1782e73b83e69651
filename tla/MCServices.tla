----------------------------- MODULE MCServices -----------------------------
(* The services that share no state with each other, one behaviour for each:  *)
(* the initial state chooses the part that moves, the others rest.            *)
EXTENDS StructureDelete, ChapterTree, DocxProcess, ChapterIdentity

VARIABLE part

vars == <<part, deleteVars, treeVars, docxVars, identityVars>>

TreeRests ==
  /\ outline = <<>> /\ index = <<>>
  /\ undoable = NoUndo /\ touched = FALSE /\ tangled = FALSE

DocxRests ==
  /\ pythons = [p \in Pythons |-> "unborn"] /\ killed = {}
  /\ child = 0 /\ port = 0 /\ pipe = {} /\ announced = {}
  /\ frames = [x \in Actors |-> At(IF x = "quit" THEN "done" ELSE "idle")]
  /\ jobs = <<>> /\ intentionalStop = TRUE /\ health = FALSE /\ probe = 0
  /\ consecutiveFailures = 0 /\ gaveUp = FALSE /\ late = FALSE /\ calm = FALSE

IdentityRests ==
  /\ version = 2 /\ memoed = TRUE /\ migrating = "no"
  /\ entryId = [c \in Numbered |-> InForm("none")] /\ templateKey = {}
  /\ wrote = [s \in Written |-> "none"]
  /\ refs = [s \in RefStores |-> [c \in Numbered |-> InForm("none")]]
  /\ progress = Unbound /\ legacyMap = Unbound
  /\ nextUuid = 1 /\ unscanned = FALSE /\ mishaps = 0

Init ==
  \/ part = "delete" /\ DeleteInit /\ TreeRests /\ DocxRests /\ IdentityRests
  \/ part = "tree" /\ DeleteInit /\ TreeInit /\ DocxRests /\ IdentityRests
  \/ part = "docx" /\ DeleteInit /\ TreeRests /\ DocxInit /\ IdentityRests
  \/ part = "identity" /\ DeleteInit /\ TreeRests /\ DocxRests /\ IdentityInit

Next ==
  /\ UNCHANGED part
  /\ \/ part = "delete" /\ DeleteNext /\ UNCHANGED <<treeVars, docxVars, identityVars>>
     \/ part = "tree" /\ TreeNext /\ UNCHANGED <<deleteVars, docxVars, identityVars>>
     \/ part = "docx" /\ DocxNext /\ UNCHANGED <<deleteVars, treeVars, identityVars>>
     \/ part = "identity" /\ IdentityNext /\ UNCHANGED <<deleteVars, treeVars, docxVars>>

\* No fair action of a part is enabled where that part rests.
Spec ==
  /\ Init /\ [][Next]_vars
  /\ DeleteFairness /\ DocxFairness /\ IdentityFairness

ServicesTypeOK == DeleteTypeOK /\ TreeTypeOK /\ DocxTypeOK /\ IdentityTypeOK
=============================================================================
