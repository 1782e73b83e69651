------------------------------ MODULE MCProject ------------------------------
(* What the user does in a project apart from the chapters' generation, each  *)
(* with behaviours of its own: editing the document, analysing the tender,    *)
(* and two analyses whose tasks wait for the tasks of their agents.  The      *)
(* initial state chooses the part that moves, the others rest.                *)
EXTENDS MCDocument, TenderAnalysis, MCNested

VARIABLE part

projectVars == <<part, documentVars, tenderVars, nestedVars>>

TenderRests == TenderInit /\ tasks = <<>>

ProjectInit ==
  /\ NestedInit
  /\ \/ part = "document" /\ DocumentInit /\ TenderRests
     \/ part = "tender" /\ DocumentRests /\ TenderInit
     \/ part = "nested" /\ DocumentRests /\ TenderRests

ProjectNext ==
  /\ UNCHANGED part
  /\ \/ part = "document" /\ DocumentNext /\ UNCHANGED <<tenderVars, nestedVars>>
     \/ part = "tender" /\ TenderNext /\ UNCHANGED <<documentVars, nestedVars>>
     \/ part = "nested" /\ NestedNext /\ UNCHANGED <<documentVars, tenderVars>>

\* NestedFairness, looked at only where the analyses are the part that moves.
NestedMoves ==
  \A r \in Runs :
    /\ WF_nestedVars(part = "nested" /\ Resumes(r))
    /\ WF_nestedVars(part = "nested" /\ TimerFires(r) /\ UNCHANGED polling)

\* No fair action of a part is enabled where that part rests.
ProjectSpec ==
  /\ ProjectInit /\ [][ProjectNext]_projectVars
  /\ DocumentFairness /\ TenderFairness /\ NestedMoves

ProjectTypeOK == DocumentTypeOK /\ TenderTypeOK /\ TypeOK
=============================================================================
