------------------------------- MODULE MCWork --------------------------------
(* The task queue without interference and the long works that are done on    *)
(* it: a batch of chapters, the generation of one chapter, and an adversarial *)
(* review.  They share no state here: the initial state chooses the part that *)
(* moves, the others rest.                                                    *)
EXTENDS MCSection, MCTaskQueue, MCBatch, AdversarialReview

CONSTANTS r1, r2

TwoRoles == {r1, r2}

VARIABLE part

work == <<part, vars, batchVars, sectionVars, reviewVars>>

BatchRests ==
  /\ alive = FALSE /\ tasks = {} /\ skips = {}
  /\ state = [i \in Sections |-> "pending"]
  /\ content = [i \in Sections |-> "none"]
  /\ retries = [i \in Sections |-> 0] /\ taskId = [i \in Sections |-> 0]
  /\ timers = [i \in Sections |-> 0]
  /\ shown = "gone" /\ failed = {} /\ result = {}
  /\ rushed = FALSE /\ faults = 0 /\ clicks = 0

\* Nothing moves in the queue before the first Enqueue, in the review before
\* the first StartReview, in the section before the user does something.
WorkInit ==
  /\ part \in {"queue", "batch", "section", "review"}
  /\ Init /\ SectionInit /\ ReviewInit
  /\ IF part = "batch" THEN BatchInit ELSE BatchRests

WorkNext ==
  /\ UNCHANGED part
  /\ \/ part = "queue" /\ Next /\ UNCHANGED <<batchVars, sectionVars, reviewVars>>
     \/ part = "batch" /\ BatchNext /\ UNCHANGED <<vars, sectionVars, reviewVars>>
     \/ part = "section" /\ SectionNext /\ UNCHANGED <<vars, batchVars, reviewVars>>
     \/ part = "review" /\ ReviewNext /\ UNCHANGED <<vars, batchVars, sectionVars>>

\* Fairness and the end of every executor's work, looked at only where the
\* queue is the part that moves.
QueueMoves ==
  /\ \A r \in Runs : /\ WF_vars(part = "queue" /\ RunStep(r))
                     /\ WF_vars(part = "queue" /\ TimerFires(r))
                     /\ WF_vars(part = "queue" /\ ExecutorStep(r))
  /\ \A t \in Tasks : WF_vars(part = "queue" /\ CancelStep(t))

WorkSpec ==
  /\ WorkInit /\ [][WorkNext]_work
  /\ QueueMoves
  /\ WF_batchVars(part = "batch" /\ Progress)
  /\ WF_sectionVars(part = "section" /\ SectionProgress)

-----------------------------------------------------------------------------
\* The variables of the four parts keep their types, also where a part rests.
WorkTypeOK == TypeOK /\ BatchTypeOK /\ SectionTypeOK /\ ReviewTypeOK

\* Every generation comes to its end, of a batch that is not given up and of a
\* chapter whose user stays with it (BatchSettles, SectionSettles).
GenerationSettles == BatchSettles /\ SectionSettles
=============================================================================
