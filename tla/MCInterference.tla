--------------------------- MODULE MCInterference ----------------------------
(* The task queue and the document under everything that may come between: in *)
(* the queue a cancel, a deletion, a manual retry and a restart; around the   *)
(* editor its user's coming and going, the closing of the window, a crash and *)
(* failures of the disk.  The initial state chooses the part that moves, the  *)
(* other rests.                                                               *)
EXTENDS MCTaskQueue, MCDocument

VARIABLE part

interferenceVars == <<part, vars, documentVars>>

\* Nothing moves in the queue before the first Enqueue.
InterferenceInit ==
  /\ part \in {"queue", "document"} /\ Init
  /\ IF part = "document" THEN DocumentInit ELSE DocumentRests

\* Any three of the four things that may come between.
ThreeOfFour == \E what \in DOMAIN budget : budget[what] > 0

InterferenceNext ==
  /\ UNCHANGED part
  /\ \/ part = "queue" /\ Next /\ ThreeOfFour' /\ UNCHANGED documentVars
     \/ part = "document" /\ DocumentNext /\ UNCHANGED vars

InterferenceSpec == InterferenceInit /\ [][InterferenceNext]_interferenceVars

=============================================================================
