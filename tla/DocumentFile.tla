---------------------------- MODULE DocumentFile ----------------------------
(* The main process's side of a proposal document: documentService.save and  *)
(* saveSync (main/services/document-service.ts) on the proposal.md of one     *)
(* project.  A content is the set of changes it contains: a later content     *)
(* that lacks a change of an earlier one has lost it.                         *)
(*                                                                            *)
(* Every save has a temporary file of its own, so its data is the record of   *)
(* the save; .prev.bak is written and never read, so only the wait for it is  *)
(* kept.  The sequence number is compared for equality with the latest one    *)
(* only, so that a restart need not set it back.                              *)
EXTENDS Integers, FiniteSets

CONSTANTS Changes,                    \* every change the document may undergo
          MaxFileFaults, MaxSidecarFaults \* bounds on file operations that fail

ASSUME DocumentFileAssumption ==
  IsFiniteSet(Changes) /\ MaxFileFaults \in Nat /\ MaxSidecarFaults \in Nat

VARIABLES proposal,   \* the content of proposal.md
          sequence,   \* latestSaveSequenceByProject
          saves,      \* the calls of save() that were not answered yet
          faults      \* the file operations that may still fail

fileVars == <<proposal, sequence, saves, faults>>

Content == SUBSET Changes

\* What a save waits for, or its answer.
SavePlaces == {"read", "tmp", "backup", "rename", "meta", "ok", "error"}

Save == [seq : Nat, by : {"store", "structure"}, content : Content,
         found : Content, at : SavePlaces]

FileInit ==
  /\ sequence = 0
  /\ saves = {}
  /\ faults = [file |-> MaxFileFaults, sidecar |-> MaxSidecarFaults]

\* Operators named ...Mutant are plausible mistakes in the definition that
\* follows them; they are not part of the system.

\* The guard compares the wrong way round.
CollapsesMutant(old, new) == old = {} /\ new # {}

\* evaluateShrinkGuard: a document with content is not replaced by an empty
\* one (every non-empty content stands for one of at least 100 characters).
Collapses(old, new) == old # {} /\ new = {}

\* beginSave
Submit(by, content) ==
  /\ sequence' = sequence + 1
  /\ saves' = saves \cup {[seq |-> sequence + 1, by |-> by,
                           content |-> content, found |-> {}, at |-> "read"]}

Goes(s, place) == saves' = (saves \ {s}) \cup {[s EXCEPT !.at = place]}

Fails(kind) == faults[kind] > 0 /\ faults' = [faults EXCEPT ![kind] = @ - 1]

\* The content that is to be replaced is read; a failure skips the guard.
SaveReads(s) ==
  /\ s.at = "read"
  /\ \/ /\ saves' = (saves \ {s}) \cup
             {[s EXCEPT !.found = proposal,
                        !.at = IF Collapses(proposal, s.content) THEN "error"
                               ELSE "tmp"]}
        /\ UNCHANGED faults
     \/ Fails("file") /\ Goes(s, "tmp")
  /\ UNCHANGED <<proposal, sequence>>

\* The temporary file is written; a superseded save ends here and reports
\* success.
SaveWritesTmp(s) ==
  /\ s.at = "tmp"
  /\ \/ /\ Goes(s, IF s.seq # sequence THEN "ok"
                   ELSE IF s.found # {} THEN "backup" ELSE "rename")
        /\ UNCHANGED faults
     \/ Fails("file") /\ Goes(s, "error")
  /\ UNCHANGED <<proposal, sequence>>

\* The backup is written, or is not: the save goes on.
SaveWritesBackup(s) ==
  /\ s.at = "backup"
  /\ Goes(s, "rename")
  /\ UNCHANGED <<proposal, sequence, faults>>

\* The rename; no second look at the sequence before it.
SaveRenames(s) ==
  /\ s.at = "rename"
  /\ \/ /\ proposal' = s.content
        /\ Goes(s, IF s.seq = sequence THEN "meta" ELSE "ok")
        /\ UNCHANGED faults
     \/ Fails("file") /\ Goes(s, "error") /\ UNCHANGED proposal
  /\ UNCHANGED sequence

\* lastSavedAt goes to the sidecar; a failure is reported as a failed save.
SaveWritesMeta(s) ==
  /\ s.at = "meta"
  /\ \/ Goes(s, "ok") /\ UNCHANGED faults
     \/ Fails("sidecar") /\ Goes(s, "error")
  /\ UNCHANGED <<proposal, sequence>>

SaveStep ==
  \E s \in saves : \/ SaveReads(s) \/ SaveWritesTmp(s) \/ SaveWritesBackup(s)
                   \/ SaveRenames(s) \/ SaveWritesMeta(s)

\* saveSync, from its first line to its last
SaveSyncWrites(content) ==
  /\ ~Collapses(proposal, content)
  /\ sequence' = sequence + 1
  /\ proposal' = content
  /\ UNCHANGED <<saves, faults>>

\* Refused, or failed before the rename, or after it.
SaveSyncFails(content) ==
  /\ \/ Collapses(proposal, content) /\ UNCHANGED <<proposal, faults>>
     \/ Fails("file") /\ UNCHANGED proposal
     \/ ~Collapses(proposal, content) /\ Fails("sidecar") /\ proposal' = content
  /\ sequence' = sequence + 1
  /\ UNCHANGED saves
=============================================================================
