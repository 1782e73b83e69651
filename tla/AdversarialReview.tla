------------------------- MODULE AdversarialReview --------------------------
(* The adversarial review of a proposal (services/                            *)
(* adversarial-review-service.ts, db/repositories/adversarial-review-repo.ts):*)
(* a full review lets every role of the line-up attack the text in parallel,  *)
(* and a role that failed can be tried again alone.  Both are tasks of the    *)
(* queue, which repeats an attempt that throws; both rewrite the one session  *)
(* row of the project from a copy they have read some awaits before.          *)
(*                                                                            *)
(* A role's answer is one finding or none.  Sort orders, wording and          *)
(* locators are left out.  The slots of the queue are not the subject here.   *)
EXTENDS Naturals, FiniteSets

CONSTANTS Roles,             \* the roles of the confirmed line-up
          MaxReviews,        \* bound: tasks in a behaviour
          MaxReviewRetries,  \* maxRetries of a task
          MaxReviewMishaps   \* bound: database errors, timeouts and crashes

Everyone == "everyone"            \* whom a full review is about

ASSUME ReviewAssumption ==
  /\ IsFiniteSet(Roles) /\ Everyone \notin Roles
  /\ {MaxReviews, MaxReviewRetries, MaxReviewMishaps} \subseteq Nat

VARIABLES
  session,      \* the row: status and roleResults
  findings,     \* the rows of adversarialFindings
  verdicts,     \* those the user has accepted, rejected or left open
  badged,       \* those with a contradictionGroupId
  reviews,      \* the tasks: the await each stands at and what it has read
  tracked,      \* reviewTaskId of the renderer, 0 when there is none
  undisturbed,  \* history: no mishap, and no task has met another one
  reviewMishaps \* what is left of the bound

reviewVars == <<session, findings, verdicts, badged, reviews, tracked,
                undisturbed, reviewMishaps>>

ReviewTasks == 1..MaxReviews
Finding == [role : Roles, by : ReviewTasks, attempt : 0..MaxReviewRetries]

FullPlaces == {"begin", "roles", "clear", "close", "store"}
RetryPlaces == {"mark", "call", "drop", "insert", "reread", "reset", "finish",
                "error", "blame"}
ReviewPlaces == {"unused", "start", "detect", "ended"} \cup FullPlaces \cup RetryPlaces

AllRoles(result) == [r \in Roles |-> result]
NoSession == [status |-> "none", results |-> AllRoles("pending")]

\* An attempt at its beginning.
Attempt(whom, n) ==
  [at |-> "start", whom |-> whom, attempt |-> n, expired |-> FALSE,
   copy |-> NoSession, raised |-> {}, seen |-> {}, pair |-> {}]

Unused == [Attempt(Everyone, 0) EXCEPT !.at = "unused"]
Over == [Attempt(Everyone, 0) EXCEPT !.at = "ended"]

Working(t) == reviews[t].at \notin {"unused", "ended"}
Quiet == \A t \in ReviewTasks : ~Working(t)
Stands(t, place) == reviews[t].at = place
IsFull(t) == reviews[t].whom = Everyone
FindingOf(t, r) == [role |-> r, by |-> t, attempt |-> reviews[t].attempt]

ReviewInit ==
  /\ session = NoSession
  /\ findings = {} /\ verdicts = {} /\ badged = {}
  /\ reviews = [t \in ReviewTasks |-> Unused]
  /\ tracked = 0 /\ undisturbed = TRUE
  /\ reviewMishaps = MaxReviewMishaps

Becomes(t, task) == reviews' = [reviews EXCEPT ![t] = task]
Proceeds(t, place) == reviews' = [reviews EXCEPT ![t].at = place]

\* The executor throws: the queue begins another attempt, unless the signal is
\* aborted or no attempt is left.
Throws(t) ==
  LET task == reviews[t] IN
  Becomes(t, IF task.expired \/ task.attempt = MaxReviewRetries
             THEN Over
             ELSE Attempt(task.whom, task.attempt + 1))

unchangedRows == <<findings, verdicts, badged>>
outside == <<tracked, undisturbed, reviewMishaps>>

\* Delete the rows of some findings.
Deletes(gone) ==
  /\ findings' = findings \ gone
  /\ verdicts' = verdicts \ gone
  /\ badged' = badged \ gone

-----------------------------------------------------------------------------
(* A full review: the executor of startExecution *)

\* Everything is loaded, then saveSession makes or resets the row.
SaveSession(t) ==
  /\ Stands(t, "start") /\ IsFull(t)
  /\ session' = [status |-> "running", results |-> AllRoles("pending")]
  /\ Proceeds(t, "begin")
  /\ UNCHANGED <<unchangedRows, outside>>

\* Every role is marked as running before any of them gets an answer.
RolesBegin(t) ==
  LET begun == [status |-> "running", results |-> AllRoles("running")] IN
  /\ Stands(t, "begin")
  /\ IF reviews[t].expired
     THEN Throws(t) /\ UNCHANGED session
     ELSE /\ session' = begun
          /\ Becomes(t, [reviews[t] EXCEPT !.at = "roles", !.copy = begun])
  /\ UNCHANGED <<unchangedRows, outside>>

\* The AI call of one role returns: the array all roles share is written.
RoleAnswers(t, r) ==
  /\ Stands(t, "roles") /\ ~reviews[t].expired
  /\ reviews[t].copy.results[r] = "running"
  /\ \E result \in {"success", "failed"}, raises \in SUBSET {r} :
       /\ result = "failed" => raises = {}
       /\ session' = [reviews[t].copy EXCEPT !.results[r] = result]
       /\ Becomes(t, [reviews[t] EXCEPT !.copy.results[r] = result,
                                        !.raised = @ \cup raises])
  /\ UNCHANGED <<unchangedRows, outside>>

\* Promise.allSettled: every role has answered or was aborted.
Tally(t) ==
  LET results == reviews[t].copy.results IN
  /\ Stands(t, "roles")
  /\ reviews[t].expired \/ \A r \in Roles : results[r] # "running"
  /\ IF \A r \in Roles : results[r] # "success"
     THEN session' = [status |-> "failed", results |-> results] /\ Throws(t)
     ELSE /\ UNCHANGED session
          /\ IF reviews[t].expired THEN Throws(t)
             ELSE Proceeds(t, IF Cardinality(reviews[t].raised) >= 2
                              THEN "detect" ELSE "clear")
  /\ UNCHANGED <<unchangedRows, outside>>

\* No pair, or a failed call, or the pair of findings that contradict.
Contradictions(among) == {{}} \cup {p \in SUBSET among : Cardinality(p) = 2}

\* The contradiction detection of a full review changes nothing in the rows.
Detect(t) ==
  LET found == {FindingOf(t, r) : r \in reviews[t].raised} IN
  /\ Stands(t, "detect") /\ IsFull(t)
  /\ IF reviews[t].expired THEN Throws(t)
     ELSE \E pair \in Contradictions(found) :
            Becomes(t, [reviews[t] EXCEPT !.at = "clear", !.pair = pair])
  /\ UNCHANGED <<session, unchangedRows, outside>>

\* deleteFindingsBySessionId
Clear(t) ==
  /\ Stands(t, "clear") /\ Proceeds(t, "close")
  /\ Deletes(findings)
  /\ UNCHANGED <<session, outside>>

FinalStatus(results) ==
  IF \E r \in Roles : results[r] = "failed" THEN "partial" ELSE "completed"

Close(t) ==
  LET results == reviews[t].copy.results IN
  /\ Stands(t, "close") /\ Proceeds(t, "store")
  /\ session' = [status |-> FinalStatus(results), results |-> results]
  /\ UNCHANGED <<unchangedRows, outside>>

\* saveFindings, and the executor returns.
Store(t) ==
  /\ Stands(t, "store") /\ Becomes(t, Over)
  /\ findings' = findings \cup {FindingOf(t, r) : r \in reviews[t].raised}
  /\ badged' = badged \cup reviews[t].pair
  /\ UNCHANGED <<session, verdicts, outside>>

FullReview(t) ==
  \/ SaveSession(t) \/ RolesBegin(t) \/ \E r \in Roles : RoleAnswers(t, r)
  \/ Tally(t) \/ Detect(t) \/ Clear(t) \/ Close(t) \/ Store(t)

-----------------------------------------------------------------------------
(* One role again: the executor of retryRole *)

\* The session with another result for the task's role.
Revised(t, result) == [session EXCEPT !.results[reviews[t].whom] = result]

ReadSession(t) ==
  /\ Stands(t, "start") /\ ~IsFull(t)
  /\ Becomes(t, [reviews[t] EXCEPT !.at = "mark", !.copy = Revised(t, "running")])
  /\ UNCHANGED <<session, unchangedRows, outside>>

MarkRole(t) ==
  /\ Stands(t, "mark") /\ Proceeds(t, "call")
  /\ session' = reviews[t].copy
  /\ UNCHANGED <<unchangedRows, outside>>

\* The AI call: an abort passes through the catch block, an error does not.
CallRole(t) ==
  /\ Stands(t, "call")
  /\ IF reviews[t].expired THEN Throws(t)
     ELSE \/ Proceeds(t, "error")
          \/ \E raises \in SUBSET {reviews[t].whom} :
               Becomes(t, [reviews[t] EXCEPT !.at = "drop", !.raised = raises])
  /\ UNCHANGED <<session, unchangedRows, outside>>

\* The findings of every role go.
DropFindingsMutant(t) ==
  /\ Stands(t, "drop") /\ Proceeds(t, "insert")
  /\ Deletes(findings)
  /\ UNCHANGED <<session, outside>>

\* deleteFindingsByRoleId
DropFindings(t) ==
  /\ Stands(t, "drop") /\ Proceeds(t, "insert")
  /\ Deletes({f \in findings : f.role = reviews[t].whom})
  /\ UNCHANGED <<session, outside>>

InsertFindings(t) ==
  /\ Stands(t, "insert") /\ Proceeds(t, "reread")
  /\ findings' = findings \cup {FindingOf(t, r) : r \in reviews[t].raised}
  /\ UNCHANGED <<session, verdicts, badged, outside>>

\* The "fresh" session: the final status and results are computed from it
\* here and written after the next AI call.
Reread(t) ==
  LET results == Revised(t, "success").results IN
  /\ Stands(t, "reread")
  /\ Becomes(t, [reviews[t] EXCEPT
                   !.at = "reset", !.seen = findings,
                   !.copy = [status |-> FinalStatus(results), results |-> results]])
  /\ UNCHANGED <<session, unchangedRows, outside>>

\* resetContradictionGroups, of every role
ResetGroups(t) ==
  LET several == Cardinality({f.role : f \in reviews[t].seen}) >= 2 IN
  /\ Stands(t, "reset") /\ Proceeds(t, IF several THEN "detect" ELSE "finish")
  /\ badged' = {}
  /\ UNCHANGED <<session, findings, verdicts, outside>>

\* The AI call and setContradictionGroup; its update finds the rows that are
\* still there.
DetectAgain(t) ==
  /\ Stands(t, "detect") /\ ~IsFull(t)
  /\ IF reviews[t].expired THEN Throws(t) /\ UNCHANGED badged
     ELSE /\ Proceeds(t, "finish")
          /\ \E pair \in Contradictions(reviews[t].seen) :
               badged' = badged \cup (pair \cap findings)
  /\ UNCHANGED <<session, findings, verdicts, outside>>

Finish(t) ==
  /\ Stands(t, "finish") /\ Becomes(t, Over)
  /\ session' = reviews[t].copy
  /\ UNCHANGED <<unchangedRows, outside>>

\* The catch block: the role has failed again.
ReadForError(t) ==
  /\ Stands(t, "error")
  /\ Becomes(t, [reviews[t] EXCEPT !.at = "blame", !.copy = Revised(t, "failed")])
  /\ UNCHANGED <<session, unchangedRows, outside>>

\* The catch block does not write.
BlameMutant(t) ==
  /\ Stands(t, "blame") /\ Throws(t)
  /\ UNCHANGED <<session, unchangedRows, outside>>

Blame(t) ==
  /\ Stands(t, "blame") /\ Throws(t)
  /\ session' = reviews[t].copy
  /\ UNCHANGED <<unchangedRows, outside>>

RoleRetry(t) ==
  \/ ReadSession(t) \/ MarkRole(t) \/ CallRole(t) \/ DropFindings(t)
  \/ InsertFindings(t) \/ Reread(t) \/ ResetGroups(t) \/ DetectAgain(t)
  \/ Finish(t) \/ ReadForError(t) \/ Blame(t)

-----------------------------------------------------------------------------
(* What the user does, and what goes wrong *)

\* The renderer awaits the end of the task it has started last.
ReviewLoading == tracked # 0 /\ Working(tracked)

\* A task is enqueued and executed.
Launch(t, whom) ==
  /\ Stands(t, "unused") /\ \A u \in 1..(t - 1) : ~Stands(u, "unused")
  /\ Becomes(t, Attempt(whom, 0))
  /\ tracked' = t
  /\ undisturbed' = (undisturbed /\ Quiet)
  /\ UNCHANGED <<session, unchangedRows, reviewMishaps>>

\* The trigger's button, or the one of the panel when the review has failed.
StartReview(t) ==
  /\ \/ session.status = "failed"
     \/ session.status \in {"none", "running"} /\ ~ReviewLoading
  /\ Launch(t, Everyone)

\* The button of a failed role; the panel knows no role that is being retried.
RetryRole(t, r) ==
  /\ session.status \in {"partial", "completed", "running"}
  /\ session.status = "running" => ~ReviewLoading
  /\ session.results[r] = "failed"
  /\ Launch(t, r)

HandleFinding(f) ==
  /\ f \in findings \ verdicts
  /\ verdicts' = verdicts \cup {f}
  /\ UNCHANGED <<session, findings, badged, reviews, outside>>

Mishap ==
  /\ reviewMishaps > 0 /\ reviewMishaps' = reviewMishaps - 1
  /\ undisturbed' = FALSE

\* A database operation fails; a full review has no catch block of its own,
\* and that of a retry begins behind the first two.
Trips(t) ==
  /\ Mishap
  /\ Working(t) /\ reviews[t].at \notin {"roles", "call", "detect"}
  /\ IF reviews[t].at \in {"drop", "insert", "reread", "reset", "finish"}
     THEN Proceeds(t, "error")
     ELSE Throws(t)
  /\ UNCHANGED <<session, unchangedRows, tracked>>

\* The timeout of the queue; a repeated attempt has lost its timer.
Expires(t) ==
  /\ Mishap
  /\ Working(t) /\ reviews[t].attempt = 0 /\ ~reviews[t].expired
  /\ reviews' = [reviews EXCEPT ![t].expired = TRUE]
  /\ UNCHANGED <<session, unchangedRows, tracked>>

\* The application ends and starts again: nobody executes these tasks again.
Quits ==
  /\ Mishap /\ ~Quiet
  /\ reviews' = [t \in ReviewTasks |->
                   IF Working(t) THEN Over ELSE reviews[t]]
  /\ tracked' = 0
  /\ UNCHANGED <<session, unchangedRows>>

ReviewNext ==
  \/ \E t \in ReviewTasks : \/ FullReview(t) \/ RoleRetry(t)
                            \/ StartReview(t) \/ Trips(t) \/ Expires(t)
                            \/ \E r \in Roles : RetryRole(t, r)
  \/ \E f \in findings : HandleFinding(f)
  \/ Quits

ReviewSpec == ReviewInit /\ [][ReviewNext]_reviewVars

-----------------------------------------------------------------------------
Sessions == [status : {"none", "running", "partial", "completed", "failed"},
             results : [Roles -> {"pending", "running", "success", "failed"}]]

\* Every variable keeps its type, and only stored findings are marked.
ReviewTypeOK ==
  /\ session \in Sessions
  /\ findings \subseteq Finding
  /\ verdicts \subseteq findings /\ badged \subseteq findings
  /\ \A t \in ReviewTasks :
       /\ reviews[t].at \in ReviewPlaces
       /\ reviews[t].whom \in Roles \cup {Everyone}
       /\ reviews[t].attempt \in 0..MaxReviewRetries
       /\ reviews[t].copy \in Sessions
       /\ reviews[t].raised \subseteq Roles
       /\ reviews[t].seen \subseteq Finding /\ reviews[t].pair \subseteq Finding
  /\ tracked \in 0..MaxReviews
  /\ undisturbed \in BOOLEAN /\ reviewMishaps \in 0..MaxReviewMishaps

\* What the user has decided about a finding outlives everything but the
\* deletion of that finding by a full review or by a retry of its own role
\* ("preserving concurrent user actions"), whatever overlaps or breaks off.
VerdictsKept ==
  [][\A f \in verdicts \ verdicts' :
       /\ f \notin findings'
       /\ \E t \in ReviewTasks :
            /\ reviews[t].whom \in {Everyone, f.role}
            /\ reviews[t] # reviews'[t]]_reviewVars

\* When all is over, and no task has met another one or a mishap, the session,
\* its roles, the findings and the contradiction badges tell the same story:
\* every role has succeeded or can be tried again, the status says which, a
\* role's findings are those of its one success, and no badge is left single.
WholeWhenAlone ==
  undisturbed /\ Quiet /\ session.status # "none" =>
    /\ \A r \in Roles : session.results[r] \in {"success", "failed"}
    /\ session.status =
         IF \A r \in Roles : session.results[r] = "failed" THEN "failed"
         ELSE FinalStatus(session.results)
    /\ \A f, g \in findings : f.role = g.role => f = g
    /\ \A f \in findings : session.results[f.role] = "success"
    /\ Cardinality(badged) # 1
=============================================================================
