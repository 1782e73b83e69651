----------------------------- MODULE WorkProofs -----------------------------
(***************************************************************************)
(* Proofs about what is done on the task queue.  For the adversarial       *)
(* review: what the user has decided is kept, whatever overlaps or breaks  *)
(* off, and a review that nothing disturbs ends with a session that tells  *)
(* what happened; for any roles, tasks and repetitions.  For queue, batch, *)
(* section and review together: their types.                               *)
(***************************************************************************)
EXTENDS MCWork, TaskQueueProofs, GenerationProofs, FiniteSetTheorems, TLAPS

(***************************************************************************)
(* The adversarial review.                                                 *)
(***************************************************************************)

TaskRecord ==
  [at : ReviewPlaces, whom : Roles \cup {Everyone},
   attempt : 0..MaxReviewRetries, expired : BOOLEAN, copy : Sessions,
   raised : SUBSET Roles, seen : SUBSET Finding, pair : SUBSET Finding]

\* The types, and what ties a task's place to whom it is about.
ReviewTyped ==
  /\ session \in Sessions
  /\ findings \subseteq Finding
  /\ verdicts \subseteq findings /\ badged \subseteq findings
  /\ reviews \in [ReviewTasks -> TaskRecord]
  /\ tracked \in 0..MaxReviews
  /\ undisturbed \in BOOLEAN /\ reviewMishaps \in 0..MaxReviewMishaps

Raised(t, x) == {[role |-> r, by |-> t, attempt |-> x.attempt] : r \in x.raised}

WellPlaced(t, x) ==
  /\ x.at \in FullPlaces => x.whom = Everyone
  /\ x.at \in RetryPlaces => x.whom # Everyone
  /\ x.at \in {"clear", "close", "store"} => x.pair \subseteq Raised(t, x)
  /\ x.at \notin {"clear", "close", "store"} => x.pair = {}

Placed == \A t \in ReviewTasks : WellPlaced(t, reviews[t])

-----------------------------------------------------------------------------
(* The story of a review that nothing disturbs *)

Few(pair) == pair = {} \/ Cardinality(pair) = 2
OneEach == \A f, g \in findings : f.role = g.role => f = g
Done(outcome) == outcome \in {"success", "failed"}
Again(who, outcome) == [session EXCEPT !.results[who] = outcome]

\* A full review starts without findings and stores its own at the end.
FullStory(x) ==
  /\ findings = {} /\ badged = {}
  /\ Few(x.pair)
  /\ x.at \in {"start", "begin"} => x.raised = {}
  /\ x.at \notin {"start", "begin"} =>
       \A r \in x.raised : x.copy.results[r] = "success"
  /\ x.at = "roles" =>
       \A r \in Roles : Done(x.copy.results[r]) \/ x.copy.results[r] = "running"
  /\ x.at \in {"detect", "clear", "close", "store"} =>
       /\ \A r \in Roles : Done(x.copy.results[r])
       /\ \E r \in Roles : x.copy.results[r] = "success"
  /\ x.at = "store" => session = [status |-> FinalStatus(x.copy.results),
                                  results |-> x.copy.results]

\* The retry of a role leaves what the others have, of whom one has succeeded.
RetryStory(x) ==
  LET again == Again(x.whom, "success").results IN
  /\ session.status = "partial"
  /\ \A q \in Roles \ {x.whom} : Done(session.results[q])
  /\ \E q \in Roles \ {x.whom} : session.results[q] = "success"
  /\ OneEach /\ Few(badged)
  /\ \A f \in findings : f.role # x.whom => session.results[f.role] = "success"
  /\ x.at \in {"start", "mark"} => session.results[x.whom] = "failed"
  /\ x.at \in {"start", "mark", "call", "error", "blame", "drop", "insert"} =>
       \A f \in findings : f.role # x.whom
  /\ x.at \in {"drop", "insert"} => x.raised \subseteq {x.whom}
  /\ x.at = "mark" => x.copy = Again(x.whom, "running")
  /\ x.at = "blame" => x.copy = Again(x.whom, "failed")
  /\ x.at \in {"reset", "detect", "finish"} =>
       x.copy = [status |-> FinalStatus(again), results |-> again]
  /\ x.at \in {"reset", "detect"} => x.seen = findings
  /\ x.at = "detect" => badged = {}

Story(x) == /\ ~x.expired
            /\ IF x.whom = Everyone THEN FullStory(x) ELSE RetryStory(x)

Settled ==
  \/ session.status = "none" /\ findings = {} /\ badged = {}
  \/ /\ \A r \in Roles : Done(session.results[r])
     /\ session.status = IF \A r \in Roles : session.results[r] = "failed"
                         THEN "failed" ELSE FinalStatus(session.results)
     /\ OneEach /\ Few(badged)
     /\ \A f \in findings : session.results[f.role] = "success"

Calm ==
  undisturbed =>
    /\ \A t, u \in ReviewTasks : Working(t) /\ Working(u) => t = u
    /\ \A t \in ReviewTasks : Working(t) => Story(reviews[t])
    /\ Quiet => Settled

ReviewInv == ReviewTyped /\ Placed /\ Calm

-----------------------------------------------------------------------------
(* What the helpers do to the tasks *)

LEMMA AttemptTyped ==
  ASSUME NEW whom \in Roles \cup {Everyone}, NEW n \in 0..MaxReviewRetries
  PROVE  Attempt(whom, n) \in TaskRecord
<1>1. NoSession \in Sessions
  BY DEF NoSession, Sessions, AllRoles
<1> QED BY <1>1 DEF Attempt, TaskRecord, ReviewPlaces

LEMMA OverTyped == Over \in TaskRecord /\ Over.at = "ended" /\ Over.pair = {}
<1>1. 0 \in 0..MaxReviewRetries
  BY ReviewAssumption
<1>2. Attempt(Everyone, 0) \in TaskRecord
  BY <1>1, AttemptTyped
<1>3. Attempt(Everyone, 0).pair = {}
  BY DEF Attempt
<1> QED BY <1>2, <1>3 DEF Over, TaskRecord, ReviewPlaces

LEMMA UnusedTyped ==
  Unused \in TaskRecord /\ Unused.at = "unused" /\ Unused.pair = {}
<1>1. 0 \in 0..MaxReviewRetries
  BY ReviewAssumption
<1>2. Attempt(Everyone, 0) \in TaskRecord
  BY <1>1, AttemptTyped
<1>3. Attempt(Everyone, 0).pair = {}
  BY DEF Attempt
<1> QED BY <1>2, <1>3 DEF Unused, TaskRecord, ReviewPlaces

LEMMA OverPlaced == ASSUME NEW t PROVE WellPlaced(t, Over)
BY OverTyped DEF WellPlaced, FullPlaces, RetryPlaces

\* One task changes, the others do not.
LEMMA Put ==
  ASSUME NEW t \in ReviewTasks, NEW X \in TaskRecord,
         reviews \in [ReviewTasks -> TaskRecord],
         reviews' = [reviews EXCEPT ![t] = X]
  PROVE  /\ reviews' \in [ReviewTasks -> TaskRecord]
         /\ reviews'[t] = X
         /\ \A u \in ReviewTasks \ {t} : reviews'[u] = reviews[u]
OBVIOUS

\* A task stands elsewhere and is otherwise the same.
LEMMA PutPlace ==
  ASSUME NEW t \in ReviewTasks, NEW place \in ReviewPlaces, ReviewTyped,
         Proceeds(t, place)
  PROVE  /\ reviews' \in [ReviewTasks -> TaskRecord]
         /\ reviews'[t] = [reviews[t] EXCEPT !.at = place]
         /\ \A u \in ReviewTasks \ {t} : reviews'[u] = reviews[u]
<1>1. [reviews[t] EXCEPT !.at = place] \in TaskRecord
  BY DEF ReviewTyped, TaskRecord
<1>2. reviews' = [reviews EXCEPT ![t] = [reviews[t] EXCEPT !.at = place]]
  BY DEF ReviewTyped, Proceeds
<1> QED BY <1>1, <1>2, Put DEF ReviewTyped

\* An attempt is over or begins again.
LEMMA PutThrow ==
  ASSUME NEW t \in ReviewTasks, ReviewTyped, Throws(t)
  PROVE  /\ reviews' \in [ReviewTasks -> TaskRecord]
         /\ \A u \in ReviewTasks \ {t} : reviews'[u] = reviews[u]
         /\ WellPlaced(t, reviews'[t])
         /\ \/ reviews'[t] = Over
            \/ reviews'[t] = Attempt(reviews[t].whom, reviews[t].attempt + 1)
<1>1. reviews[t] \in TaskRecord
  BY DEF ReviewTyped
<1>2. CASE reviews[t].expired \/ reviews[t].attempt = MaxReviewRetries
  <2>1. reviews' = [reviews EXCEPT ![t] = Over]
    BY <1>2 DEF Throws, Becomes
  <2> QED BY <2>1, OverTyped, OverPlaced, Put DEF ReviewTyped
<1>3. CASE ~(reviews[t].expired \/ reviews[t].attempt = MaxReviewRetries)
  <2> DEFINE X == Attempt(reviews[t].whom, reviews[t].attempt + 1)
  <2>1. reviews' = [reviews EXCEPT ![t] = X]
    BY <1>3 DEF Throws, Becomes
  <2>2. reviews[t].attempt + 1 \in 0..MaxReviewRetries
    BY <1>1, <1>3, ReviewAssumption DEF TaskRecord
  <2>3. X \in TaskRecord
    BY <1>1, <2>2, AttemptTyped DEF TaskRecord
  <2>4. X.at = "start" /\ X.pair = {}
    BY DEF Attempt
  <2>5. WellPlaced(t, X)
    BY <2>4 DEF WellPlaced, FullPlaces, RetryPlaces
  <2> HIDE DEF X
  <2>6. reviews'[t] = X
    BY <2>1, <2>3, Put DEF ReviewTyped
  <2> QED BY <2>1, <2>3, <2>5, <2>6, Put DEF ReviewTyped, X
<1> QED BY <1>2, <1>3

\* The session with one outcome changed.
LEMMA AgainIs ==
  ASSUME NEW who \in Roles, ReviewTyped,
         NEW outcome \in {"pending", "running", "success", "failed"}
  PROVE  /\ Again(who, outcome) \in Sessions
         /\ Again(who, outcome).status = session.status
         /\ Again(who, outcome).results[who] = outcome
         /\ \A q \in Roles \ {who} :
              Again(who, outcome).results[q] = session.results[q]
BY DEF ReviewTyped, Sessions, Again

LEMMA FinalTyped ==
  ASSUME NEW results \in [Roles -> {"pending", "running", "success", "failed"}]
  PROVE  /\ FinalStatus(results) \in {"partial", "completed"}
         /\ [status |-> FinalStatus(results), results |-> results] \in Sessions
BY DEF FinalStatus, Sessions

-----------------------------------------------------------------------------
(* What has to be shown of a step of the task t *)

Told(t) == IF Working(t) THEN Story(reviews[t]) ELSE Settled

LEMMA StoryNow ==
  ASSUME ReviewInv, undisturbed, NEW t \in ReviewTasks, Working(t)
  PROVE  Story(reviews[t]) /\ ~reviews[t].expired
BY DEF ReviewInv, Calm, Story

LEMMA TaskStep ==
  ASSUME ReviewInv, NEW t \in ReviewTasks, Working(t), ReviewTyped',
         \A u \in ReviewTasks \ {t} : reviews'[u] = reviews[u],
         WellPlaced(t, reviews'[t]), undisturbed' = undisturbed,
         undisturbed => Told(t)'
  PROVE  ReviewInv'
<1>1. Placed'
  BY DEF ReviewInv, Placed
<1>2. ASSUME undisturbed
      PROVE  /\ \A u \in ReviewTasks : Working(u)' => u = t
             /\ Told(t)'
  BY <1>2 DEF ReviewInv, Calm, Working
<1>3. ASSUME undisturbed, Quiet'
      PROVE  Settled'
  BY <1>2, <1>3 DEF Told, Quiet
<1>4. ASSUME undisturbed, NEW u \in ReviewTasks, Working(u)'
      PROVE  Story(reviews[u])'
  <2>1. u = t
    BY <1>2, <1>4
  <2> QED BY <1>2, <1>4, <2>1 DEF Told
<1>5. Calm'
  <2>1. undisturbed => \A u, v \in ReviewTasks : Working(u)' /\ Working(v)' => u = v
    BY <1>2
  <2> QED BY <1>3, <1>4, <2>1 DEF Calm
<1> QED BY <1>1, <1>5 DEF ReviewInv

LEMMA FullNow ==
  ASSUME ReviewInv, undisturbed, NEW t \in ReviewTasks, Working(t), IsFull(t)
  PROVE  FullStory(reviews[t]) /\ ~reviews[t].expired
BY StoryNow DEF Story, IsFull

LEMMA RetryNow ==
  ASSUME ReviewInv, undisturbed, NEW t \in ReviewTasks, Working(t), ~IsFull(t)
  PROVE  RetryStory(reviews[t]) /\ ~reviews[t].expired
BY StoryNow DEF Story, IsFull

\* The rows keep their types.
RowsTyped ==
  /\ session \in Sessions
  /\ findings \subseteq Finding
  /\ verdicts \subseteq findings /\ badged \subseteq findings

LEMMA TypedStep ==
  ASSUME ReviewTyped, RowsTyped', reviews' \in [ReviewTasks -> TaskRecord],
         UNCHANGED outside
  PROVE  ReviewTyped'
BY DEF ReviewTyped, RowsTyped, outside

LEMMA TypedNow ==
  ASSUME ReviewInv, NEW t \in ReviewTasks
  PROVE  ReviewTyped /\ RowsTyped /\ reviews[t] \in TaskRecord /\ WellPlaced(t, reviews[t])
BY DEF ReviewInv, ReviewTyped, RowsTyped, Placed

-----------------------------------------------------------------------------
(* The steps of a full review *)

LEMMA SaveSessionKeeps ==
  ASSUME ReviewInv, NEW t \in ReviewTasks, SaveSession(t)
  PROVE  ReviewInv'
<1>0. ReviewTyped /\ RowsTyped /\ reviews[t] \in TaskRecord /\ WellPlaced(t, reviews[t])
  BY TypedNow
<1>1. /\ reviews' \in [ReviewTasks -> TaskRecord]
      /\ reviews'[t] = [reviews[t] EXCEPT !.at = "begin"]
      /\ \A u \in ReviewTasks \ {t} : reviews'[u] = reviews[u]
  BY <1>0, PutPlace DEF SaveSession, ReviewPlaces, FullPlaces
<1>2. session' \in Sessions
  BY DEF SaveSession, Sessions, AllRoles
<1>3. ReviewTyped'
  BY <1>0, <1>1, <1>2, TypedStep
     DEF SaveSession, RowsTyped, unchangedRows
<1>4. WellPlaced(t, reviews'[t])
  BY <1>0, <1>1 DEF SaveSession, Stands, IsFull, WellPlaced, RetryPlaces, TaskRecord
<1>5. Working(t)
  BY DEF SaveSession, Stands, Working
<1>6. ASSUME undisturbed
      PROVE  Told(t)'
  <2>1. FullStory(reviews[t])
    BY <1>5, <1>6, FullNow DEF SaveSession
  <2>2. FullStory(reviews[t])'
    BY <1>0, <1>1, <2>1
       DEF SaveSession, Stands, FullStory, unchangedRows, TaskRecord
  <2>3. ~reviews'[t].expired /\ reviews'[t].whom = Everyone
    BY <1>0, <1>1, <1>5, <1>6, StoryNow DEF SaveSession, IsFull, TaskRecord
  <2> QED BY <1>1, <2>2, <2>3, <1>0 DEF Told, Story, Working, TaskRecord
<1> QED BY <1>1, <1>3, <1>4, <1>5, <1>6, TaskStep DEF SaveSession, outside

LEMMA RolesBeginKeeps ==
  ASSUME ReviewInv, NEW t \in ReviewTasks, RolesBegin(t)
  PROVE  ReviewInv'
<1> DEFINE begun == [status |-> "running", results |-> AllRoles("running")]
           X == [reviews[t] EXCEPT !.at = "roles", !.copy = begun]
<1>0. ReviewTyped /\ RowsTyped /\ reviews[t] \in TaskRecord /\ WellPlaced(t, reviews[t])
  BY TypedNow
<1>1. /\ Working(t) /\ reviews[t].at = "begin" /\ IsFull(t)
      /\ UNCHANGED outside /\ undisturbed' = undisturbed
      /\ findings' = findings /\ verdicts' = verdicts /\ badged' = badged
  BY <1>0 DEF RolesBegin, Stands, Working, WellPlaced, FullPlaces, IsFull,
              unchangedRows, outside
<1>2. CASE reviews[t].expired
  <2>1. Throws(t) /\ session' = session
    BY <1>2 DEF RolesBegin
  <2>2. ReviewTyped'
    BY <1>0, <1>1, <2>1, PutThrow, TypedStep DEF RowsTyped
  <2>3. ~undisturbed
    BY <1>1, <1>2, FullNow
  <2> QED BY <1>0, <1>1, <2>1, <2>2, <2>3, PutThrow, TaskStep
<1>3. CASE ~reviews[t].expired
  <2>1. reviews' = [reviews EXCEPT ![t] = X] /\ session' = begun
    BY <1>3 DEF RolesBegin, Becomes
  <2>2. begun \in Sessions /\ X \in TaskRecord
    BY <1>0 DEF Sessions, AllRoles, TaskRecord, ReviewPlaces, FullPlaces
  <2>3. /\ reviews' \in [ReviewTasks -> TaskRecord]
        /\ reviews'[t] = X
        /\ \A u \in ReviewTasks \ {t} : reviews'[u] = reviews[u]
    BY <1>0, <2>1, <2>2, Put DEF ReviewTyped
  <2>4. ReviewTyped'
    BY <1>0, <1>1, <2>1, <2>2, <2>3, TypedStep DEF RowsTyped
  <2>5. WellPlaced(t, X)
    BY <1>0, <1>1 DEF WellPlaced, RetryPlaces, TaskRecord, IsFull
  <2>6. ASSUME undisturbed
        PROVE  Told(t)'
    <3>1. FullStory(reviews[t])
      BY <1>1, <2>6, FullNow
    <3>2. /\ X.at = "roles" /\ X.raised = {} /\ X.pair = reviews[t].pair
          /\ \A r \in Roles : X.copy.results[r] = "running"
      BY <1>0, <1>1, <3>1 DEF FullStory, TaskRecord, AllRoles
    <3>3. FullStory(reviews[t])'
      BY <1>1, <2>3, <3>1, <3>2 DEF FullStory
    <3> QED BY <1>0, <1>1, <1>3, <2>3, <3>3
            DEF Told, Story, Working, TaskRecord, IsFull
  <2> QED BY <1>1, <2>3, <2>4, <2>5, <2>6, TaskStep
<1> QED BY <1>2, <1>3

LEMMA RoleAnswersKeeps ==
  ASSUME ReviewInv, NEW t \in ReviewTasks, NEW r \in Roles, RoleAnswers(t, r)
  PROVE  ReviewInv'
<1>0. ReviewTyped /\ RowsTyped /\ reviews[t] \in TaskRecord /\ WellPlaced(t, reviews[t])
  BY TypedNow
<1>1. /\ Working(t) /\ reviews[t].at = "roles" /\ IsFull(t)
      /\ UNCHANGED outside /\ undisturbed' = undisturbed
      /\ findings' = findings /\ verdicts' = verdicts /\ badged' = badged
      /\ ~reviews[t].expired /\ reviews[t].copy.results[r] = "running"
  BY <1>0 DEF RoleAnswers, Stands, Working, WellPlaced, FullPlaces, IsFull,
              unchangedRows, outside
<1>2. PICK outcome \in {"success", "failed"}, raises \in SUBSET {r} :
        /\ outcome = "failed" => raises = {}
        /\ session' = [reviews[t].copy EXCEPT !.results[r] = outcome]
        /\ Becomes(t, [reviews[t] EXCEPT !.copy.results[r] = outcome,
                                         !.raised = @ \cup raises])
  BY DEF RoleAnswers
<1> DEFINE X == [reviews[t] EXCEPT !.copy.results[r] = outcome,
                                   !.raised = @ \cup raises]
<1>3. /\ X \in TaskRecord /\ session' \in Sessions
      /\ X.at = "roles" /\ X.whom = reviews[t].whom /\ X.pair = reviews[t].pair
      /\ X.expired = reviews[t].expired
      /\ X.raised = reviews[t].raised \cup raises
      /\ X.copy.results[r] = outcome
      /\ \A q \in Roles \ {r} :
           X.copy.results[q] = reviews[t].copy.results[q]
  BY <1>0, <1>1, <1>2 DEF TaskRecord, Sessions
<1>4. reviews' = [reviews EXCEPT ![t] = X]
  BY <1>2 DEF Becomes
<1> HIDE DEF X
<1>5. /\ reviews' \in [ReviewTasks -> TaskRecord]
      /\ reviews'[t] = X
      /\ \A u \in ReviewTasks \ {t} : reviews'[u] = reviews[u]
  BY <1>0, <1>3, <1>4, Put DEF ReviewTyped
<1>6. ReviewTyped'
  BY <1>0, <1>1, <1>3, <1>5, TypedStep DEF RowsTyped
<1>7. WellPlaced(t, X)
  BY <1>0, <1>1, <1>3 DEF WellPlaced, RetryPlaces, IsFull
<1>8. ASSUME undisturbed
      PROVE  Told(t)'
  <2>1. FullStory(reviews[t])
    BY <1>1, <1>8, FullNow
  <2>2. r \notin reviews[t].raised /\ reviews[t].raised \subseteq Roles
    BY <1>0, <1>1, <2>1 DEF FullStory, TaskRecord
  <2>3. \A q \in X.raised : X.copy.results[q] = "success"
    BY <1>1, <1>2, <1>3, <2>1, <2>2 DEF FullStory
  <2>4. \A q \in Roles : Done(X.copy.results[q]) \/ X.copy.results[q] = "running"
    BY <1>1, <1>3, <2>1 DEF FullStory, Done
  <2>5. FullStory(reviews[t])'
    BY <1>1, <1>3, <1>5, <2>1, <2>3, <2>4 DEF FullStory
  <2> QED BY <1>1, <1>3, <1>5, <2>5 DEF Told, Story, Working, IsFull
<1> QED BY <1>1, <1>5, <1>6, <1>7, <1>8, TaskStep

LEMMA TallyKeeps ==
  ASSUME ReviewInv, NEW t \in ReviewTasks, Tally(t)
  PROVE  ReviewInv'
<1> DEFINE results == reviews[t].copy.results
           none == \A r \in Roles : results[r] # "success"
<1>0. ReviewTyped /\ RowsTyped /\ reviews[t] \in TaskRecord /\ WellPlaced(t, reviews[t])
  BY TypedNow
<1>1. /\ Working(t) /\ reviews[t].at = "roles" /\ IsFull(t)
      /\ UNCHANGED outside /\ undisturbed' = undisturbed
      /\ findings' = findings /\ verdicts' = verdicts /\ badged' = badged
      /\ reviews[t].expired \/ \A r \in Roles : results[r] # "running"
  BY <1>0 DEF Tally, Stands, Working, WellPlaced, FullPlaces, IsFull,
              unchangedRows, outside
<1>2. CASE none
  <2>1. Throws(t) /\ session' = [status |-> "failed", results |-> results]
    BY <1>2 DEF Tally
  <2>2. session' \in Sessions
    BY <1>0, <2>1 DEF Sessions, TaskRecord
  <2>3. ReviewTyped'
    BY <1>0, <1>1, <2>1, <2>2, PutThrow, TypedStep DEF RowsTyped
  <2>4. ASSUME undisturbed
        PROVE  Told(t)'
    <3>1. FullStory(reviews[t]) /\ ~reviews[t].expired
      BY <1>1, <2>4, FullNow
    <3>2. \A r \in Roles : results[r] = "failed"
      BY <1>1, <1>2, <3>1 DEF FullStory, Done
    <3>3. findings' = {} /\ badged' = {}
      BY <1>1, <3>1 DEF FullStory
    <3>4. CASE reviews'[t] = Over
      <4>1. Settled'
        BY <2>1, <3>2, <3>3 DEF Settled, Done, OneEach, Few
      <4> QED BY <3>4, <4>1, OverTyped DEF Told, Working
    <3>5. CASE reviews'[t] = Attempt(reviews[t].whom, reviews[t].attempt + 1)
      <4>1. /\ reviews'[t].at = "start" /\ reviews'[t].whom = Everyone
            /\ ~reviews'[t].expired
            /\ reviews'[t].raised = {} /\ reviews'[t].pair = {}
        BY <1>1, <3>5 DEF Attempt, IsFull
      <4>2. FullStory(reviews[t])'
        BY <3>3, <4>1 DEF FullStory, Few
      <4> QED BY <4>1, <4>2 DEF Told, Story, Working
    <3> QED BY <1>0, <2>1, <3>4, <3>5, PutThrow
  <2> QED BY <1>0, <1>1, <2>1, <2>3, <2>4, PutThrow, TaskStep
<1>3. CASE ~none /\ reviews[t].expired
  <2>1. Throws(t) /\ session' = session
    BY <1>3 DEF Tally
  <2>2. ReviewTyped'
    BY <1>0, <1>1, <2>1, PutThrow, TypedStep DEF RowsTyped
  <2>3. ~undisturbed
    BY <1>1, <1>3, FullNow
  <2> QED BY <1>0, <1>1, <2>1, <2>2, <2>3, PutThrow, TaskStep
<1>4. CASE ~none /\ ~reviews[t].expired
  <2>1. PICK place \in {"detect", "clear"} :
          Proceeds(t, place) /\ session' = session
    BY <1>4 DEF Tally
  <2>2. /\ reviews' \in [ReviewTasks -> TaskRecord]
        /\ reviews'[t] = [reviews[t] EXCEPT !.at = place]
        /\ \A u \in ReviewTasks \ {t} : reviews'[u] = reviews[u]
    BY <1>0, <2>1, PutPlace DEF ReviewPlaces, FullPlaces
  <2>3. ReviewTyped'
    BY <1>0, <1>1, <2>1, <2>2, TypedStep DEF RowsTyped
  <2>4. reviews[t].pair = {}
    BY <1>0, <1>1 DEF WellPlaced
  <2>5. WellPlaced(t, reviews'[t])
    BY <1>0, <1>1, <2>2, <2>4
       DEF WellPlaced, RetryPlaces, FullPlaces, TaskRecord, IsFull
  <2>6. ASSUME undisturbed
        PROVE  Told(t)'
    <3>1. FullStory(reviews[t])
      BY <1>1, <2>6, FullNow
    <3>2. /\ \A r \in Roles : Done(results[r])
          /\ \E r \in Roles : results[r] = "success"
      BY <1>1, <1>4, <3>1 DEF FullStory
    <3>3. FullStory(reviews[t])'
      BY <1>0, <1>1, <2>1, <2>2, <3>1, <3>2 DEF FullStory, TaskRecord
    <3> QED BY <1>0, <1>1, <1>4, <2>1, <2>2, <3>3
            DEF Told, Story, Working, TaskRecord, IsFull
  <2> QED BY <1>1, <2>2, <2>3, <2>5, <2>6, TaskStep
<1> QED BY <1>2, <1>3, <1>4

LEMMA DetectKeeps ==
  ASSUME ReviewInv, NEW t \in ReviewTasks, Detect(t)
  PROVE  ReviewInv'
<1>0. ReviewTyped /\ RowsTyped /\ reviews[t] \in TaskRecord /\ WellPlaced(t, reviews[t])
  BY TypedNow
<1>1. /\ Working(t) /\ reviews[t].at = "detect" /\ IsFull(t)
      /\ UNCHANGED outside /\ undisturbed' = undisturbed
      /\ findings' = findings /\ verdicts' = verdicts /\ badged' = badged
      /\ session' = session
  BY <1>0 DEF Detect, Stands, Working, unchangedRows, outside
<1>2. CASE reviews[t].expired
  <2>1. Throws(t)
    BY <1>2 DEF Detect
  <2>2. ReviewTyped'
    BY <1>0, <1>1, <2>1, PutThrow, TypedStep DEF RowsTyped
  <2>3. ~undisturbed
    BY <1>1, <1>2, FullNow
  <2> QED BY <1>0, <1>1, <2>1, <2>2, <2>3, PutThrow, TaskStep
<1>3. CASE ~reviews[t].expired
  <2>1. PICK pair \in Contradictions({FindingOf(t, r) : r \in reviews[t].raised}) :
          Becomes(t, [reviews[t] EXCEPT !.at = "clear", !.pair = pair])
    BY <1>3 DEF Detect
  <2> DEFINE X == [reviews[t] EXCEPT !.at = "clear", !.pair = pair]
  <2>2. pair \subseteq Raised(t, reviews[t]) /\ Few(pair)
    BY <2>1 DEF Contradictions, Raised, FindingOf, Few
  <2>3. Raised(t, reviews[t]) \subseteq Finding
    BY <1>0 DEF Raised, Finding, TaskRecord
  <2>4. X \in TaskRecord
    BY <1>0, <2>2, <2>3 DEF TaskRecord, ReviewPlaces, FullPlaces
  <2>5. /\ reviews' \in [ReviewTasks -> TaskRecord]
        /\ reviews'[t] = X
        /\ \A u \in ReviewTasks \ {t} : reviews'[u] = reviews[u]
    BY <1>0, <2>1, <2>4, Put DEF ReviewTyped, Becomes
  <2>6. ReviewTyped'
    BY <1>0, <1>1, <2>5, TypedStep DEF RowsTyped
  <2>7. /\ X.at = "clear" /\ X.whom = Everyone /\ X.pair = pair
        /\ X.raised = reviews[t].raised /\ X.copy = reviews[t].copy
        /\ X.attempt = reviews[t].attempt /\ X.expired = reviews[t].expired
    BY <1>0, <1>1 DEF TaskRecord, IsFull
  <2> HIDE DEF X
  <2>8. WellPlaced(t, X)
    BY <2>2, <2>7 DEF WellPlaced, RetryPlaces, Raised
  <2>9. ASSUME undisturbed
        PROVE  Told(t)'
    <3>1. FullStory(reviews[t])
      BY <1>1, <2>9, FullNow
    <3>2. FullStory(reviews[t])'
      BY <1>1, <2>2, <2>5, <2>7, <3>1 DEF FullStory
    <3> QED BY <1>3, <2>5, <2>7, <3>2 DEF Told, Story, Working
  <2> QED BY <1>1, <2>5, <2>6, <2>8, <2>9, TaskStep
<1> QED BY <1>2, <1>3

LEMMA ClearKeeps ==
  ASSUME ReviewInv, NEW t \in ReviewTasks, Clear(t)
  PROVE  ReviewInv'
<1>0. ReviewTyped /\ RowsTyped /\ reviews[t] \in TaskRecord /\ WellPlaced(t, reviews[t])
  BY TypedNow
<1>1. /\ Working(t) /\ reviews[t].at = "clear" /\ IsFull(t)
      /\ UNCHANGED outside /\ undisturbed' = undisturbed
      /\ findings' = {} /\ verdicts' = {} /\ badged' = {}
      /\ session' = session /\ Proceeds(t, "close")
  BY <1>0 DEF Clear, Deletes, Stands, Working, WellPlaced, FullPlaces, IsFull,
              outside, RowsTyped
<1>2. /\ reviews' \in [ReviewTasks -> TaskRecord]
      /\ reviews'[t] = [reviews[t] EXCEPT !.at = "close"]
      /\ \A u \in ReviewTasks \ {t} : reviews'[u] = reviews[u]
  BY <1>0, <1>1, PutPlace DEF ReviewPlaces, FullPlaces
<1>3. ReviewTyped'
  BY <1>0, <1>1, <1>2, TypedStep DEF RowsTyped
<1>4. WellPlaced(t, reviews'[t])
  BY <1>0, <1>1, <1>2 DEF WellPlaced, RetryPlaces, Raised, IsFull, TaskRecord
<1>5. ASSUME undisturbed
      PROVE  Told(t)'
  <2>1. FullStory(reviews[t]) /\ ~reviews[t].expired
    BY <1>1, <1>5, FullNow
  <2>2. FullStory(reviews[t])'
    BY <1>0, <1>1, <1>2, <2>1 DEF FullStory, TaskRecord
  <2> QED BY <1>0, <1>1, <1>2, <2>1, <2>2
          DEF Told, Story, Working, TaskRecord, IsFull
<1> QED BY <1>1, <1>2, <1>3, <1>4, <1>5, TaskStep

LEMMA CloseKeeps ==
  ASSUME ReviewInv, NEW t \in ReviewTasks, Close(t)
  PROVE  ReviewInv'
<1> DEFINE results == reviews[t].copy.results
<1>0. ReviewTyped /\ RowsTyped /\ reviews[t] \in TaskRecord /\ WellPlaced(t, reviews[t])
  BY TypedNow
<1>1. /\ Working(t) /\ reviews[t].at = "close" /\ IsFull(t)
      /\ UNCHANGED outside /\ undisturbed' = undisturbed
      /\ findings' = findings /\ verdicts' = verdicts /\ badged' = badged
      /\ session' = [status |-> FinalStatus(results), results |-> results]
      /\ Proceeds(t, "store")
  BY <1>0 DEF Close, Stands, Working, WellPlaced, FullPlaces, IsFull,
              outside, unchangedRows
<1>2. /\ reviews' \in [ReviewTasks -> TaskRecord]
      /\ reviews'[t] = [reviews[t] EXCEPT !.at = "store"]
      /\ \A u \in ReviewTasks \ {t} : reviews'[u] = reviews[u]
  BY <1>0, <1>1, PutPlace DEF ReviewPlaces, FullPlaces
<1>3. session' \in Sessions
  BY <1>0, <1>1, FinalTyped DEF TaskRecord, Sessions
<1>4. ReviewTyped'
  BY <1>0, <1>1, <1>2, <1>3, TypedStep DEF RowsTyped
<1>5. WellPlaced(t, reviews'[t])
  BY <1>0, <1>1, <1>2 DEF WellPlaced, RetryPlaces, Raised, IsFull, TaskRecord
<1>6. ASSUME undisturbed
      PROVE  Told(t)'
  <2>1. FullStory(reviews[t]) /\ ~reviews[t].expired
    BY <1>1, <1>6, FullNow
  <2>2. FullStory(reviews[t])'
    BY <1>0, <1>1, <1>2, <2>1 DEF FullStory, TaskRecord
  <2> QED BY <1>0, <1>1, <1>2, <2>1, <2>2
          DEF Told, Story, Working, TaskRecord, IsFull
<1> QED BY <1>1, <1>2, <1>4, <1>5, <1>6, TaskStep

LEMMA StoreKeeps ==
  ASSUME ReviewInv, NEW t \in ReviewTasks, Store(t)
  PROVE  ReviewInv'
<1> DEFINE x == reviews[t]
<1>0. ReviewTyped /\ RowsTyped /\ x \in TaskRecord /\ WellPlaced(t, x)
  BY TypedNow
<1>1. /\ Working(t) /\ x.at = "store" /\ IsFull(t)
      /\ UNCHANGED outside /\ undisturbed' = undisturbed
      /\ verdicts' = verdicts /\ session' = session
      /\ findings' = findings \cup Raised(t, x)
      /\ badged' = badged \cup x.pair
      /\ Becomes(t, Over)
  BY <1>0 DEF Store, Stands, Working, WellPlaced, FullPlaces, IsFull,
              outside, Raised, FindingOf
<1>2. /\ reviews' \in [ReviewTasks -> TaskRecord]
      /\ reviews'[t] = Over
      /\ \A u \in ReviewTasks \ {t} : reviews'[u] = reviews[u]
  BY <1>0, <1>1, OverTyped, Put DEF ReviewTyped, Becomes
<1>3. Raised(t, x) \subseteq Finding /\ x.pair \subseteq Raised(t, x)
  BY <1>0, <1>1 DEF Raised, Finding, TaskRecord, WellPlaced
<1>4. ReviewTyped'
  BY <1>0, <1>1, <1>2, <1>3, TypedStep DEF RowsTyped
<1>5. ASSUME undisturbed
      PROVE  Told(t)'
  <2>1. FullStory(x)
    BY <1>1, <1>5, FullNow
  <2>2. /\ findings' = Raised(t, x) /\ badged' = x.pair /\ Few(x.pair)
        /\ session'.results = x.copy.results
        /\ session'.status = FinalStatus(x.copy.results)
        /\ \A r \in Roles : Done(x.copy.results[r])
        /\ \E r \in Roles : x.copy.results[r] = "success"
        /\ \A r \in x.raised : x.copy.results[r] = "success"
    BY <1>1, <2>1 DEF FullStory
  <2>3. OneEach'
    BY <2>2 DEF OneEach, Raised
  <2>4. \A f \in findings' : session'.results[f.role] = "success"
    BY <2>2 DEF Raised
  <2>5. ~\A r \in Roles : x.copy.results[r] = "failed"
    BY <2>2
  <2>6. Settled'
    BY <2>2, <2>3, <2>4, <2>5 DEF Settled, Few
  <2> QED BY <1>2, <2>6, OverTyped DEF Told, Working
<1> QED BY <1>1, <1>2, <1>4, <1>5, OverPlaced, TaskStep

-----------------------------------------------------------------------------
(* The steps of a retry *)

LEMMA ReadSessionKeeps ==
  ASSUME ReviewInv, NEW t \in ReviewTasks, ReadSession(t)
  PROVE  ReviewInv'
<1> DEFINE x == reviews[t]
           X == [x EXCEPT !.at = "mark", !.copy = Again(x.whom, "running")]
<1>0. ReviewTyped /\ RowsTyped /\ x \in TaskRecord /\ WellPlaced(t, x)
  BY TypedNow
<1>1. /\ Working(t) /\ x.at = "start" /\ ~IsFull(t) /\ x.whom \in Roles
      /\ UNCHANGED outside /\ undisturbed' = undisturbed /\ session' = session
      /\ findings' = findings /\ verdicts' = verdicts /\ badged' = badged
      /\ reviews' = [reviews EXCEPT ![t] = X]
  BY <1>0 DEF ReadSession, Stands, Working, IsFull, TaskRecord, Becomes,
              Revised, Again, outside, unchangedRows
<1>2. X \in TaskRecord
  BY <1>0, <1>1, AgainIs DEF TaskRecord, ReviewPlaces, RetryPlaces
<1>3. /\ reviews' \in [ReviewTasks -> TaskRecord]
      /\ reviews'[t] = X
      /\ \A u \in ReviewTasks \ {t} : reviews'[u] = reviews[u]
  BY <1>0, <1>1, <1>2, Put DEF ReviewTyped
<1>4. ReviewTyped'
  BY <1>0, <1>1, <1>3, TypedStep DEF RowsTyped
<1>5. /\ X.at = "mark" /\ X.whom = x.whom /\ X.pair = x.pair
      /\ X.expired = x.expired /\ X.copy = Again(X.whom, "running")
  BY <1>0 DEF TaskRecord
<1> HIDE DEF X
<1>6. WellPlaced(t, X)
  BY <1>0, <1>1, <1>5 DEF WellPlaced, FullPlaces, IsFull
<1>7. ASSUME undisturbed
      PROVE  Told(t)'
  <2>1. RetryStory(x) /\ ~x.expired
    BY <1>1, <1>7, RetryNow
  <2>2. RetryStory(reviews[t])'
    BY <1>1, <1>3, <1>5, <2>1 DEF RetryStory, OneEach, Again
  <2> QED BY <1>1, <1>3, <1>5, <2>1, <2>2 DEF Told, Story, Working, IsFull
<1> QED BY <1>1, <1>3, <1>4, <1>6, <1>7, TaskStep

LEMMA MarkRoleKeeps ==
  ASSUME ReviewInv, NEW t \in ReviewTasks, MarkRole(t)
  PROVE  ReviewInv'
<1> DEFINE x == reviews[t]
<1>0. ReviewTyped /\ RowsTyped /\ x \in TaskRecord /\ WellPlaced(t, x)
  BY TypedNow
<1>1. /\ Working(t) /\ x.at = "mark" /\ ~IsFull(t) /\ x.whom \in Roles
      /\ UNCHANGED outside /\ undisturbed' = undisturbed
      /\ findings' = findings /\ verdicts' = verdicts /\ badged' = badged
      /\ session' = x.copy /\ Proceeds(t, "call")
  BY <1>0 DEF MarkRole, Stands, Working, IsFull, WellPlaced, RetryPlaces,
              TaskRecord, outside, unchangedRows
<1>2. /\ reviews' \in [ReviewTasks -> TaskRecord]
      /\ reviews'[t] = [reviews[t] EXCEPT !.at = "call"]
      /\ \A u \in ReviewTasks \ {t} : reviews'[u] = reviews[u]
  BY <1>0, <1>1, PutPlace DEF ReviewPlaces, RetryPlaces
<1>3. ReviewTyped'
  BY <1>0, <1>1, <1>2, TypedStep DEF RowsTyped, TaskRecord
<1>4. /\ reviews'[t].at = "call" /\ reviews'[t].whom = x.whom
      /\ reviews'[t].pair = x.pair /\ reviews'[t].expired = x.expired
  BY <1>0, <1>2 DEF TaskRecord
<1>5. WellPlaced(t, reviews'[t])
  BY <1>0, <1>1, <1>4 DEF WellPlaced, FullPlaces, IsFull
<1>6. ASSUME undisturbed
      PROVE  Told(t)'
  <2>1. RetryStory(x) /\ ~x.expired
    BY <1>1, <1>6, RetryNow
  <2>2. session' = Again(x.whom, "running")
    BY <1>1, <2>1 DEF RetryStory
  <2>3. /\ session'.status = session.status
        /\ \A q \in Roles \ {x.whom} : session'.results[q] = session.results[q]
    BY <1>0, <1>1, <2>2, AgainIs
  <2>4. \A f \in findings : f.role \in Roles
    BY <1>0 DEF RowsTyped, Finding
  <2>5. RetryStory(reviews[t])'
    BY <1>1, <1>4, <2>1, <2>3, <2>4 DEF RetryStory, OneEach
  <2> QED BY <1>1, <1>4, <2>1, <2>5 DEF Told, Story, Working, IsFull
<1> QED BY <1>1, <1>2, <1>3, <1>5, <1>6, TaskStep

LEMMA CallRoleKeeps ==
  ASSUME ReviewInv, NEW t \in ReviewTasks, CallRole(t)
  PROVE  ReviewInv'
<1> DEFINE x == reviews[t]
<1>0. ReviewTyped /\ RowsTyped /\ x \in TaskRecord /\ WellPlaced(t, x)
  BY TypedNow
<1>1. /\ Working(t) /\ x.at = "call" /\ ~IsFull(t) /\ x.whom \in Roles
      /\ x.pair = {}
      /\ UNCHANGED outside /\ undisturbed' = undisturbed /\ session' = session
      /\ findings' = findings /\ verdicts' = verdicts /\ badged' = badged
  BY <1>0 DEF CallRole, Stands, Working, IsFull, WellPlaced, RetryPlaces,
              TaskRecord, outside, unchangedRows
<1>2. CASE x.expired
  <2>1. Throws(t)
    BY <1>2 DEF CallRole
  <2>2. ReviewTyped'
    BY <1>0, <1>1, <2>1, PutThrow, TypedStep DEF RowsTyped
  <2>3. ~undisturbed
    BY <1>1, <1>2, RetryNow
  <2> QED BY <1>0, <1>1, <2>1, <2>2, <2>3, PutThrow, TaskStep
<1>3. ASSUME NEW X \in TaskRecord, reviews' = [reviews EXCEPT ![t] = X],
             X.at \in {"error", "drop"}, X.whom = x.whom, X.pair = {},
             X.expired = x.expired, X.at = "drop" => X.raised \subseteq {x.whom}
      PROVE  ReviewInv'
  <2>1. /\ reviews' \in [ReviewTasks -> TaskRecord]
        /\ reviews'[t] = X
        /\ \A u \in ReviewTasks \ {t} : reviews'[u] = reviews[u]
    BY <1>0, <1>3, Put DEF ReviewTyped
  <2>2. ReviewTyped'
    BY <1>0, <1>1, <2>1, TypedStep DEF RowsTyped
  <2>3. WellPlaced(t, X)
    BY <1>1, <1>3 DEF WellPlaced, FullPlaces, IsFull
  <2>4. ASSUME undisturbed
        PROVE  Told(t)'
    <3>1. RetryStory(x) /\ ~x.expired
      BY <1>1, <2>4, RetryNow
    <3>2. RetryStory(reviews[t])'
      BY <1>1, <1>3, <2>1, <3>1 DEF RetryStory, OneEach
    <3> QED BY <1>1, <1>3, <2>1, <3>1, <3>2 DEF Told, Story, Working, IsFull
  <2> QED BY <1>1, <2>1, <2>2, <2>3, <2>4, TaskStep
<1>4. CASE ~x.expired /\ Proceeds(t, "error")
  <2> DEFINE X == [x EXCEPT !.at = "error"]
  <2>1. reviews' = [reviews EXCEPT ![t] = X]
    BY <1>0, <1>4 DEF Proceeds, ReviewTyped
  <2>2. X \in TaskRecord /\ X.at = "error" /\ X.whom = x.whom
        /\ X.pair = {} /\ X.expired = x.expired
    BY <1>0, <1>1 DEF TaskRecord, ReviewPlaces, RetryPlaces
  <2> QED BY <1>3, <2>1, <2>2
<1>5. CASE ~x.expired /\ ~Proceeds(t, "error")
  <2>1. PICK raises \in SUBSET {x.whom} :
          Becomes(t, [reviews[t] EXCEPT !.at = "drop", !.raised = raises])
    BY <1>5 DEF CallRole
  <2> DEFINE X == [x EXCEPT !.at = "drop", !.raised = raises]
  <2>2. X \in TaskRecord /\ X.at = "drop" /\ X.whom = x.whom
        /\ X.pair = {} /\ X.expired = x.expired /\ X.raised = raises
    BY <1>0, <1>1 DEF TaskRecord, ReviewPlaces, RetryPlaces
  <2> QED BY <1>3, <2>1, <2>2 DEF Becomes
<1> QED BY <1>2, <1>4, <1>5

LEMMA DropFindingsKeeps ==
  ASSUME ReviewInv, NEW t \in ReviewTasks, DropFindings(t)
  PROVE  ReviewInv'
<1> DEFINE x == reviews[t]
           gone == {f \in findings : f.role = x.whom}
<1>0. ReviewTyped /\ RowsTyped /\ x \in TaskRecord /\ WellPlaced(t, x)
  BY TypedNow
<1>1. /\ Working(t) /\ x.at = "drop" /\ ~IsFull(t)
      /\ UNCHANGED outside /\ undisturbed' = undisturbed /\ session' = session
      /\ findings' = findings \ gone /\ verdicts' = verdicts \ gone
      /\ badged' = badged \ gone /\ Proceeds(t, "insert")
  BY <1>0 DEF DropFindings, Deletes, Stands, Working, IsFull, WellPlaced,
              RetryPlaces, outside
<1>2. /\ reviews' \in [ReviewTasks -> TaskRecord]
      /\ reviews'[t] = [reviews[t] EXCEPT !.at = "insert"]
      /\ \A u \in ReviewTasks \ {t} : reviews'[u] = reviews[u]
  BY <1>0, <1>1, PutPlace DEF ReviewPlaces, RetryPlaces
<1>3. ReviewTyped'
  BY <1>0, <1>1, <1>2, TypedStep DEF RowsTyped
<1>4. /\ reviews'[t].at = "insert" /\ reviews'[t].whom = x.whom
      /\ reviews'[t].pair = x.pair /\ reviews'[t].expired = x.expired
      /\ reviews'[t].raised = x.raised
  BY <1>0, <1>2 DEF TaskRecord
<1>5. WellPlaced(t, reviews'[t])
  BY <1>0, <1>1, <1>4 DEF WellPlaced, FullPlaces, IsFull
<1>6. ASSUME undisturbed
      PROVE  Told(t)'
  <2>1. RetryStory(x) /\ ~x.expired
    BY <1>1, <1>6, RetryNow
  <2>2. gone = {}
    BY <1>1, <2>1 DEF RetryStory
  <2>3. findings' = findings /\ badged' = badged
    BY <1>1, <2>2
  <2>4. RetryStory(reviews[t])'
    BY <1>1, <1>4, <2>1, <2>3 DEF RetryStory, OneEach
  <2> QED BY <1>1, <1>4, <2>1, <2>4 DEF Told, Story, Working, IsFull
<1> QED BY <1>1, <1>2, <1>3, <1>5, <1>6, TaskStep

LEMMA InsertFindingsKeeps ==
  ASSUME ReviewInv, NEW t \in ReviewTasks, InsertFindings(t)
  PROVE  ReviewInv'
<1> DEFINE x == reviews[t]
<1>0. ReviewTyped /\ RowsTyped /\ x \in TaskRecord /\ WellPlaced(t, x)
  BY TypedNow
<1>1. /\ Working(t) /\ x.at = "insert" /\ ~IsFull(t)
      /\ UNCHANGED outside /\ undisturbed' = undisturbed /\ session' = session
      /\ verdicts' = verdicts /\ badged' = badged
      /\ findings' = findings \cup Raised(t, x) /\ Proceeds(t, "reread")
  BY <1>0 DEF InsertFindings, Stands, Working, IsFull, WellPlaced,
              RetryPlaces, outside, Raised, FindingOf
<1>2. /\ reviews' \in [ReviewTasks -> TaskRecord]
      /\ reviews'[t] = [reviews[t] EXCEPT !.at = "reread"]
      /\ \A u \in ReviewTasks \ {t} : reviews'[u] = reviews[u]
  BY <1>0, <1>1, PutPlace DEF ReviewPlaces, RetryPlaces
<1>3. Raised(t, x) \subseteq Finding
  BY <1>0 DEF Raised, Finding, TaskRecord
<1>4. ReviewTyped'
  BY <1>0, <1>1, <1>2, <1>3, TypedStep DEF RowsTyped
<1>5. /\ reviews'[t].at = "reread" /\ reviews'[t].whom = x.whom
      /\ reviews'[t].pair = x.pair /\ reviews'[t].expired = x.expired
  BY <1>0, <1>2 DEF TaskRecord
<1>6. WellPlaced(t, reviews'[t])
  BY <1>0, <1>1, <1>5 DEF WellPlaced, FullPlaces, IsFull
<1>7. ASSUME undisturbed
      PROVE  Told(t)'
  <2>1. RetryStory(x) /\ ~x.expired
    BY <1>1, <1>7, RetryNow
  <2>2. x.raised \subseteq {x.whom}
    BY <1>1, <2>1 DEF RetryStory
  <2>3. OneEach'
    BY <1>1, <2>1, <2>2 DEF RetryStory, OneEach, Raised
  <2>4. \A f \in findings' : f.role # x.whom => f \in findings
    BY <1>1, <2>2 DEF Raised
  <2>5. RetryStory(reviews[t])'
    BY <1>1, <1>5, <2>1, <2>3, <2>4 DEF RetryStory
  <2> QED BY <1>1, <1>5, <2>1, <2>5 DEF Told, Story, Working, IsFull
<1> QED BY <1>1, <1>2, <1>4, <1>6, <1>7, TaskStep

LEMMA RereadKeeps ==
  ASSUME ReviewInv, NEW t \in ReviewTasks, Reread(t)
  PROVE  ReviewInv'
<1> DEFINE x == reviews[t]
           again == Again(x.whom, "success").results
           final == [status |-> FinalStatus(again), results |-> again]
           X == [x EXCEPT !.at = "reset", !.seen = findings, !.copy = final]
<1>0. ReviewTyped /\ RowsTyped /\ x \in TaskRecord /\ WellPlaced(t, x)
  BY TypedNow
<1>1. /\ Working(t) /\ x.at = "reread" /\ ~IsFull(t) /\ x.whom \in Roles
      /\ UNCHANGED outside /\ undisturbed' = undisturbed /\ session' = session
      /\ findings' = findings /\ verdicts' = verdicts /\ badged' = badged
      /\ reviews' = [reviews EXCEPT ![t] = X]
  BY <1>0 DEF Reread, Stands, Working, IsFull, WellPlaced, RetryPlaces,
              TaskRecord, Becomes, Revised, Again, outside, unchangedRows
<1>2. final \in Sessions
  <2>1. Again(x.whom, "success") \in Sessions
    BY <1>0, <1>1, AgainIs
  <2>2. again \in [Roles -> {"pending", "running", "success", "failed"}]
    BY <2>1 DEF Sessions
  <2> QED BY <2>2, FinalTyped
<1>3. X \in TaskRecord
  BY <1>0, <1>2 DEF TaskRecord, ReviewPlaces, RetryPlaces, RowsTyped
<1>4. /\ reviews' \in [ReviewTasks -> TaskRecord]
      /\ reviews'[t] = X
      /\ \A u \in ReviewTasks \ {t} : reviews'[u] = reviews[u]
  BY <1>0, <1>1, <1>3, Put DEF ReviewTyped
<1>5. ReviewTyped'
  BY <1>0, <1>1, <1>4, TypedStep DEF RowsTyped
<1>6. /\ X.at = "reset" /\ X.whom = x.whom /\ X.pair = x.pair
      /\ X.expired = x.expired /\ X.copy = final /\ X.seen = findings
  BY <1>0 DEF TaskRecord
<1> HIDE DEF X
<1>7. WellPlaced(t, X)
  BY <1>0, <1>1, <1>6 DEF WellPlaced, FullPlaces, IsFull
<1>8. ASSUME undisturbed
      PROVE  Told(t)'
  <2>1. RetryStory(x) /\ ~x.expired
    BY <1>1, <1>8, RetryNow
  <2>2. Again(x.whom, "success")' = Again(x.whom, "success")
    BY <1>1, <1>4, <1>6 DEF Again
  <2>3. RetryStory(reviews[t])'
    BY <1>1, <1>4, <1>6, <2>1, <2>2 DEF RetryStory, OneEach, Again
  <2> QED BY <1>1, <1>4, <1>6, <2>1, <2>3 DEF Told, Story, Working, IsFull
<1> QED BY <1>1, <1>4, <1>5, <1>7, <1>8, TaskStep

LEMMA ResetGroupsKeeps ==
  ASSUME ReviewInv, NEW t \in ReviewTasks, ResetGroups(t)
  PROVE  ReviewInv'
<1> DEFINE x == reviews[t]
<1>0. ReviewTyped /\ RowsTyped /\ x \in TaskRecord /\ WellPlaced(t, x)
  BY TypedNow
<1>1. /\ Working(t) /\ x.at = "reset" /\ ~IsFull(t)
      /\ UNCHANGED outside /\ undisturbed' = undisturbed /\ session' = session
      /\ findings' = findings /\ verdicts' = verdicts /\ badged' = {}
  BY <1>0 DEF ResetGroups, Stands, Working, IsFull, WellPlaced, RetryPlaces,
              outside
<1>2. PICK place \in {"detect", "finish"} : Proceeds(t, place)
  BY DEF ResetGroups
<1>3. /\ reviews' \in [ReviewTasks -> TaskRecord]
      /\ reviews'[t] = [reviews[t] EXCEPT !.at = place]
      /\ \A u \in ReviewTasks \ {t} : reviews'[u] = reviews[u]
  BY <1>0, <1>2, PutPlace DEF ReviewPlaces, RetryPlaces
<1>4. ReviewTyped'
  BY <1>0, <1>1, <1>3, TypedStep DEF RowsTyped
<1>5. /\ reviews'[t].at = place /\ reviews'[t].whom = x.whom
      /\ reviews'[t].pair = x.pair /\ reviews'[t].expired = x.expired
      /\ reviews'[t].copy = x.copy /\ reviews'[t].seen = x.seen
  BY <1>0, <1>3 DEF TaskRecord
<1>6. WellPlaced(t, reviews'[t])
  BY <1>0, <1>1, <1>2, <1>5 DEF WellPlaced, FullPlaces, IsFull
<1>7. ASSUME undisturbed
      PROVE  Told(t)'
  <2>1. RetryStory(x) /\ ~x.expired
    BY <1>1, <1>7, RetryNow
  <2>2. RetryStory(reviews[t])'
    BY <1>1, <1>2, <1>5, <2>1 DEF RetryStory, OneEach, Again, Few
  <2> QED BY <1>1, <1>2, <1>5, <2>1, <2>2 DEF Told, Story, Working, IsFull
<1> QED BY <1>1, <1>3, <1>4, <1>6, <1>7, TaskStep

LEMMA DetectAgainKeeps ==
  ASSUME ReviewInv, NEW t \in ReviewTasks, DetectAgain(t)
  PROVE  ReviewInv'
<1> DEFINE x == reviews[t]
<1>0. ReviewTyped /\ RowsTyped /\ x \in TaskRecord /\ WellPlaced(t, x)
  BY TypedNow
<1>1. /\ Working(t) /\ x.at = "detect" /\ ~IsFull(t)
      /\ UNCHANGED outside /\ undisturbed' = undisturbed /\ session' = session
      /\ findings' = findings /\ verdicts' = verdicts
  BY DEF DetectAgain, Stands, Working, IsFull, outside
<1>2. CASE x.expired
  <2>1. Throws(t) /\ badged' = badged
    BY <1>2 DEF DetectAgain
  <2>2. ReviewTyped'
    BY <1>0, <1>1, <2>1, PutThrow, TypedStep DEF RowsTyped
  <2>3. ~undisturbed
    BY <1>1, <1>2, RetryNow
  <2> QED BY <1>0, <1>1, <2>1, <2>2, <2>3, PutThrow, TaskStep
<1>3. CASE ~x.expired
  <2>1. PICK pair \in Contradictions(x.seen) :
          badged' = badged \cup (pair \cap findings)
    BY <1>3 DEF DetectAgain
  <2>2. Proceeds(t, "finish")
    BY <1>3 DEF DetectAgain
  <2>3. /\ reviews' \in [ReviewTasks -> TaskRecord]
        /\ reviews'[t] = [reviews[t] EXCEPT !.at = "finish"]
        /\ \A u \in ReviewTasks \ {t} : reviews'[u] = reviews[u]
    BY <1>0, <2>2, PutPlace DEF ReviewPlaces, RetryPlaces
  <2>4. ReviewTyped'
    BY <1>0, <1>1, <2>1, <2>3, TypedStep DEF RowsTyped
  <2>5. /\ reviews'[t].at = "finish" /\ reviews'[t].whom = x.whom
        /\ reviews'[t].pair = x.pair /\ reviews'[t].expired = x.expired
        /\ reviews'[t].copy = x.copy
    BY <1>0, <2>3 DEF TaskRecord
  <2>6. WellPlaced(t, reviews'[t])
    BY <1>0, <1>1, <2>5 DEF WellPlaced, FullPlaces, IsFull
  <2>7. ASSUME undisturbed
        PROVE  Told(t)'
    <3>1. RetryStory(x) /\ ~x.expired
      BY <1>1, <2>7, RetryNow
    <3>2. badged = {} /\ pair \subseteq findings /\ Few(pair)
      BY <1>1, <2>1, <3>1 DEF RetryStory, Contradictions, Few
    <3>3. badged' = pair
      BY <2>1, <3>2
    <3>4. Few(badged')
      BY <3>2, <3>3
    <3>5. RetryStory(reviews[t])'
      BY <1>1, <2>5, <3>1, <3>4 DEF RetryStory, OneEach, Again
    <3> QED BY <1>1, <2>5, <3>1, <3>5 DEF Told, Story, Working, IsFull
  <2> QED BY <1>1, <2>3, <2>4, <2>6, <2>7, TaskStep
<1> QED BY <1>2, <1>3

LEMMA FinishKeeps ==
  ASSUME ReviewInv, NEW t \in ReviewTasks, Finish(t)
  PROVE  ReviewInv'
<1> DEFINE x == reviews[t]
           again == Again(x.whom, "success").results
<1>0. ReviewTyped /\ RowsTyped /\ x \in TaskRecord /\ WellPlaced(t, x)
  BY TypedNow
<1>1. /\ Working(t) /\ x.at = "finish" /\ ~IsFull(t) /\ x.whom \in Roles
      /\ UNCHANGED outside /\ undisturbed' = undisturbed /\ session' = x.copy
      /\ findings' = findings /\ verdicts' = verdicts /\ badged' = badged
      /\ Becomes(t, Over)
  BY <1>0 DEF Finish, Stands, Working, IsFull, WellPlaced, RetryPlaces,
              TaskRecord, outside, unchangedRows
<1>2. /\ reviews' \in [ReviewTasks -> TaskRecord]
      /\ reviews'[t] = Over
      /\ \A u \in ReviewTasks \ {t} : reviews'[u] = reviews[u]
  BY <1>0, <1>1, OverTyped, Put DEF ReviewTyped, Becomes
<1>3. ReviewTyped'
  BY <1>0, <1>1, <1>2, TypedStep DEF RowsTyped, TaskRecord
<1>4. ASSUME undisturbed
      PROVE  Told(t)'
  <2>1. RetryStory(x)
    BY <1>1, <1>4, RetryNow
  <2>2. /\ again[x.whom] = "success"
        /\ \A q \in Roles \ {x.whom} : again[q] = session.results[q]
    BY <1>0, <1>1, AgainIs
  <2>3. session'.results = again /\ session'.status = FinalStatus(again)
    BY <1>1, <2>1 DEF RetryStory
  <2>4. \A r \in Roles : Done(again[r])
    BY <2>1, <2>2 DEF RetryStory, Done
  <2>5. \A f \in findings : f.role \in Roles
    BY <1>0 DEF RowsTyped, Finding
  <2>6. \A f \in findings : again[f.role] = "success"
    BY <2>1, <2>2, <2>5 DEF RetryStory
  <2>7. ~\A r \in Roles : again[r] = "failed"
    BY <1>1, <2>2
  <2>8. Settled'
    BY <1>1, <2>1, <2>3, <2>4, <2>6, <2>7 DEF Settled, RetryStory, OneEach
  <2> QED BY <1>2, <2>8, OverTyped DEF Told, Working
<1> QED BY <1>1, <1>2, <1>3, <1>4, OverPlaced, TaskStep

LEMMA ReadForErrorKeeps ==
  ASSUME ReviewInv, NEW t \in ReviewTasks, ReadForError(t)
  PROVE  ReviewInv'
<1> DEFINE x == reviews[t]
           X == [x EXCEPT !.at = "blame", !.copy = Again(x.whom, "failed")]
<1>0. ReviewTyped /\ RowsTyped /\ x \in TaskRecord /\ WellPlaced(t, x)
  BY TypedNow
<1>1. /\ Working(t) /\ x.at = "error" /\ ~IsFull(t) /\ x.whom \in Roles
      /\ UNCHANGED outside /\ undisturbed' = undisturbed /\ session' = session
      /\ findings' = findings /\ verdicts' = verdicts /\ badged' = badged
      /\ reviews' = [reviews EXCEPT ![t] = X]
  BY <1>0 DEF ReadForError, Stands, Working, IsFull, WellPlaced, RetryPlaces,
              TaskRecord, Becomes, Revised, Again, outside, unchangedRows
<1>2. X \in TaskRecord
  BY <1>0, <1>1, AgainIs DEF TaskRecord, ReviewPlaces, RetryPlaces
<1>3. /\ reviews' \in [ReviewTasks -> TaskRecord]
      /\ reviews'[t] = X
      /\ \A u \in ReviewTasks \ {t} : reviews'[u] = reviews[u]
  BY <1>0, <1>1, <1>2, Put DEF ReviewTyped
<1>4. ReviewTyped'
  BY <1>0, <1>1, <1>3, TypedStep DEF RowsTyped
<1>5. /\ X.at = "blame" /\ X.whom = x.whom /\ X.pair = x.pair
      /\ X.expired = x.expired /\ X.copy = Again(X.whom, "failed")
  BY <1>0 DEF TaskRecord
<1> HIDE DEF X
<1>6. WellPlaced(t, X)
  BY <1>0, <1>1, <1>5 DEF WellPlaced, FullPlaces, IsFull
<1>7. ASSUME undisturbed
      PROVE  Told(t)'
  <2>1. RetryStory(x) /\ ~x.expired
    BY <1>1, <1>7, RetryNow
  <2>2. RetryStory(reviews[t])'
    BY <1>1, <1>3, <1>5, <2>1 DEF RetryStory, OneEach, Again
  <2> QED BY <1>1, <1>3, <1>5, <2>1, <2>2 DEF Told, Story, Working, IsFull
<1> QED BY <1>1, <1>3, <1>4, <1>6, <1>7, TaskStep

LEMMA BlameKeeps ==
  ASSUME ReviewInv, NEW t \in ReviewTasks, Blame(t)
  PROVE  ReviewInv'
<1> DEFINE x == reviews[t]
<1>0. ReviewTyped /\ RowsTyped /\ x \in TaskRecord /\ WellPlaced(t, x)
  BY TypedNow
<1>1. /\ Working(t) /\ x.at = "blame" /\ ~IsFull(t) /\ x.whom \in Roles
      /\ UNCHANGED outside /\ undisturbed' = undisturbed /\ session' = x.copy
      /\ findings' = findings /\ verdicts' = verdicts /\ badged' = badged
      /\ Throws(t)
  BY <1>0 DEF Blame, Stands, Working, IsFull, WellPlaced, RetryPlaces,
              TaskRecord, outside, unchangedRows
<1>2. ReviewTyped'
  BY <1>0, <1>1, PutThrow, TypedStep DEF RowsTyped, TaskRecord
<1>3. ASSUME undisturbed
      PROVE  Told(t)'
  <2>1. RetryStory(x)
    BY <1>1, <1>3, RetryNow
  <2>2. session' = Again(x.whom, "failed")
    BY <1>1, <2>1 DEF RetryStory
  <2>3. /\ session'.status = "partial" /\ session'.results[x.whom] = "failed"
        /\ \A q \in Roles \ {x.whom} : session'.results[q] = session.results[q]
    BY <1>0, <1>1, <2>1, <2>2, AgainIs DEF RetryStory
  <2>4. \A f \in findings : f.role \in Roles \ {x.whom}
    BY <1>0, <1>1, <2>1 DEF RowsTyped, Finding, RetryStory
  <2>5. \A f \in findings : session'.results[f.role] = "success"
    BY <2>1, <2>3, <2>4 DEF RetryStory
  <2>6. CASE reviews'[t] = Over
    <3>1. \A q \in Roles : Done(session'.results[q])
      BY <2>1, <2>3 DEF RetryStory, Done
    <3>2. ~\A q \in Roles : session'.results[q] = "failed"
      BY <2>1, <2>3 DEF RetryStory
    <3>3. FinalStatus(session'.results) = "partial"
      BY <1>1, <2>3 DEF FinalStatus
    <3>4. Settled'
      BY <1>1, <2>1, <2>3, <2>5, <3>1, <3>2, <3>3
         DEF Settled, RetryStory, OneEach
    <3> QED BY <2>6, <3>4, OverTyped DEF Told, Working
  <2>7. CASE reviews'[t] = Attempt(x.whom, x.attempt + 1)
    <3>1. /\ reviews'[t].at = "start" /\ reviews'[t].whom = x.whom
          /\ ~reviews'[t].expired
      BY <2>7 DEF Attempt
    <3>2. RetryStory(reviews[t])'
      BY <1>1, <2>1, <2>3, <2>4, <3>1 DEF RetryStory, OneEach
    <3> QED BY <1>1, <3>1, <3>2 DEF Told, Story, Working, IsFull
  <2> QED BY <1>0, <1>1, <2>6, <2>7, PutThrow
<1> QED BY <1>0, <1>1, <1>2, <1>3, PutThrow, TaskStep

-----------------------------------------------------------------------------
(* The user, and what goes wrong *)

LEMMA LaunchKeeps ==
  ASSUME ReviewInv, NEW t \in ReviewTasks, NEW whom \in Roles \cup {Everyone},
         Launch(t, whom),
         undisturbed /\ Settled => Story(reviews[t])'
  PROVE  ReviewInv'
<1> DEFINE X == Attempt(whom, 0)
<1>0. ReviewTyped /\ RowsTyped /\ reviews[t] \in TaskRecord
  BY TypedNow
<1>1. /\ reviews' = [reviews EXCEPT ![t] = X] /\ tracked' = t
      /\ undisturbed' = (undisturbed /\ Quiet) /\ session' = session
      /\ findings' = findings /\ verdicts' = verdicts /\ badged' = badged
      /\ reviewMishaps' = reviewMishaps
  BY DEF Launch, Becomes, unchangedRows
<1>2. X \in TaskRecord
  <2>1. 0 \in 0..MaxReviewRetries
    BY ReviewAssumption
  <2> QED BY <2>1, AttemptTyped
<1>3. X.at = "start" /\ X.pair = {}
  BY DEF Attempt
<1> HIDE DEF X
<1>4. /\ reviews' \in [ReviewTasks -> TaskRecord]
      /\ reviews'[t] = X
      /\ \A u \in ReviewTasks \ {t} : reviews'[u] = reviews[u]
  BY <1>0, <1>1, <1>2, Put DEF ReviewTyped
<1>5. ReviewTyped'
  <2>1. tracked' \in 0..MaxReviews
    BY <1>1, ReviewAssumption DEF ReviewTasks
  <2>2. undisturbed' \in BOOLEAN
    BY <1>1
  <2> QED BY <1>0, <1>1, <1>4, <2>1, <2>2 DEF ReviewTyped
<1>6. Placed'
  <2>1. WellPlaced(t, X)
    BY <1>3 DEF WellPlaced, FullPlaces, RetryPlaces
  <2> QED BY <1>4, <2>1 DEF ReviewInv, Placed
<1>7. Calm'
  <2> SUFFICES ASSUME undisturbed' PROVE Calm'
    BY DEF Calm
  <2>1. undisturbed /\ Quiet
    BY <1>1
  <2>2. Settled
    BY <2>1 DEF ReviewInv, Calm
  <2>3. \A u \in ReviewTasks : Working(u)' => u = t
    BY <1>4, <2>1 DEF Quiet, Working
  <2>4. Working(t)' /\ Story(reviews[t])'
    BY <1>3, <1>4, <2>1, <2>2 DEF Working
  <2>5. ~Quiet'
    BY <2>4 DEF Quiet
  <2> QED BY <2>3, <2>4, <2>5 DEF Calm
<1> QED BY <1>5, <1>6, <1>7 DEF ReviewInv

LEMMA StartReviewKeeps ==
  ASSUME ReviewInv, NEW t \in ReviewTasks, StartReview(t)
  PROVE  ReviewInv'
<1>0. ReviewTyped /\ RowsTyped /\ reviews[t] \in TaskRecord
  BY TypedNow
<1>1. /\ Launch(t, Everyone) /\ session.status \in {"none", "running", "failed"}
      /\ session' = session /\ findings' = findings /\ badged' = badged
  BY DEF StartReview, Launch, unchangedRows
<1>2. reviews'[t] = Attempt(Everyone, 0)
  BY <1>0, <1>1 DEF Launch, Becomes, ReviewTyped
<1>3. ASSUME undisturbed, Settled
      PROVE  Story(reviews[t])'
  <2>1. findings = {} /\ badged = {}
    <3>1. CASE session.status = "none" /\ findings = {} /\ badged = {}
      BY <3>1
    <3>2. CASE ~(session.status = "none" /\ findings = {} /\ badged = {})
      <4>1. \A r \in Roles : session.results[r] = "failed"
        BY <1>1, <1>3, <3>2 DEF Settled, FinalStatus
      <4>2. \A f \in findings : f.role \in Roles /\ session.results[f.role] = "success"
        BY <1>0, <1>3, <3>2 DEF Settled, RowsTyped, Finding
      <4> QED BY <1>0, <4>1, <4>2 DEF RowsTyped
    <3> QED BY <3>1, <3>2
  <2>2. /\ reviews'[t].at = "start" /\ reviews'[t].whom = Everyone
        /\ ~reviews'[t].expired
        /\ reviews'[t].raised = {} /\ reviews'[t].pair = {}
    BY <1>2 DEF Attempt
  <2>3. FullStory(reviews[t])'
    BY <1>1, <2>1, <2>2 DEF FullStory, Few
  <2> QED BY <2>2, <2>3 DEF Story
<1> QED BY <1>1, <1>3, LaunchKeeps

LEMMA RetryRoleKeeps ==
  ASSUME ReviewInv, NEW t \in ReviewTasks, NEW r \in Roles, RetryRole(t, r)
  PROVE  ReviewInv'
<1>0. ReviewTyped /\ RowsTyped /\ reviews[t] \in TaskRecord
  BY TypedNow
<1>1. /\ Launch(t, r) /\ session.status \in {"partial", "completed", "running"}
      /\ session.results[r] = "failed"
      /\ session' = session /\ findings' = findings /\ badged' = badged
  BY DEF RetryRole, Launch, unchangedRows
<1>2. reviews'[t] = Attempt(r, 0)
  BY <1>0, <1>1 DEF Launch, Becomes, ReviewTyped
<1>3. ASSUME undisturbed, Settled
      PROVE  Story(reviews[t])'
  <2>1. /\ \A q \in Roles : Done(session.results[q])
        /\ session.status = IF \A q \in Roles : session.results[q] = "failed"
                            THEN "failed" ELSE FinalStatus(session.results)
        /\ OneEach /\ Few(badged)
        /\ \A f \in findings : session.results[f.role] = "success"
    BY <1>1, <1>3 DEF Settled
  <2>2. session.status = "partial"
    BY <1>1, <2>1 DEF FinalStatus
  <2>3. \E q \in Roles \ {r} : session.results[q] = "success"
    BY <1>1, <2>1, <2>2 DEF Done
  <2>4. \A f \in findings : f.role # r
    BY <1>1, <2>1
  <2>5. /\ reviews'[t].at = "start" /\ reviews'[t].whom = r
        /\ ~reviews'[t].expired
    BY <1>2 DEF Attempt
  <2>6. RetryStory(reviews[t])'
    BY <1>1, <2>1, <2>2, <2>3, <2>4, <2>5 DEF RetryStory, OneEach
  <2>7. r # Everyone
    BY ReviewAssumption
  <2> QED BY <2>5, <2>6, <2>7 DEF Story
<1> QED BY <1>1, <1>3, LaunchKeeps

LEMMA HandleFindingKeeps ==
  ASSUME ReviewInv, NEW f \in findings, HandleFinding(f)
  PROVE  ReviewInv'
<1>1. /\ verdicts' = verdicts \cup {f} /\ session' = session
      /\ findings' = findings /\ badged' = badged /\ reviews' = reviews
      /\ tracked' = tracked /\ undisturbed' = undisturbed
      /\ reviewMishaps' = reviewMishaps
  BY DEF HandleFinding, outside
<1>2. ReviewTyped'
  BY <1>1 DEF ReviewInv, ReviewTyped
<1>3. Placed'
  BY <1>1 DEF ReviewInv, Placed
<1>4. Calm'
  <2>1. Quiet' = Quiet /\ Settled' = Settled
    BY <1>1 DEF Quiet, Working, Settled, OneEach
  <2>2. \A t \in ReviewTasks : Story(reviews[t])' = Story(reviews[t])
    BY <1>1 DEF Story, FullStory, RetryStory, OneEach, Again
  <2> QED BY <1>1, <2>1, <2>2 DEF ReviewInv, Calm, Working
<1> QED BY <1>2, <1>3, <1>4 DEF ReviewInv

\* After a mishap only the types and the places count.
LEMMA MishapKeeps ==
  ASSUME ReviewTyped, Mishap, UNCHANGED <<session, unchangedRows>>,
         tracked' \in 0..MaxReviews,
         reviews' \in [ReviewTasks -> TaskRecord], Placed'
  PROVE  ReviewInv'
<1>1. reviewMishaps' \in 0..MaxReviewMishaps
  <2>1. reviewMishaps \in 0..MaxReviewMishaps /\ reviewMishaps > 0
    BY DEF ReviewTyped, Mishap
  <2> QED BY <2>1, ReviewAssumption DEF Mishap
<1>2. undisturbed' = FALSE
  BY DEF Mishap
<1>3. /\ session' = session /\ findings' = findings
      /\ verdicts' = verdicts /\ badged' = badged
  BY DEF unchangedRows
<1>4. ReviewTyped'
  BY <1>1, <1>2, <1>3 DEF ReviewTyped
<1>5. Calm'
  BY <1>2 DEF Calm
<1> QED BY <1>4, <1>5 DEF ReviewInv

LEMMA TripsKeeps ==
  ASSUME ReviewInv, NEW t \in ReviewTasks, Trips(t)
  PROVE  ReviewInv'
<1>0. ReviewTyped /\ reviews[t] \in TaskRecord /\ WellPlaced(t, reviews[t])
  BY TypedNow
<1>1. Mishap /\ UNCHANGED <<session, unchangedRows>> /\ tracked' \in 0..MaxReviews
  BY <1>0 DEF Trips, ReviewTyped
<1>2. CASE reviews[t].at \in {"drop", "insert", "reread", "reset", "finish"}
  <2>1. Proceeds(t, "error")
    BY <1>2 DEF Trips
  <2>2. /\ reviews' \in [ReviewTasks -> TaskRecord]
        /\ reviews'[t] = [reviews[t] EXCEPT !.at = "error"]
        /\ \A u \in ReviewTasks \ {t} : reviews'[u] = reviews[u]
    BY <1>0, <2>1, PutPlace DEF ReviewPlaces, RetryPlaces
  <2>3. WellPlaced(t, reviews'[t])
    BY <1>0, <1>2, <2>2 DEF WellPlaced, FullPlaces, RetryPlaces, TaskRecord
  <2>4. Placed'
    BY <2>2, <2>3 DEF ReviewInv, Placed
  <2> QED BY <1>0, <1>1, <2>2, <2>4, MishapKeeps
<1>3. CASE reviews[t].at \notin {"drop", "insert", "reread", "reset", "finish"}
  <2>1. Throws(t)
    BY <1>3 DEF Trips
  <2>2. Placed'
    BY <1>0, <2>1, PutThrow DEF ReviewInv, Placed
  <2> QED BY <1>0, <1>1, <2>1, <2>2, PutThrow, MishapKeeps
<1> QED BY <1>2, <1>3

LEMMA ExpiresKeeps ==
  ASSUME ReviewInv, NEW t \in ReviewTasks, Expires(t)
  PROVE  ReviewInv'
<1> DEFINE X == [reviews[t] EXCEPT !.expired = TRUE]
<1>0. ReviewTyped /\ reviews[t] \in TaskRecord /\ WellPlaced(t, reviews[t])
  BY TypedNow
<1>1. Mishap /\ UNCHANGED <<session, unchangedRows>> /\ tracked' \in 0..MaxReviews
  BY <1>0 DEF Expires, ReviewTyped
<1>2. reviews' = [reviews EXCEPT ![t] = X]
  BY <1>0 DEF Expires, ReviewTyped
<1>3. X \in TaskRecord
  BY <1>0 DEF TaskRecord
<1>4. /\ reviews' \in [ReviewTasks -> TaskRecord]
      /\ reviews'[t] = X
      /\ \A u \in ReviewTasks \ {t} : reviews'[u] = reviews[u]
  BY <1>0, <1>2, <1>3, Put DEF ReviewTyped
<1>5. WellPlaced(t, X)
  BY <1>0 DEF WellPlaced, TaskRecord, Raised
<1>6. Placed'
  BY <1>4, <1>5 DEF ReviewInv, Placed
<1> QED BY <1>0, <1>1, <1>4, <1>6, MishapKeeps

LEMMA QuitsKeeps ==
  ASSUME ReviewInv, Quits
  PROVE  ReviewInv'
<1>0. ReviewTyped /\ Placed
  BY DEF ReviewInv
<1>1. Mishap /\ UNCHANGED <<session, unchangedRows>> /\ tracked' \in 0..MaxReviews
  BY ReviewAssumption DEF Quits
<1>2. reviews' = [t \in ReviewTasks |-> IF Working(t) THEN Over ELSE reviews[t]]
  BY DEF Quits
<1>3. reviews' \in [ReviewTasks -> TaskRecord]
  BY <1>0, <1>2, OverTyped DEF ReviewTyped
<1>4. ASSUME NEW t \in ReviewTasks
      PROVE  WellPlaced(t, reviews'[t])
  <2>1. reviews'[t] = Over \/ reviews'[t] = reviews[t]
    BY <1>2
  <2> QED BY <1>0, <2>1, OverPlaced DEF Placed
<1>5. Placed'
  BY <1>4 DEF Placed
<1> QED BY <1>0, <1>1, <1>3, <1>5, MishapKeeps

-----------------------------------------------------------------------------
LEMMA ReviewStarts == ReviewInit => ReviewInv
<1> SUFFICES ASSUME ReviewInit PROVE ReviewInv
  OBVIOUS
<1>1. NoSession \in Sessions
  BY DEF NoSession, Sessions, AllRoles
<1>2. \A t \in ReviewTasks : reviews[t] = Unused /\ WellPlaced(t, Unused)
  BY UnusedTyped DEF ReviewInit, WellPlaced, FullPlaces, RetryPlaces
<1>3. ReviewTyped
  BY <1>1, UnusedTyped, ReviewAssumption DEF ReviewInit, ReviewTyped
<1>4. \A t \in ReviewTasks : ~Working(t)
  BY <1>2, UnusedTyped DEF Working
<1>5. Settled
  BY DEF ReviewInit, Settled, NoSession
<1> QED BY <1>2, <1>3, <1>4, <1>5 DEF ReviewInv, Placed, Calm

LEMMA ReviewStep == ReviewInv /\ [ReviewNext]_reviewVars => ReviewInv'
<1> SUFFICES ASSUME ReviewInv, [ReviewNext]_reviewVars PROVE ReviewInv'
  OBVIOUS
<1>1. ASSUME NEW t \in ReviewTasks, FullReview(t)
      PROVE  ReviewInv'
  BY <1>1, SaveSessionKeeps, RolesBeginKeeps, RoleAnswersKeeps, TallyKeeps,
     DetectKeeps, ClearKeeps, CloseKeeps, StoreKeeps DEF FullReview
<1>2. ASSUME NEW t \in ReviewTasks, RoleRetry(t)
      PROVE  ReviewInv'
  BY <1>2, ReadSessionKeeps, MarkRoleKeeps, CallRoleKeeps, DropFindingsKeeps,
     InsertFindingsKeeps, RereadKeeps, ResetGroupsKeeps, DetectAgainKeeps,
     FinishKeeps, ReadForErrorKeeps, BlameKeeps DEF RoleRetry
<1>3. ASSUME NEW t \in ReviewTasks,
             \/ StartReview(t) \/ Trips(t) \/ Expires(t)
             \/ \E r \in Roles : RetryRole(t, r)
      PROVE  ReviewInv'
  BY <1>3, StartReviewKeeps, TripsKeeps, ExpiresKeeps, RetryRoleKeeps
<1>4. ASSUME NEW f \in findings, HandleFinding(f)
      PROVE  ReviewInv'
  BY <1>4, HandleFindingKeeps
<1>5. CASE Quits
  BY <1>5, QuitsKeeps
<1>6. CASE UNCHANGED reviewVars
  <2>1. /\ session' = session /\ findings' = findings /\ verdicts' = verdicts
        /\ badged' = badged /\ reviews' = reviews /\ tracked' = tracked
        /\ undisturbed' = undisturbed /\ reviewMishaps' = reviewMishaps
    BY <1>6 DEF reviewVars
  <2>2. ReviewTyped' /\ Placed'
    BY <2>1 DEF ReviewInv, ReviewTyped, Placed
  <2>3. Quiet' = Quiet /\ Settled' = Settled
    BY <2>1 DEF Quiet, Working, Settled, OneEach
  <2>4. \A t \in ReviewTasks : Story(reviews[t])' = Story(reviews[t])
    BY <2>1 DEF Story, FullStory, RetryStory, OneEach, Again
  <2>5. Calm'
    BY <2>1, <2>3, <2>4 DEF ReviewInv, Calm, Working
  <2> QED BY <2>2, <2>5 DEF ReviewInv
<1> QED BY <1>1, <1>2, <1>3, <1>4, <1>5, <1>6 DEF ReviewNext

\* The inductive invariant: the types, where each task may stand, and the story
\* of the one task that is under way as long as nothing disturbs it.
THEOREM ReviewInvariant == ReviewSpec => []ReviewInv
BY ReviewStarts, ReviewStep, PTL DEF ReviewSpec

\* Every variable keeps its type, and only stored findings are marked.
THEOREM ReviewTypeCorrect == ReviewSpec => []ReviewTypeOK
<1>1. ReviewInv => ReviewTypeOK
  BY DEF ReviewInv, ReviewTyped, TaskRecord, ReviewTypeOK
<1> QED BY <1>1, ReviewInvariant, PTL

\* A review that nothing disturbs ends with a session, findings and badges that
\* tell the same story, however often its attempts were repeated.
THEOREM QuietReviewsAreWhole == ReviewSpec => []WholeWhenAlone
<1>1. ReviewTyped /\ Calm => WholeWhenAlone
  <2> SUFFICES ASSUME ReviewTyped, Calm, undisturbed, Quiet, session.status # "none"
               PROVE  WholeWhenAlone
    BY DEF WholeWhenAlone
  <2>1. /\ \A r \in Roles : Done(session.results[r])
        /\ session.status = IF \A r \in Roles : session.results[r] = "failed"
                            THEN "failed" ELSE FinalStatus(session.results)
        /\ OneEach /\ Few(badged)
        /\ \A f \in findings : session.results[f.role] = "success"
    BY DEF Calm, Settled
  <2>2. Cardinality(badged) # 1
    BY <2>1, FS_EmptySet DEF Few
  <2> QED BY <2>1, <2>2 DEF WholeWhenAlone, Done, OneEach
<1> QED BY <1>1, ReviewInvariant, PTL DEF ReviewInv

\* What the user has decided outlives everything but a full review and a retry
\* of the same role, whatever overlaps, fails or breaks off.
THEOREM VerdictsAreKept == ReviewSpec => VerdictsKept
<1> DEFINE Outlives == \A f \in verdicts \ verdicts' :
                     /\ f \notin findings'
                     /\ \E t \in ReviewTasks :
                          /\ reviews[t].whom \in {Everyone, f.role}
                          /\ reviews[t] # reviews'[t]
<1>1. ASSUME ReviewInv, NEW t \in ReviewTasks, Clear(t)
      PROVE  Outlives
  <2>0. ReviewTyped /\ reviews[t] \in TaskRecord /\ WellPlaced(t, reviews[t])
    BY <1>1, TypedNow
  <2>1. reviews'[t] = [reviews[t] EXCEPT !.at = "close"]
    BY <1>1, <2>0, PutPlace DEF Clear, ReviewPlaces, FullPlaces
  <2>2. reviews'[t] # reviews[t] /\ reviews[t].whom = Everyone
    BY <1>1, <2>0, <2>1 DEF Clear, Stands, TaskRecord, WellPlaced, FullPlaces, IsFull
  <2>3. findings' = {}
    BY <1>1 DEF Clear, Deletes
  <2> QED BY <2>2, <2>3
<1>2. ASSUME ReviewInv, NEW t \in ReviewTasks, DropFindings(t)
      PROVE  Outlives
  <2>0. ReviewTyped /\ reviews[t] \in TaskRecord
    BY <1>2, TypedNow
  <2>1. reviews'[t] = [reviews[t] EXCEPT !.at = "insert"]
    BY <1>2, <2>0, PutPlace DEF DropFindings, ReviewPlaces, RetryPlaces
  <2>2. reviews'[t] # reviews[t]
    BY <1>2, <2>0, <2>1 DEF DropFindings, Stands, TaskRecord
  <2>3. ASSUME NEW f \in verdicts \ verdicts'
        PROVE  f.role = reviews[t].whom /\ f \notin findings'
    BY <1>2, <2>0, <2>3 DEF DropFindings, Deletes, ReviewTyped
  <2> QED BY <2>2, <2>3
<1>3. ASSUME verdicts \subseteq verdicts'
      PROVE  Outlives
  BY <1>3
<1>4. ReviewInv /\ [ReviewNext]_reviewVars => [Outlives]_reviewVars
  <2> SUFFICES ASSUME ReviewInv, ReviewNext PROVE Outlives
    OBVIOUS
  <2> HIDE DEF Outlives
  <2>1. ASSUME NEW t \in ReviewTasks, FullReview(t) PROVE Outlives
    BY <1>1, <1>3, <2>1
       DEF FullReview, SaveSession, RolesBegin, RoleAnswers, Tally, Detect,
           Close, Store, unchangedRows, outside
  <2>2. ASSUME NEW t \in ReviewTasks, RoleRetry(t) PROVE Outlives
    BY <1>2, <1>3, <2>2
       DEF RoleRetry, ReadSession, MarkRole, CallRole, InsertFindings, Reread,
           ResetGroups, DetectAgain, Finish, ReadForError, Blame,
           unchangedRows, outside
  <2>3. ASSUME NEW t \in ReviewTasks,
               \/ StartReview(t) \/ Trips(t) \/ Expires(t)
               \/ \E r \in Roles : RetryRole(t, r)
        PROVE  Outlives
    BY <1>3, <2>3 DEF StartReview, RetryRole, Launch, Trips, Expires, unchangedRows
  <2>4. ASSUME NEW f \in findings, HandleFinding(f) PROVE Outlives
    BY <1>3, <2>4 DEF HandleFinding
  <2>5. CASE Quits
    BY <1>3, <2>5 DEF Quits, unchangedRows
  <2> QED BY <2>1, <2>2, <2>3, <2>4, <2>5 DEF ReviewNext
<1> QED BY <1>4, ReviewInvariant, PTL DEF ReviewSpec, VerdictsKept

-----------------------------------------------------------------------------
(***************************************************************************)
(* Queue, batch, section and review together.                              *)
(***************************************************************************)

\* The types of the four parts hold also where a part rests; each part keeps its
\* own, whichever of them moves.
WorkInv == TypeOK /\ BatchTyped /\ SectionShape /\ ReviewInv

LEMMA BatchRestsTyped == BatchRests => BatchTyped
<1> SUFFICES ASSUME BatchRests PROVE BatchTyped
  OBVIOUS
<1>1. MaxAutoRetries \in Nat
  BY SectionsAre
<1>2. IsFiniteSet({})
  BY FS_EmptySet
<1>3. TasksTyped
  BY <1>2 DEF BatchRests, TasksTyped
<1>4. SectionsTyped /\ DisplayTyped
  BY <1>1 DEF BatchRests, SectionsTyped, DisplayTyped, States, Texts, ShownAs
<1> QED BY <1>2, <1>3, <1>4, BatchTypedIs DEF BatchRests

LEMMA WorkStarts == WorkInit => WorkInv
BY InitTypeOK, BatchTypedInit, BatchRestsTyped, SectionShapeInit, ReviewStarts
   DEF WorkInit, WorkInv

LEMMA WorkStep == WorkInv /\ [WorkNext]_work => WorkInv'
<1> SUFFICES ASSUME WorkInv, [WorkNext]_work PROVE WorkInv'
  OBVIOUS
<1>1. [Next]_vars /\ [BatchNext]_batchVars /\ [SectionNext]_sectionVars /\ [ReviewNext]_reviewVars
  BY DEF WorkNext, work
<1>2. TypeOK'
  BY <1>1, TypePreserved DEF WorkInv
<1>3. BatchTyped'
  BY <1>1, BatchTypedStep DEF WorkInv
<1>4. SectionShape'
  BY <1>1, SectionShapeStep DEF WorkInv
<1>5. ReviewInv'
  BY <1>1, ReviewStep DEF WorkInv
<1> QED BY <1>2, <1>3, <1>4, <1>5 DEF WorkInv

\* Whichever of them moves, the variables of queue, batch, section and review
\* keep their types.
THEOREM WorkTypeCorrect == WorkSpec => []WorkTypeOK
<1>1. ReviewInv => ReviewTypeOK
  BY DEF ReviewInv, ReviewTyped, TaskRecord, ReviewTypeOK
<1>2. WorkInv => WorkTypeOK
  BY <1>1, ShapeIsType DEF WorkInv, WorkTypeOK, BatchTyped
<1> QED BY <1>2, WorkStarts, WorkStep, PTL DEF WorkSpec
=============================================================================
