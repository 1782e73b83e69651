--------------------------- MODULE ServicesProofs ---------------------------
(***************************************************************************)
(* Proofs about the services that share no state with each other: the docx *)
(* bridge's process manager, for any number of processes, attempts and     *)
(* failed health checks; the migration of chapter ids, for any number of   *)
(* chapters, failures and restarts; and, with the proofs about the chapter *)
(* tree and about soft deletion, the types of all four.                    *)
(***************************************************************************)
EXTENDS MCServices, StructureDeleteProofs, ChapterTreeProofs, SequenceTheorems, TLAPS

(***************************************************************************)
(* The docx bridge's process manager.                                      *)
(***************************************************************************)

Awaited(p) == \E x \in Actors : Spawning(x, p)

\* The start at boot stops nothing.
BootNeverStops == frames.boot.at \notin {"shutdown", "graceful", "term"}

\* A renderer that has yet to print READY is awaited by a start or a restart,
\* or was killed.
BootingIsAwaited ==
  \A p \in Pythons : pythons[p] = "booting" => p \in killed \/ Awaited(p)

\* READY is printed by a renderer that has booted.
ReadyHasBooted == \A p \in pipe : pythons[p] \notin {"unborn", "booting"}

\* Of the promise jobs of one turn, a restart is begun by the first only, and
\* only when none is under way.
LaterJob == {"rejected", "waited"} \X Actors
BeginsFirst ==
  \/ jobs \in Seq(LaterJob)
  \/ /\ jobs # <<>> /\ Head(jobs) = <<"begin", "restart">>
     /\ Tail(jobs) \in Seq(LaterJob) /\ ~isRestarting

\* A child without a port is one somebody is starting or stopping.
ChildHasPort ==
  child # 0 /\ frames.quit.at = "idle" => port # 0 \/ isRestarting \/ frames.boot.at = "spawning"

\* After a quit that overlapped nothing, only the wait for the exit is left.
CalmQuit ==
  calm =>
    /\ frames.boot.at # "spawning" /\ ~isRestarting
    /\ probe = 0 /\ pipe = {} /\ health = FALSE
    /\ jobs = <<>> \/ jobs = <<<<"waited", "quit">>>>
    /\ \/ frames.quit.at = "done" /\ jobs = <<>> /\ child = 0
       \/ frames.quit.at \in {"shutdown", "graceful", "term"}
    /\ frames.quit.at # "idle"
    /\ intentionalStop

DInv == NoOrphan /\ BootNeverStops /\ BootingIsAwaited /\ ReadyHasBooted /\ BeginsFirst
        /\ ChildHasPort /\ CalmQuit

-----------------------------------------------------------------------------
(* Types *)

States == {"unborn", "booting", "serving", "deaf", "gone", "slain"}
FramePlaces == {"idle", "spawning", "shutdown", "graceful", "term", "done", "failed"}
FrameType  == [at : FramePlaces, proc : 0..MaxSpawns, attempt : 0..MaxRetries]
AnyJob == {"begin", "rejected", "waited"} \X Actors

LEMMA BoundsAre ==
  /\ MaxSpawns \in Nat /\ MaxRetries \in Nat /\ MaxFailures \in Nat
  /\ MaxSpawns >= 1 /\ MaxRetries >= 1 /\ MaxFailures >= 1
  /\ Pythons \subseteq 0..MaxSpawns /\ (\A p \in Pythons : p # 0)
  /\ 0 \in 0..MaxSpawns /\ 0 \in 0..MaxRetries /\ 1 \in 0..MaxRetries
BY DocxAssumption DEF Pythons

LEMMA TypesAre ==
  DocxTypeOK <=>
    /\ pythons \in [Pythons -> States]
    /\ killed \subseteq Pythons /\ pipe \subseteq Pythons /\ announced \subseteq Pythons
    /\ child \in 0..MaxSpawns /\ port \in 0..MaxSpawns /\ probe \in 0..MaxSpawns
    /\ frames \in [Actors -> FrameType]
    /\ jobs \in Seq(AnyJob)
    /\ intentionalStop \in BOOLEAN /\ health \in BOOLEAN /\ gaveUp \in BOOLEAN
    /\ late \in BOOLEAN /\ calm \in BOOLEAN
    /\ consecutiveFailures \in 0..(MaxFailures - 1)
BY DEF DocxTypeOK, States, FrameType, FramePlaces, AnyJob

LEMMA TypesArePrimed ==
  DocxTypeOK' <=>
    /\ pythons' \in [Pythons -> States]
    /\ killed' \subseteq Pythons /\ pipe' \subseteq Pythons /\ announced' \subseteq Pythons
    /\ child' \in 0..MaxSpawns /\ port' \in 0..MaxSpawns /\ probe' \in 0..MaxSpawns
    /\ frames' \in [Actors -> FrameType]
    /\ jobs' \in Seq(AnyJob)
    /\ intentionalStop' \in BOOLEAN /\ health' \in BOOLEAN /\ gaveUp' \in BOOLEAN
    /\ late' \in BOOLEAN /\ calm' \in BOOLEAN
    /\ consecutiveFailures' \in 0..(MaxFailures - 1)
BY DEF DocxTypeOK, States, FrameType, FramePlaces, AnyJob

\* What the shared steps change.
Fields ==
  /\ pythons \in [Pythons -> States] /\ killed \subseteq Pythons
  /\ child \in 0..MaxSpawns /\ port \in 0..MaxSpawns
  /\ frames \in [Actors -> FrameType] /\ gaveUp \in BOOLEAN

LEMMA AtTyped == \A place \in FramePlaces : At(place) \in FrameType
BY BoundsAre DEF At, FrameType

LEMMA KilledTyped == DocxTypeOK => Killed \subseteq Pythons
BY TypesAre DEF Killed, Pythons

LEMMA SpawnOnceTyped ==
  ASSUME DocxTypeOK, NEW x \in Actors, NEW k \in 0..MaxRetries,
         NEW oldPort \in 0..MaxSpawns, SpawnOnce(x, k, oldPort)
  PROVE  Fields'
<1>1. killed' \subseteq Pythons
  BY KilledTyped DEF SpawnOnce
<1>2. CASE \E p \in Unborn :
             /\ pythons' = [pythons EXCEPT ![p] = "booting"]
             /\ child' = p /\ port' = oldPort
             /\ frames' = [frames EXCEPT ![x] = [at |-> "spawning", proc |-> p,
                                                 attempt |-> k]]
             /\ UNCHANGED gaveUp
  <2>1. PICK p \in Unborn :
             /\ pythons' = [pythons EXCEPT ![p] = "booting"]
             /\ child' = p /\ port' = oldPort
             /\ frames' = [frames EXCEPT ![x] = [at |-> "spawning", proc |-> p,
                                                 attempt |-> k]]
             /\ UNCHANGED gaveUp
    BY <1>2
  <2>2. p \in Pythons /\ p \in 0..MaxSpawns
    BY BoundsAre DEF Unborn
  <2>3. [at |-> "spawning", proc |-> p, attempt |-> k] \in FrameType
    BY <2>2 DEF FrameType, FramePlaces
  <2>4. pythons' \in [Pythons -> States]
    BY <2>1, TypesAre DEF States
  <2>5. frames' \in [Actors -> FrameType]
    BY <2>1, <2>3, TypesAre
  <2> QED
    BY <1>1, <2>1, <2>2, <2>4, <2>5, TypesAre DEF Fields
<1>3. CASE /\ child' = 0 /\ port' = 0
           /\ frames' = [frames EXCEPT ![x] =
                           At(IF x = "boot" THEN "failed" ELSE "idle")]
           /\ gaveUp' = TRUE
           /\ UNCHANGED pythons
  <2>1. At(IF x = "boot" THEN "failed" ELSE "idle") \in FrameType
    BY AtTyped DEF FramePlaces
  <2>2. frames' \in [Actors -> FrameType]
    BY <1>3, <2>1, TypesAre
  <2> QED
    BY <1>1, <1>3, <2>2, TypesAre, BoundsAre DEF Fields
<1> QED
  BY <1>2, <1>3 DEF SpawnOnce

LEMMA StopReturnsTyped ==
  ASSUME DocxTypeOK, NEW x \in Actors, NEW oldPort \in 0..MaxSpawns,
         StopReturns(x, oldPort)
  PROVE  Fields' /\ intentionalStop' \in BOOLEAN
<1>1. CASE x = "quit"
  <2>1. At("done") \in FrameType
    BY AtTyped DEF FramePlaces
  <2>2. frames' \in [Actors -> FrameType]
    BY <1>1, <2>1, TypesAre DEF StopReturns
  <2>3. killed' \subseteq Pythons
    BY <1>1, KilledTyped DEF StopReturns
  <2> QED
    BY <1>1, <2>2, <2>3, TypesAre, BoundsAre DEF StopReturns, Fields
<1>2. CASE x # "quit"
  BY <1>2, SpawnOnceTyped, BoundsAre DEF StopReturns
<1> QED
  BY <1>1, <1>2

LEMMA WaitFrameTyped ==
  ASSUME DocxTypeOK, NEW place \in FramePlaces
  PROVE  [At(place) EXCEPT !.proc = child] \in FrameType
BY AtTyped, TypesAre DEF FrameType

LEMMA TerminateTyped ==
  ASSUME DocxTypeOK, NEW x \in Actors, Terminate(x)
  PROVE  Fields' /\ intentionalStop' \in BOOLEAN
<1>1. CASE StopReturns(x, 0)
  BY <1>1, StopReturnsTyped, BoundsAre
<1>2. CASE ~StopReturns(x, 0)
  <2>1. [At("term") EXCEPT !.proc = child] \in FrameType
    BY WaitFrameTyped DEF FramePlaces
  <2>2. /\ frames' = [frames EXCEPT ![x] = [At("term") EXCEPT !.proc = child]]
        /\ UNCHANGED <<pythons, killed, child, port, gaveUp, intentionalStop>>
    BY <1>2 DEF Terminate
  <2>3. frames' \in [Actors -> FrameType]
    BY <2>1, <2>2, TypesAre
  <2> QED
    BY <2>2, <2>3, TypesAre DEF Fields
<1> QED
  BY <1>1, <1>2

LEMMA BeginsTyped ==
  ASSUME DocxTypeOK, NEW x \in Actors, Begins(x)
  PROVE  Fields' /\ intentionalStop' \in BOOLEAN /\ health' \in BOOLEAN
<1>0. health' \in BOOLEAN
  BY DEF Begins
<1>1. CASE StopReturns(x, port) \/ StopReturns(x, 0)
  BY <1>0, <1>1, StopReturnsTyped, BoundsAre, TypesAre
<1>2. CASE ~(StopReturns(x, port) \/ StopReturns(x, 0))
  <2> DEFINE fr == [At("term") EXCEPT !.proc = child]
  <2>1. fr \in FrameType /\ At("done") \in FrameType /\ At("shutdown") \in FrameType
    BY WaitFrameTyped, AtTyped DEF FramePlaces
  <2>2. /\ \/ frames' = [frames EXCEPT !.quit = At("done")]
           \/ frames' = [frames EXCEPT ![x] = At("shutdown")]
           \/ frames' = [frames EXCEPT ![x] = fr]
        /\ intentionalStop' = TRUE
        /\ UNCHANGED <<pythons, killed, child, port, gaveUp>>
    BY <1>2 DEF Begins
  <2> HIDE DEF fr
  <2>3. frames' \in [Actors -> FrameType]
    BY <2>1, <2>2, TypesAre
  <2> QED
    BY <1>0, <2>2, <2>3, TypesAre DEF Fields
<1> QED
  BY <1>1, <1>2

LEMMA RejectedTyped ==
  ASSUME DocxTypeOK, NEW x \in Actors, Rejected(x)
  PROVE  Fields'
<1>1. CASE frames[x].attempt < MaxRetries
  <2>1. frames[x].attempt + 1 \in 0..MaxRetries
    BY <1>1, TypesAre, BoundsAre DEF FrameType
  <2> QED
    BY <1>1, <2>1, SpawnOnceTyped, BoundsAre DEF Rejected
<1>2. CASE ~(frames[x].attempt < MaxRetries)
  <2>1. At(IF x = "boot" THEN "failed" ELSE "idle") \in FrameType
    BY AtTyped DEF FramePlaces
  <2>2. frames' \in [Actors -> FrameType]
    BY <1>2, <2>1, TypesAre DEF Rejected
  <2>3. killed' \subseteq Pythons
    BY <1>2, KilledTyped DEF Rejected
  <2> QED
    BY <1>2, <2>2, <2>3, TypesAre, BoundsAre DEF Rejected, Fields
<1> QED
  BY <1>1, <1>2

-----------------------------------------------------------------------------
(* The promise jobs of an 'exit' event *)

OneJob(what, x, holds) == IF holds THEN <<<<what, x>>>> ELSE <<>>

Restarts(p)   == p \in announced /\ ~intentionalStop /\ ~isRestarting
Rejects(x, p) == Spawning(x, p) /\ port = 0
Waits(x, p)   == frames[x].at \in {"graceful", "term"} /\ frames[x].proc = p

LEMMA OneJobIs ==
  \A what \in {"rejected", "waited"}, x \in Actors, holds \in BOOLEAN :
    OneJob(what, x, holds) \in Seq(LaterJob)
<1> SUFFICES ASSUME NEW what \in {"rejected", "waited"}, NEW x \in Actors,
                    NEW holds \in BOOLEAN
             PROVE  OneJob(what, x, holds) \in Seq(LaterJob)
  OBVIOUS
<1> DEFINE j == <<what, x>>
<1>1. j \in LaterJob
  BY DEF LaterJob
<1> HIDE DEF j
<1>2. <<j>> \in Seq(LaterJob) /\ <<>> \in Seq(LaterJob)
  BY <1>1
<1> QED
  BY <1>2 DEF OneJob, j

LEMMA ExitsJobs ==
  ASSUME NEW p, Exits(p)
  PROVE  jobs' = OneJob("begin", "restart", Restarts(p))
                 \o OneJob("rejected", "boot", Rejects("boot", p))
                 \o OneJob("rejected", "restart", Rejects("restart", p))
                 \o OneJob("waited", "restart", Waits("restart", p))
                 \o OneJob("waited", "quit", Waits("quit", p))
BY DEF Exits, OneJob, Restarts, Rejects, Waits

\* The jobs of a turn in which a restart is begun: by the first of them.
Headed(s) == /\ s \in Seq(AnyJob) /\ s # <<>> /\ Head(s) = <<"begin", "restart">>
             /\ Tail(s) \in Seq(LaterJob)
Plain(s) == s \in Seq(LaterJob)

LEMMA LaterIsAny == Seq(LaterJob) \subseteq Seq(AnyJob)
<1>1. LaterJob \subseteq AnyJob
  BY DEF LaterJob, AnyJob
<1> QED
  BY <1>1, SeqMonotonic

LEMMA PlainAppends == \A s, t : Plain(s) /\ Plain(t) => Plain(s \o t)
BY ConcatProperties DEF Plain

LEMMA HeadedAppends == \A s, t : Headed(s) /\ Plain(t) => Headed(s \o t)
<1> SUFFICES ASSUME NEW s, NEW t, Headed(s), Plain(t)
             PROVE  Headed(s \o t)
  OBVIOUS
<1>1. /\ s \in Seq(AnyJob) /\ t \in Seq(AnyJob) /\ t \in Seq(LaterJob)
      /\ s # <<>> /\ Tail(s) \in Seq(LaterJob)
  BY LaterIsAny DEF Headed, Plain
<1>2. /\ Len(s) \in Nat /\ Len(s) >= 1 /\ Len(t) \in Nat /\ Head(s) = s[1]
      /\ Len(Tail(s)) = Len(s) - 1
      /\ \A i \in 1..Len(Tail(s)) : Tail(s)[i] = s[i + 1] /\ Tail(s)[i] \in LaterJob
  BY <1>1, LenProperties, EmptySeq, HeadTailProperties, ElementOfSeq
<1> DEFINE r == s \o t
<1>3. /\ r \in Seq(AnyJob) /\ Len(r) = Len(s) + Len(t)
      /\ \A i \in 1..(Len(s) + Len(t)) : r[i] = IF i <= Len(s) THEN s[i] ELSE t[i - Len(s)]
  BY <1>1, ConcatProperties
<1>4. \A i \in 1..Len(t) : t[i] \in LaterJob
  BY <1>1, ElementOfSeq
<1> HIDE DEF r
<1>5. r # <<>> /\ Head(r) = s[1]
  BY <1>2, <1>3, EmptySeq, HeadTailProperties
<1>6. /\ Tail(r) \in Seq(AnyJob) /\ Len(Tail(r)) = Len(r) - 1
      /\ \A i \in 1..Len(Tail(r)) : Tail(r)[i] = r[i + 1]
  BY <1>3, <1>5, HeadTailProperties
<1>7. \A i \in 1..Len(Tail(r)) : Tail(r)[i] \in LaterJob
  <2> SUFFICES ASSUME NEW i \in 1..Len(Tail(r))
               PROVE  Tail(r)[i] \in LaterJob
    OBVIOUS
  <2>1. /\ Tail(r)[i] = r[i + 1] /\ i \in Nat /\ i >= 1 /\ i + 1 <= Len(s) + Len(t)
    BY <1>2, <1>3, <1>6
  <2>2. CASE i + 1 <= Len(s)
    <3>1. r[i + 1] = s[i + 1]
      BY <1>2, <1>3, <2>1, <2>2
    <3>2. i \in 1..Len(Tail(s))
      BY <1>2, <2>1, <2>2
    <3> QED
      BY <1>2, <2>1, <3>1, <3>2
  <2>3. CASE ~(i + 1 <= Len(s))
    <3>1. r[i + 1] = t[(i + 1) - Len(s)]
      BY <1>2, <1>3, <2>1, <2>3
    <3>2. (i + 1) - Len(s) \in 1..Len(t)
      BY <1>2, <2>1, <2>3
    <3> QED
      BY <1>4, <2>1, <3>1, <3>2
  <2> QED
    BY <2>2, <2>3
<1>8. Tail(r) \in Seq(LaterJob)
  <2>1. Tail(r) \in [1..Len(Tail(r)) -> LaterJob] /\ Len(Tail(r)) \in Nat
    BY <1>6, <1>7, LenProperties
  <2> QED
    BY <2>1, SeqDef
<1> QED
  BY <1>2, <1>3, <1>5, <1>8 DEF Headed, r

LEMMA ExitsBegins ==
  ASSUME NEW p, Exits(p)
  PROVE  \/ jobs' \in Seq(LaterJob)
         \/ /\ jobs' # <<>> /\ Head(jobs') = <<"begin", "restart">>
            /\ Tail(jobs') \in Seq(LaterJob) /\ Restarts(p)
            /\ jobs' \in Seq(AnyJob)
<1> DEFINE e == OneJob("begin", "restart", Restarts(p))
           a == OneJob("rejected", "boot", Rejects("boot", p))
           b == OneJob("rejected", "restart", Rejects("restart", p))
           c == OneJob("waited", "restart", Waits("restart", p))
           d == OneJob("waited", "quit", Waits("quit", p))
<1>1. Plain(a) /\ Plain(b)
  BY OneJobIs DEF Actors, Rejects, Spawning, Plain
<1>2. Plain(c) /\ Plain(d)
  BY OneJobIs DEF Actors, Waits, Plain
<1>3. jobs' = (((e \o a) \o b) \o c) \o d
  BY ExitsJobs
<1>4. CASE Restarts(p)
  <2> DEFINE j == <<"begin", "restart">>
  <2>1. e = <<j>>
    BY <1>4 DEF OneJob
  <2>2. j \in AnyJob
    BY DEF AnyJob, Actors
  <2> HIDE DEF a, b, c, d, e, j
  <2>3. <<j>> \in Seq(AnyJob) /\ <<j>> # <<>> /\ Head(<<j>>) = j /\ Tail(<<j>>) = <<>>
    BY <2>2
  <2>4. <<>> \in Seq(LaterJob)
    OBVIOUS
  <2>5. Headed(e)
    BY <2>1, <2>3, <2>4 DEF Headed, j
  <2>6. Headed(e \o a)
    BY <1>1, <2>5, HeadedAppends
  <2>7. Headed((e \o a) \o b)
    BY <1>1, <2>6, HeadedAppends
  <2>8. Headed(((e \o a) \o b) \o c)
    BY <1>2, <2>7, HeadedAppends
  <2>9. Headed((((e \o a) \o b) \o c) \o d)
    BY <1>2, <2>8, HeadedAppends
  <2> QED
    BY <1>3, <1>4, <2>9 DEF Headed
<1>5. CASE ~Restarts(p)
  <2>1. Plain(e)
    BY <1>5 DEF OneJob, Plain
  <2> HIDE DEF a, b, c, d, e
  <2>2. Plain(e \o a)
    BY <1>1, <2>1, PlainAppends
  <2>3. Plain((e \o a) \o b)
    BY <1>1, <2>2, PlainAppends
  <2>4. Plain(((e \o a) \o b) \o c)
    BY <1>2, <2>3, PlainAppends
  <2>5. Plain((((e \o a) \o b) \o c) \o d)
    BY <1>2, <2>4, PlainAppends
  <2> QED
    BY <1>3, <2>5 DEF Plain
<1> QED
  BY <1>4, <1>5

\* An exit while nothing is started: only a quit may have waited for it.
LEMMA ExitsCalm ==
  ASSUME NEW p, Exits(p), frames.boot.at # "spawning", ~isRestarting,
         intentionalStop = TRUE
  PROVE  \/ jobs' = <<>>
         \/ jobs' = <<<<"waited", "quit">>>> /\ frames.quit.at \in {"graceful", "term"}
<1>1. /\ OneJob("rejected", "boot", Rejects("boot", p)) = <<>>
      /\ OneJob("rejected", "restart", Rejects("restart", p)) = <<>>
      /\ OneJob("waited", "restart", Waits("restart", p)) = <<>>
      /\ OneJob("begin", "restart", Restarts(p)) = <<>>
  BY DEF OneJob, Rejects, Waits, Spawning, isRestarting, Restarts
<1> DEFINE d == OneJob("waited", "quit", Waits("quit", p))
<1>2. d \in Seq(LaterJob)
  BY OneJobIs DEF Actors, Waits
<1>3. jobs' = (((<<>> \o <<>>) \o <<>>) \o <<>>) \o d
  BY <1>1, ExitsJobs
<1>4. jobs' = d
  <2> HIDE DEF d
  <2> QED
    BY <1>2, <1>3, ConcatEmptySeq
<1> QED
  BY <1>4 DEF OneJob, Waits

-----------------------------------------------------------------------------
(* Every variable keeps its type *)

LEMMA DocxTypeInit == DocxInit => DocxTypeOK
<1> SUFFICES ASSUME DocxInit
             PROVE  DocxTypeOK
  OBVIOUS
<1>1. At("idle") \in FrameType
  BY AtTyped DEF FramePlaces
<1>2. frames \in [Actors -> FrameType]
  BY <1>1 DEF DocxInit
<1>3. pythons \in [Pythons -> States]
  BY DEF DocxInit, States
<1>4. 0 \in 0..(MaxFailures - 1)
  BY BoundsAre
<1>5. jobs \in Seq(AnyJob)
  BY DEF DocxInit
<1>6. /\ killed \subseteq Pythons /\ pipe \subseteq Pythons /\ announced \subseteq Pythons
      /\ child = 0 /\ port = 0 /\ probe = 0 /\ consecutiveFailures = 0
  BY DEF DocxInit
<1>7. /\ intentionalStop \in BOOLEAN /\ health \in BOOLEAN /\ gaveUp \in BOOLEAN
      /\ late \in BOOLEAN /\ calm \in BOOLEAN
  BY DEF DocxInit
<1> QED
  BY <1>2, <1>3, <1>4, <1>5, <1>6, <1>7, TypesAre, BoundsAre

LEMMA DocxTypeNext == DocxTypeOK /\ [DocxNext]_docxVars => DocxTypeOK'
<1> SUFFICES ASSUME DocxTypeOK, [DocxNext]_docxVars
             PROVE  DocxTypeOK'
  OBVIOUS
<1>a. <<>> \in Seq(AnyJob)
  OBVIOUS
<1>1. CASE RunJob
  <2>1. Head(jobs) \in AnyJob /\ Tail(jobs) \in Seq(AnyJob)
    BY <1>1, TypesAre, HeadTailProperties DEF RunJob
  <2> DEFINE x == Head(jobs)[2]
  <2>2. x \in Actors /\ Head(jobs)[1] \in {"begin", "rejected", "waited"}
    BY <2>1 DEF AnyJob
  <2>3. Begins(x) \/ Rejected(x) \/ Waited(x)
    BY <1>1, <2>2 DEF RunJob
  <2>4. Fields' /\ intentionalStop' \in BOOLEAN /\ health' \in BOOLEAN
    <3>1. CASE Begins(x)
      BY <2>2, <3>1, BeginsTyped
    <3>2. CASE Rejected(x)
      BY <2>2, <3>2, RejectedTyped, TypesAre DEF Rejected
    <3>3. CASE Waited(x)
      BY <2>2, <3>3, StopReturnsTyped, TypesAre, BoundsAre DEF Waited
    <3> QED
      BY <2>3, <3>1, <3>2, <3>3
  <2>5. jobs' \in Seq(AnyJob)
    BY <1>1, <2>1 DEF RunJob
  <2> QED
    BY <1>1, <2>4, <2>5, TypesAre, TypesArePrimed DEF RunJob, Fields
<1>2. CASE Boot
  <2>1. Fields'
    BY <1>2, SpawnOnceTyped, TypesAre, BoundsAre DEF Boot, Actors
  <2> QED
    BY <1>2, <2>1, TypesAre, TypesArePrimed DEF Boot, Fields
<1>3. CASE Tick
  BY <1>3, TypesAre, TypesArePrimed DEF Tick
<1>4. CASE Probed
  <2>1. jobs' \in Seq(AnyJob)
    <3> DEFINE j == <<"begin", "restart">>
    <3>1. j \in AnyJob
      BY DEF AnyJob, Actors
    <3>2. jobs' = jobs \/ jobs' = <<>> \/ jobs' = <<j>>
      BY <1>4 DEF Probed
    <3> HIDE DEF j
    <3>3. jobs \in Seq(AnyJob) /\ <<>> \in Seq(AnyJob) /\ <<j>> \in Seq(AnyJob)
      BY <1>a, <3>1, TypesAre
    <3> QED
      BY <3>2, <3>3
  <2>2. consecutiveFailures' \in 0..(MaxFailures - 1)
    BY <1>4, TypesAre, BoundsAre DEF Probed
  <2> QED
    BY <1>4, <2>1, <2>2, TypesAre, TypesArePrimed, BoundsAre DEF Probed
<1>5. CASE Quit
  <2>1. Fields' /\ intentionalStop' \in BOOLEAN /\ health' \in BOOLEAN
    BY <1>5, BeginsTyped DEF Quit, Actors
  <2>2. calm' \in BOOLEAN
    BY <1>5 DEF Quit
  <2> QED
    BY <1>5, <2>1, <2>2, TypesAre, TypesArePrimed DEF Quit, Fields
<1>6. ASSUME NEW p \in Pythons, Prints(p)
      PROVE  DocxTypeOK'
  <2>1. pythons' \in [Pythons -> States]
    BY <1>6, TypesAre DEF Prints, States
  <2> QED
    BY <1>6, <2>1, TypesAre, TypesArePrimed DEF Prints
<1>7. ASSUME NEW p \in Pythons, OnReady(p)
      PROVE  DocxTypeOK'
  <2>1. p \in 0..MaxSpawns
    BY BoundsAre
  <2>2. At("done") \in FrameType /\ At("idle") \in FrameType
    BY AtTyped DEF FramePlaces
  <2>3. /\ frames' \in [Actors -> FrameType] /\ health' \in BOOLEAN /\ late' \in BOOLEAN
        /\ consecutiveFailures' \in 0..(MaxFailures - 1)
    <3>1. CASE \E x \in {"boot", "restart"} : Spawning(x, p)
      <4>1. frames' = [x \in Actors |->
                            IF ~Spawning(x, p) THEN frames[x]
                            ELSE At(IF x = "boot" THEN "done" ELSE "idle")]
        BY <1>7, <3>1 DEF OnReady
      <4>2. frames' \in [Actors -> FrameType]
        BY <2>2, <4>1, TypesAre
      <4>3. health' = TRUE /\ consecutiveFailures' = 0 /\ late' = late
        BY <1>7, <3>1 DEF OnReady
      <4>4. 0 \in 0..(MaxFailures - 1)
        BY BoundsAre
      <4> QED
        BY <4>2, <4>3, <4>4, TypesAre
    <3>2. CASE ~\E x \in {"boot", "restart"} : Spawning(x, p)
      BY <1>7, <3>2, TypesAre DEF OnReady
    <3> QED
      BY <3>1, <3>2
  <2>4. announced' \subseteq Pythons /\ pipe' \subseteq Pythons
    BY <1>7, TypesAre DEF OnReady
  <2> QED
    BY <1>7, <2>1, <2>3, <2>4, TypesAre, TypesArePrimed DEF OnReady
<1>8. ASSUME NEW p \in Pythons, Exits(p)
      PROVE  DocxTypeOK'
  <2>1. pythons' \in [Pythons -> States]
    BY <1>8, TypesAre DEF Exits, States
  <2>2. jobs' \in Seq(AnyJob)
    <3>1. LaterJob \subseteq AnyJob
      BY DEF LaterJob, AnyJob
    <3> QED
      BY <1>8, <3>1, ExitsBegins, SeqMonotonic
  <2>3. killed' \subseteq Pythons /\ announced' \subseteq Pythons
    BY <1>8, TypesAre DEF Exits
  <2> QED
    BY <1>8, <2>1, <2>2, <2>3, TypesAre, TypesArePrimed DEF Exits
<1>9. ASSUME NEW p \in Pythons, Hangs(p)
      PROVE  DocxTypeOK'
  <2>1. pythons' \in [Pythons -> States]
    BY <1>9, TypesAre DEF Hangs, States
  <2> QED
    BY <1>9, <2>1, TypesAre, TypesArePrimed DEF Hangs
<1>10. ASSUME NEW x \in Actors, StartupTimeout(x)
       PROVE  DocxTypeOK'
  <2>1. jobs' \in Seq(AnyJob)
    <3> DEFINE j == <<"rejected", x>>
    <3>1. j \in AnyJob /\ jobs' = <<j>>
      BY <1>10 DEF AnyJob, StartupTimeout
    <3> HIDE DEF j
    <3> QED
      BY <3>1
  <2> QED
    BY <1>10, <2>1, TypesAre, TypesArePrimed DEF StartupTimeout
<1>11. ASSUME NEW x \in Actors, ShutdownAnswered(x)
       PROVE  DocxTypeOK'
  <2>1. Fields' /\ intentionalStop' \in BOOLEAN
    <3>1. CASE StopReturns(x, 0)
      BY <3>1, StopReturnsTyped, BoundsAre
    <3>2. CASE Terminate(x)
      BY <3>2, TerminateTyped
    <3>3. CASE /\ frames' = [frames EXCEPT ![x] =
                                  [At("graceful") EXCEPT !.proc = child]]
               /\ UNCHANGED <<pythons, killed, child, port, gaveUp, intentionalStop>>
      <4>1. [At("graceful") EXCEPT !.proc = child] \in FrameType
        BY WaitFrameTyped DEF FramePlaces
      <4>2. frames' \in [Actors -> FrameType]
        BY <3>3, <4>1, TypesAre
      <4> QED
        BY <3>3, <4>2, TypesAre DEF Fields
    <3> QED
      BY <1>11, <3>1, <3>2, <3>3 DEF ShutdownAnswered
  <2> QED
    BY <1>11, <2>1, TypesAre, TypesArePrimed DEF ShutdownAnswered, Fields
<1>12. ASSUME NEW x \in Actors, WaitTimeout(x)
       PROVE  DocxTypeOK'
  <2>1. Fields' /\ intentionalStop' \in BOOLEAN
    BY <1>12, StopReturnsTyped, TerminateTyped, BoundsAre DEF WaitTimeout
  <2> QED
    BY <1>12, <2>1, TypesAre, TypesArePrimed DEF WaitTimeout, Fields
<1>13. CASE UNCHANGED docxVars
  BY <1>13, TypesAre, TypesArePrimed DEF docxVars
<1> QED
  BY <1>1, <1>2, <1>3, <1>4, <1>5, <1>6, <1>7, <1>8, <1>9, <1>10, <1>11, <1>12, <1>13
     DEF DocxNext
-----------------------------------------------------------------------------
(* What a call does to the renderers: it stops looking at nothing (Keep), or *)
(* kills its child and forgets it or replaces it (Clean).                    *)

Keep(x) ==
  /\ x # "boot" /\ frames[x].at # "spawning"
  /\ UNCHANGED <<pythons, killed, child, port>>
  /\ \E fr \in FrameType : /\ fr.at \in {"shutdown", "graceful", "term", "done"}
                       /\ frames' = [frames EXCEPT ![x] = fr]

Clean(x) ==
  /\ killed' = Killed
  /\ \E fr \in FrameType :
       /\ frames' = [frames EXCEPT ![x] = fr]
       /\ fr.at \in {"idle", "spawning", "done", "failed"}
       /\ \/ child' = 0 /\ pythons' = pythons /\ fr.at # "spawning"
          \/ \E p \in Unborn : /\ pythons' = [pythons EXCEPT ![p] = "booting"]
                               /\ child' = p
                               /\ fr.at = "spawning" /\ fr.proc = p

LEMMA SpawnOnceCleans ==
  ASSUME DocxTypeOK, NEW x \in Actors, NEW k \in 0..MaxRetries, NEW oldPort,
         SpawnOnce(x, k, oldPort)
  PROVE  Clean(x)
<1>1. killed' = Killed
  BY DEF SpawnOnce
<1>2. CASE \E p \in Unborn :
             /\ pythons' = [pythons EXCEPT ![p] = "booting"]
             /\ child' = p /\ port' = oldPort
             /\ frames' = [frames EXCEPT ![x] = [at |-> "spawning", proc |-> p,
                                                 attempt |-> k]]
             /\ UNCHANGED gaveUp
  <2>1. PICK p \in Unborn :
             /\ pythons' = [pythons EXCEPT ![p] = "booting"]
             /\ child' = p
             /\ frames' = [frames EXCEPT ![x] = [at |-> "spawning", proc |-> p,
                                                 attempt |-> k]]
    BY <1>2
  <2> DEFINE fr == [at |-> "spawning", proc |-> p, attempt |-> k]
  <2>2. p \in 0..MaxSpawns
    BY BoundsAre DEF Unborn
  <2>3. fr \in FrameType /\ fr.at = "spawning" /\ fr.proc = p
    BY <2>2 DEF FrameType, FramePlaces
  <2>4. frames' = [frames EXCEPT ![x] = fr]
    BY <2>1
  <2> HIDE DEF fr
  <2> QED
    BY <1>1, <2>1, <2>3, <2>4 DEF Clean
<1>3. CASE /\ child' = 0 /\ port' = 0
           /\ frames' = [frames EXCEPT ![x] =
                           At(IF x = "boot" THEN "failed" ELSE "idle")]
           /\ gaveUp' = TRUE
           /\ UNCHANGED pythons
  <2> DEFINE fr == At(IF x = "boot" THEN "failed" ELSE "idle")
  <2>1. fr \in FrameType /\ fr.at \in {"idle", "failed"}
    BY AtTyped DEF FramePlaces, At
  <2>2. frames' = [frames EXCEPT ![x] = fr] /\ child' = 0 /\ pythons' = pythons
    BY <1>3
  <2> HIDE DEF fr
  <2> QED
    BY <1>1, <2>1, <2>2 DEF Clean
<1> QED
  BY <1>2, <1>3 DEF SpawnOnce

LEMMA StopReturnsCleans ==
  ASSUME DocxTypeOK, NEW x \in Actors, NEW oldPort, StopReturns(x, oldPort)
  PROVE  Clean(x)
<1>1. CASE x = "quit"
  <2> DEFINE fr == At("done")
  <2>1. fr \in FrameType /\ fr.at = "done"
    BY AtTyped DEF FramePlaces, At
  <2>2. /\ frames' = [frames EXCEPT ![x] = fr]
        /\ killed' = Killed /\ child' = 0 /\ pythons' = pythons
    BY <1>1 DEF StopReturns
  <2> HIDE DEF fr
  <2> QED
    BY <2>1, <2>2 DEF Clean
<1>2. CASE x # "quit"
  BY <1>2, SpawnOnceCleans, BoundsAre DEF StopReturns
<1> QED
  BY <1>1, <1>2

LEMMA WaitsKeep ==
  ASSUME DocxTypeOK, NEW x \in Actors, x # "boot", frames[x].at # "spawning",
         UNCHANGED <<pythons, killed, child, port>>,
         NEW fr \in FrameType, fr.at \in {"shutdown", "graceful", "term", "done"},
         frames' = [frames EXCEPT ![x] = fr]
  PROVE  Keep(x)
BY DEF Keep

LEMMA TerminateSteps ==
  ASSUME DocxTypeOK, NEW x \in Actors, x # "boot", frames[x].at # "spawning",
         Terminate(x)
  PROVE  Keep(x) \/ Clean(x)
<1>1. CASE StopReturns(x, 0)
  BY <1>1, StopReturnsCleans
<1>2. CASE ~StopReturns(x, 0)
  <2> DEFINE fr == [At("term") EXCEPT !.proc = child]
  <2>1. fr \in FrameType
    BY WaitFrameTyped DEF FramePlaces
  <2>2. fr.at = "term"
    BY DEF At
  <2>3. frames' = [frames EXCEPT ![x] = fr]
        /\ UNCHANGED <<pythons, killed, child, port>>
    BY <1>2 DEF Terminate
  <2> HIDE DEF fr
  <2> QED
    BY <2>1, <2>2, <2>3, WaitsKeep
<1> QED
  BY <1>1, <1>2

LEMMA BeginsSteps ==
  ASSUME DocxTypeOK, NEW x \in {"restart", "quit"}, frames[x].at = "idle", Begins(x)
  PROVE  Keep(x) \/ Clean(x)
<1>1. CASE StopReturns(x, port) \/ StopReturns(x, 0)
  BY <1>1, StopReturnsCleans DEF Actors
<1>2. CASE ~(StopReturns(x, port) \/ StopReturns(x, 0))
  <2> DEFINE t == [At("term") EXCEPT !.proc = child]
             d == At("done")
             s == At("shutdown")
  <2>1. t \in FrameType /\ d \in FrameType /\ s \in FrameType
    BY WaitFrameTyped, AtTyped DEF FramePlaces
  <2>2. t.at = "term" /\ d.at = "done" /\ s.at = "shutdown"
    BY DEF At
  <2>3. /\ \/ frames' = [frames EXCEPT ![x] = d]
           \/ frames' = [frames EXCEPT ![x] = s]
           \/ frames' = [frames EXCEPT ![x] = t]
        /\ UNCHANGED <<pythons, killed, child, port>>
    BY <1>2 DEF Begins
  <2> HIDE DEF t, d, s
  <2>4. x \in Actors /\ x # "boot" /\ frames[x].at # "spawning"
    BY DEF Actors
  <2> QED
    BY <2>1, <2>2, <2>3, <2>4, WaitsKeep
<1> QED
  BY <1>1, <1>2

LEMMA RejectedCleans ==
  ASSUME DocxTypeOK, NEW x \in Actors, Rejected(x)
  PROVE  Clean(x)
<1>1. CASE frames[x].attempt < MaxRetries
  <2>1. frames[x].attempt + 1 \in 0..MaxRetries
    BY <1>1, TypesAre, BoundsAre DEF FrameType
  <2> QED
    BY <1>1, <2>1, SpawnOnceCleans DEF Rejected
<1>2. CASE ~(frames[x].attempt < MaxRetries)
  <2> DEFINE fr == At(IF x = "boot" THEN "failed" ELSE "idle")
  <2>1. fr \in FrameType /\ fr.at \in {"idle", "failed"}
    BY AtTyped DEF FramePlaces, At
  <2>2. /\ frames' = [frames EXCEPT ![x] = fr]
        /\ killed' = Killed /\ child' = 0 /\ pythons' = pythons
    BY <1>2 DEF Rejected
  <2> HIDE DEF fr
  <2> QED
    BY <2>1, <2>2 DEF Clean
<1> QED
  BY <1>1, <1>2

-----------------------------------------------------------------------------
(* What such a step keeps. *)

Sighted == NoOrphan /\ BootNeverStops /\ BootingIsAwaited /\ ReadyHasBooted /\ ChildHasPort

LEMMA KeepKeeps ==
  ASSUME DocxTypeOK, Sighted, NEW x \in Actors, Keep(x), pipe' = pipe
  PROVE  Sighted'
<1>1. PICK fr \in FrameType : /\ fr.at \in {"shutdown", "graceful", "term", "done"}
                          /\ frames' = [frames EXCEPT ![x] = fr]
  BY DEF Keep
<1>2. /\ frames'[x] = fr /\ \A y \in Actors \ {x} : frames'[y] = frames[y]
  BY <1>1, TypesAre
<1>3. Living' = Living
  BY DEF Keep, Living
<1>4. NoOrphan'
  BY <1>3 DEF Sighted, NoOrphan, Keep
<1>5. BootNeverStops'
  BY <1>2 DEF Sighted, BootNeverStops, Keep, Actors
<1>6. BootingIsAwaited'
  <2>1. \A y \in Actors, p \in Pythons : Spawning(y, p) => Spawning(y, p)'
    BY <1>2 DEF Keep, Spawning
  <2> QED
    BY <2>1 DEF Sighted, BootingIsAwaited, Awaited, Keep
<1>7. ReadyHasBooted'
  BY DEF Sighted, ReadyHasBooted, Keep
<1>8. ChildHasPort'
  BY <1>1, <1>2 DEF Sighted, ChildHasPort, Keep, Actors, isRestarting
<1> QED
  BY <1>4, <1>5, <1>6, <1>7, <1>8 DEF Sighted

LEMMA CleanKeeps ==
  ASSUME DocxTypeOK, Sighted, NEW x \in Actors, Clean(x), pipe' = pipe
  PROVE  Sighted'
<1>1. PICK fr \in FrameType :
       /\ frames' = [frames EXCEPT ![x] = fr]
       /\ fr.at \in {"idle", "spawning", "done", "failed"}
       /\ \/ child' = 0 /\ pythons' = pythons /\ fr.at # "spawning"
          \/ \E p \in Unborn : /\ pythons' = [pythons EXCEPT ![p] = "booting"]
                               /\ child' = p
                               /\ fr.at = "spawning" /\ fr.proc = p
  BY DEF Clean
<1>2. /\ frames'[x] = fr /\ \A y \in Actors \ {x} : frames'[y] = frames[y]
  BY <1>1, TypesAre
<1>3. /\ killed \subseteq killed' /\ (child # 0 => child \in killed')
  BY DEF Clean, Killed
<1>4. \A p \in Pythons : \/ pythons'[p] = pythons[p]
                         \/ /\ pythons[p] = "unborn" /\ pythons'[p] = "booting"
                            /\ child' = p /\ fr.at = "spawning" /\ fr.proc = p
  BY <1>1, TypesAre DEF Unborn
<1>5. NoOrphan'
  <2> SUFFICES ASSUME NEW p \in Living'
               PROVE  p = child' \/ p \in killed'
    BY DEF NoOrphan
  <2>1. p \in Pythons /\ p # 0
    BY BoundsAre DEF Living
  <2>2. CASE pythons'[p] = pythons[p]
    BY <1>3, <2>1, <2>2 DEF Sighted, NoOrphan, Living
  <2> QED
    BY <1>4, <2>1, <2>2
<1>6. BootNeverStops'
  BY <1>1, <1>2 DEF Sighted, BootNeverStops, Actors
<1>7. BootingIsAwaited'
  <2> SUFFICES ASSUME NEW p \in Pythons, pythons'[p] = "booting"
               PROVE  p \in killed' \/ Awaited(p)'
    BY DEF BootingIsAwaited
  <2>1. CASE pythons'[p] = pythons[p]
    <3>1. p \in Living /\ p # 0
      BY <2>1, BoundsAre DEF Living
    <3> QED
      BY <1>3, <3>1 DEF Sighted, NoOrphan
  <2>2. CASE fr.at = "spawning" /\ fr.proc = p
    BY <1>2, <2>2 DEF Awaited, Spawning
  <2> QED
    BY <1>4, <2>1, <2>2
<1>8. ReadyHasBooted'
  <2>1. pipe \subseteq Pythons
    BY TypesAre
  <2> QED
    BY <1>4, <2>1 DEF Sighted, ReadyHasBooted
<1>9. ChildHasPort'
  BY <1>1, <1>2 DEF ChildHasPort, Actors, isRestarting
<1> QED
  BY <1>5, <1>6, <1>7, <1>8, <1>9 DEF Sighted
-----------------------------------------------------------------------------
(* The steps *)

\* A promise job is a step of its call; only the restart is ever begun by one.
LEMMA JobSteps ==
  ASSUME DocxTypeOK, BeginsFirst, RunJob
  PROVE  \E x \in Actors : Keep(x) \/ Clean(x)
<1>1. Head(jobs) \in AnyJob /\ jobs # <<>>
  BY TypesAre, HeadTailProperties DEF RunJob
<1> DEFINE x == Head(jobs)[2]
<1>2. x \in Actors /\ Head(jobs)[1] \in {"begin", "rejected", "waited"}
  BY <1>1 DEF AnyJob
<1>3. Head(jobs)[1] = "begin" => x = "restart" /\ ~isRestarting
  <2>1. CASE jobs \in Seq(LaterJob)
    <3>1. Head(jobs) \in LaterJob
      BY <1>1, <2>1, HeadTailProperties
    <3> QED
      BY <3>1 DEF LaterJob
  <2>2. CASE Head(jobs) = <<"begin", "restart">> /\ ~isRestarting
    BY <2>2
  <2> QED
    BY <2>1, <2>2 DEF BeginsFirst
<1>4. CASE Head(jobs)[1] = "begin"
  BY <1>2, <1>3, <1>4, BeginsSteps DEF RunJob, isRestarting
<1>5. CASE Head(jobs)[1] = "rejected"
  BY <1>2, <1>5, RejectedCleans DEF RunJob
<1>6. CASE Head(jobs)[1] = "waited"
  BY <1>2, <1>6, StopReturnsCleans DEF RunJob, Waited
<1> QED
  BY <1>2, <1>4, <1>5, <1>6

LEMMA JobsNext ==
  ASSUME DocxTypeOK, BeginsFirst, [DocxNext]_docxVars
  PROVE  BeginsFirst'
<1>a. <<>> \in Seq(LaterJob)
  OBVIOUS
<1>1. CASE jobs' = <<>>
  BY <1>a, <1>1 DEF BeginsFirst
<1>2. CASE RunJob
  <2>1. CASE jobs \in Seq(LaterJob)
    <3>1. Tail(jobs) \in Seq(LaterJob)
      BY <1>2, <2>1, HeadTailProperties DEF RunJob
    <3> QED
      BY <1>2, <3>1 DEF RunJob, BeginsFirst
  <2>2. CASE Tail(jobs) \in Seq(LaterJob)
    BY <1>2, <2>2 DEF RunJob, BeginsFirst
  <2> QED
    BY <2>1, <2>2 DEF BeginsFirst
<1>3. ASSUME NEW p \in Pythons, Exits(p)
      PROVE  BeginsFirst'
  <2>1. CASE jobs' \in Seq(LaterJob)
    BY <2>1 DEF BeginsFirst
  <2>2. CASE /\ jobs' # <<>> /\ Head(jobs') = <<"begin", "restart">>
             /\ Tail(jobs') \in Seq(LaterJob) /\ Restarts(p)
    <3>1. ~isRestarting'
      BY <1>3, <2>2 DEF Exits, Restarts, isRestarting
    <3> QED
      BY <2>2, <3>1 DEF BeginsFirst
  <2> QED
    BY <1>3, <2>1, <2>2, ExitsBegins
<1>4. ASSUME NEW x \in Actors, StartupTimeout(x)
      PROVE  BeginsFirst'
  <2> DEFINE j == <<"rejected", x>>
  <2>1. j \in LaterJob /\ jobs' = <<j>>
    BY <1>4 DEF LaterJob, StartupTimeout
  <2> HIDE DEF j
  <2>2. <<j>> \in Seq(LaterJob)
    BY <2>1
  <2> QED
    BY <2>1, <2>2 DEF BeginsFirst
<1>5. CASE Probed
  <2>1. CASE jobs' = jobs
    BY <1>1, <1>5, <2>1 DEF Probed, Idle
  <2>2. CASE jobs' = <<<<"begin", "restart">>>> /\ ~isRestarting
    <3> DEFINE j == <<"begin", "restart">>
    <3>0. jobs' = <<j>>
      BY <2>2
    <3>2. ~isRestarting'
      BY <1>5, <2>2 DEF Probed, isRestarting
    <3> HIDE DEF j
    <3>1. jobs' # <<>> /\ Head(jobs') = j /\ Tail(jobs') = <<>>
      BY <3>0
    <3> QED
      BY <1>a, <3>1, <3>2 DEF BeginsFirst, j
  <2>3. jobs' = jobs \/ jobs' = <<>> \/ (jobs' = <<<<"begin", "restart">>>> /\ ~isRestarting)
    BY <1>5 DEF Probed
  <2> QED
    BY <1>1, <2>1, <2>2, <2>3
<1>6. CASE UNCHANGED docxVars
  BY <1>6 DEF docxVars, BeginsFirst, isRestarting
<1>7. CASE Boot \/ Tick \/ Quit
  BY <1>1, <1>7 DEF Boot, Tick, Quit, Idle
<1>8. ASSUME NEW p \in Pythons, Prints(p) \/ OnReady(p) \/ Hangs(p)
      PROVE  BeginsFirst'
  <2>1. jobs' = <<>>
    BY <1>8 DEF Prints, OnReady, Hangs, Idle
  <2> QED
    BY <1>1, <2>1
<1>9. ASSUME NEW x \in Actors, ShutdownAnswered(x) \/ WaitTimeout(x)
      PROVE  BeginsFirst'
  <2>1. jobs' = <<>>
    BY <1>9 DEF ShutdownAnswered, WaitTimeout, Idle
  <2> QED
    BY <1>1, <2>1
<1> QED
  BY <1>2, <1>3, <1>4, <1>5, <1>6, <1>7, <1>8, <1>9 DEF DocxNext

LEMMA SightedNext ==
  ASSUME DocxTypeOK, Sighted, BeginsFirst, [DocxNext]_docxVars
  PROVE  Sighted'
<1>1. CASE RunJob
  BY <1>1, JobSteps, KeepKeeps, CleanKeeps DEF RunJob
<1>2. CASE Boot
  <2>1. Clean("boot")
    BY <1>2, SpawnOnceCleans, BoundsAre DEF Boot, Actors
  <2> QED
    BY <1>2, <2>1, CleanKeeps DEF Boot, Actors
<1>3. CASE Quit
  <2>1. Keep("quit") \/ Clean("quit")
    BY <1>3, BeginsSteps DEF Quit
  <2> QED
    BY <1>3, <2>1, KeepKeeps, CleanKeeps DEF Quit, Actors
<1>4. ASSUME NEW x \in Actors, ShutdownAnswered(x)
      PROVE  Sighted'
  <2>1. x # "boot" /\ frames[x].at # "spawning"
    BY <1>4 DEF ShutdownAnswered, Sighted, BootNeverStops
  <2>2. CASE StopReturns(x, 0)
    BY <1>4, <2>2, StopReturnsCleans, CleanKeeps DEF ShutdownAnswered
  <2>3. CASE Terminate(x)
    BY <1>4, <2>1, <2>3, TerminateSteps, KeepKeeps, CleanKeeps DEF ShutdownAnswered
  <2>4. CASE /\ frames' = [frames EXCEPT ![x] =
                               [At("graceful") EXCEPT !.proc = child]]
             /\ UNCHANGED <<pythons, killed, child, port>>
    <3> DEFINE fr == [At("graceful") EXCEPT !.proc = child]
    <3>1. fr \in FrameType
      BY WaitFrameTyped DEF FramePlaces
    <3>2. fr.at = "graceful"
      BY DEF At
    <3>3. frames' = [frames EXCEPT ![x] = fr]
      BY <2>4
    <3> HIDE DEF fr
    <3>4. Keep(x)
      BY <2>1, <2>4, <3>1, <3>2, <3>3, WaitsKeep
    <3> QED
      BY <1>4, <3>4, KeepKeeps DEF ShutdownAnswered
  <2> QED
    BY <1>4, <2>2, <2>3, <2>4 DEF ShutdownAnswered
<1>5. ASSUME NEW x \in Actors, WaitTimeout(x)
      PROVE  Sighted'
  <2>1. x # "boot" /\ frames[x].at # "spawning"
    BY <1>5 DEF WaitTimeout, Sighted, BootNeverStops
  <2>2. Keep(x) \/ Clean(x)
    BY <1>5, <2>1, TerminateSteps, StopReturnsCleans DEF WaitTimeout
  <2> QED
    BY <1>5, <2>2, KeepKeeps, CleanKeeps DEF WaitTimeout
<1>6. ASSUME NEW p \in Pythons, Prints(p)
      PROVE  Sighted'
  <2>1. /\ pythons'[p] = "serving" /\ pythons[p] = "booting"
        /\ \A q \in Pythons \ {p} : pythons'[q] = pythons[q]
        /\ pipe' = pipe \cup {p}
        /\ UNCHANGED <<killed, child, port, frames>>
    BY <1>6, TypesAre DEF Prints
  <2>2. Living' = Living
    BY <2>1 DEF Living
  <2>3. NoOrphan' /\ BootNeverStops' /\ ChildHasPort'
    BY <2>1, <2>2 DEF Sighted, NoOrphan, BootNeverStops, ChildHasPort, isRestarting
  <2>4. BootingIsAwaited'
    BY <2>1 DEF Sighted, BootingIsAwaited, Awaited, Spawning
  <2>5. ReadyHasBooted'
    BY <2>1, TypesAre DEF Sighted, ReadyHasBooted
  <2> QED
    BY <2>3, <2>4, <2>5 DEF Sighted
<1>7. ASSUME NEW p \in Pythons, OnReady(p)
      PROVE  Sighted'
  <2>1. /\ pipe' = pipe \ {p} /\ port' = p /\ p # 0 /\ p \in pipe
        /\ UNCHANGED <<pythons, killed, child>>
    BY <1>7, BoundsAre DEF OnReady
  <2>2. pythons[p] # "booting"
    BY <2>1 DEF Sighted, ReadyHasBooted
  <2>3. \/ frames' = frames
        \/ frames' = [x \in Actors |->
                            IF ~Spawning(x, p) THEN frames[x]
                            ELSE At(IF x = "boot" THEN "done" ELSE "idle")]
    BY <1>7 DEF OnReady
  <2>4. \A x \in Actors : \/ frames'[x] = frames[x]
                          \/ /\ Spawning(x, p)
                             /\ frames'[x] = At(IF x = "boot" THEN "done" ELSE "idle")
    BY <2>3
  <2>5. NoOrphan'
    BY <2>1 DEF Sighted, NoOrphan, Living
  <2>6. BootNeverStops'
    <3>1. \/ frames'["boot"] = frames["boot"] \/ frames'["boot"] = At("done")
      BY <2>4 DEF Actors
    <3> QED
      BY <3>1 DEF Sighted, BootNeverStops, At
  <2>7. BootingIsAwaited'
    <3> SUFFICES ASSUME NEW q \in Pythons, pythons'[q] = "booting"
                 PROVE  q \in killed' \/ Awaited(q)'
      BY DEF BootingIsAwaited
    <3>1. q \in killed \/ Awaited(q)
      BY <2>1 DEF Sighted, BootingIsAwaited
    <3>2. CASE q \in killed
      BY <2>1, <3>2
    <3>3. CASE Awaited(q)
      <4>1. PICK x \in Actors : Spawning(x, q)
        BY <3>3 DEF Awaited
      <4>2. q # p
        BY <2>1, <2>2
      <4>3. frames'[x] = frames[x]
        BY <2>4, <4>1, <4>2 DEF Spawning
      <4> QED
        BY <4>1, <4>3 DEF Awaited, Spawning
    <3> QED
      BY <3>1, <3>2, <3>3
  <2>8. ReadyHasBooted' /\ ChildHasPort'
    BY <2>1 DEF Sighted, ReadyHasBooted, ChildHasPort
  <2> QED
    BY <2>5, <2>6, <2>7, <2>8 DEF Sighted
<1>8. ASSUME NEW p \in Pythons, Exits(p)
      PROVE  Sighted'
  <2>1. /\ pythons'[p] \in {"gone", "slain"}
        /\ \A q \in Pythons \ {p} : pythons'[q] = pythons[q]
        /\ killed' = killed \ {p}
        /\ UNCHANGED <<child, port, pipe, frames>>
    BY <1>8, TypesAre DEF Exits
  <2>2. Living' \subseteq Living \ {p}
    BY <2>1 DEF Living
  <2>3. NoOrphan' /\ BootNeverStops' /\ ChildHasPort'
    BY <2>1, <2>2 DEF Sighted, NoOrphan, BootNeverStops, ChildHasPort, isRestarting
  <2>4. BootingIsAwaited'
    BY <2>1 DEF Sighted, BootingIsAwaited, Awaited, Spawning
  <2>5. ReadyHasBooted'
    BY <2>1, TypesAre DEF Sighted, ReadyHasBooted
  <2> QED
    BY <2>3, <2>4, <2>5 DEF Sighted
<1>9. ASSUME NEW p \in Pythons, Hangs(p)
      PROVE  Sighted'
  <2>1. /\ pythons'[p] = "deaf" /\ pythons[p] = "serving"
        /\ \A q \in Pythons \ {p} : pythons'[q] = pythons[q]
        /\ UNCHANGED <<killed, child, port, pipe, frames>>
    BY <1>9, TypesAre DEF Hangs
  <2>2. Living' = Living
    BY <2>1 DEF Living
  <2>3. NoOrphan' /\ BootNeverStops' /\ ChildHasPort'
    BY <2>1, <2>2 DEF Sighted, NoOrphan, BootNeverStops, ChildHasPort, isRestarting
  <2>4. BootingIsAwaited'
    BY <2>1 DEF Sighted, BootingIsAwaited, Awaited, Spawning
  <2>5. ReadyHasBooted'
    BY <2>1, TypesAre DEF Sighted, ReadyHasBooted
  <2> QED
    BY <2>3, <2>4, <2>5 DEF Sighted
<1>10. CASE UNCHANGED <<pythons, killed, child, port, pipe, frames>>
  BY <1>10 DEF Sighted, NoOrphan, BootNeverStops, BootingIsAwaited, ReadyHasBooted,
     ChildHasPort, Living, Awaited, Spawning, isRestarting
<1>11. CASE Tick \/ Probed \/ UNCHANGED docxVars
  BY <1>10, <1>11 DEF Tick, Probed, docxVars
<1>12. ASSUME NEW x \in Actors, StartupTimeout(x)
       PROVE  Sighted'
  BY <1>10, <1>12 DEF StartupTimeout
<1> QED
  BY <1>1, <1>2, <1>3, <1>4, <1>5, <1>6, <1>7, <1>8, <1>9, <1>11, <1>12 DEF DocxNext
-----------------------------------------------------------------------------
(* A quit that overlaps nothing *)

\* The quit's own steps once it is under way: it waits on, or is done.
QuitGoesOn ==
  /\ UNCHANGED <<pipe, probe, calm>>
  /\ frames'["boot"] = frames["boot"] /\ frames'["restart"] = frames["restart"]
  /\ intentionalStop' /\ health' = FALSE /\ jobs' = <<>>
  /\ \/ frames'["quit"].at \in {"shutdown", "graceful", "term"}
     \/ frames'["quit"].at = "done" /\ child' = 0

LEMMA QuitGoesOnCalmly ==
  ASSUME calm, CalmQuit, QuitGoesOn
  PROVE  CalmQuit'
BY DEF CalmQuit, QuitGoesOn, isRestarting

LEMMA StopReturnsAtQuit ==
  ASSUME DocxTypeOK, NEW oldPort, StopReturns("quit", oldPort)
  PROVE  /\ frames'["boot"] = frames["boot"] /\ frames'["restart"] = frames["restart"]
         /\ frames'["quit"].at = "done" /\ child' = 0
         /\ intentionalStop' = intentionalStop
BY TypesAre DEF StopReturns, At, Actors

LEMMA TerminateAtQuit ==
  ASSUME DocxTypeOK, Terminate("quit")
  PROVE  /\ frames'["boot"] = frames["boot"] /\ frames'["restart"] = frames["restart"]
         /\ \/ frames'["quit"].at = "term"
            \/ frames'["quit"].at = "done" /\ child' = 0
         /\ intentionalStop' = intentionalStop
<1>1. CASE StopReturns("quit", 0)
  BY <1>1, StopReturnsAtQuit
<1>2. CASE ~StopReturns("quit", 0)
  BY <1>2, TypesAre DEF Terminate, At, Actors
<1> QED
  BY <1>1, <1>2

\* The quit begins with a port to ask, unless there is no child.
LEMMA QuitIsCalm ==
  ASSUME DocxTypeOK, Sighted, Quit, calm'
  PROVE  CalmQuit'
<1>1. /\ frames["boot"].at # "spawning" /\ ~isRestarting /\ probe = 0 /\ pipe = {}
      /\ jobs = <<>> /\ UNCHANGED <<pipe, probe, jobs>>
  BY DEF Quit, Idle
<1>2. child # 0 => port # 0
  BY <1>1 DEF Sighted, ChildHasPort, Quit
<1>3. /\ health' = FALSE /\ intentionalStop' = TRUE
      /\ \/ child = 0 /\ child' = child /\ frames' = [frames EXCEPT !.quit = At("done")]
         \/ frames' = [frames EXCEPT !.quit = At("shutdown")]
  BY <1>2 DEF Quit, Begins
<1>4. /\ frames'["boot"] = frames["boot"] /\ frames'["restart"] = frames["restart"]
      /\ \/ frames'["quit"].at = "done" /\ child' = 0
         \/ frames'["quit"].at = "shutdown"
  BY <1>3, TypesAre DEF At, Actors
<1> QED
  BY <1>1, <1>3, <1>4 DEF CalmQuit, isRestarting

LEMMA CalmQuitNext ==
  ASSUME DocxTypeOK, Sighted, BeginsFirst, CalmQuit, [DocxNext]_docxVars
  PROVE  CalmQuit'
<1> SUFFICES ASSUME calm'
             PROVE  CalmQuit'
  BY DEF CalmQuit
<1>1. CASE Quit
  BY <1>1, QuitIsCalm
<1>2. CASE ~Quit
  <2>1. calm
    BY <1>2 DEF DocxNext, RunJob, Boot, Tick, Probed, Prints, OnReady, Exits, Hangs,
       StartupTimeout, ShutdownAnswered, WaitTimeout, docxVars
  <2>2. /\ frames["boot"].at # "spawning" /\ ~isRestarting /\ frames["quit"].at # "idle"
        /\ frames["quit"].at # "spawning"
        /\ probe = 0 /\ pipe = {} /\ health = FALSE /\ intentionalStop
    BY <2>1 DEF CalmQuit
  <2>3. \A x \in Actors : frames[x].at # "spawning"
    BY <2>2 DEF Actors, isRestarting
  <2>4. CASE RunJob
    <3>1. jobs = <<<<"waited", "quit">>>>
      BY <2>1, <2>4 DEF RunJob, CalmQuit
    <3>2. /\ Head(jobs)[1] = "waited" /\ Head(jobs)[2] = "quit" /\ Tail(jobs) = <<>>
      BY <3>1
    <3>3. Waited("quit") /\ jobs' = <<>>
      BY <2>4, <3>2 DEF RunJob
    <3>4. QuitGoesOn
      BY <2>2, <2>4, <3>3, StopReturnsAtQuit DEF Waited, RunJob, QuitGoesOn, Actors
    <3> QED
      BY <2>1, <3>4, QuitGoesOnCalmly
  <2>5. ASSUME NEW x \in Actors, ShutdownAnswered(x)
        PROVE  CalmQuit'
    <3>1. x = "quit"
      BY <2>2, <2>5 DEF ShutdownAnswered, Actors, Sighted, BootNeverStops, isRestarting
    <3>2. /\ frames'["boot"] = frames["boot"] /\ frames'["restart"] = frames["restart"]
          /\ \/ frames'["quit"].at \in {"graceful", "term"}
             \/ frames'["quit"].at = "done" /\ child' = 0
          /\ intentionalStop' = intentionalStop
      <4>1. CASE StopReturns("quit", 0)
        BY <4>1, StopReturnsAtQuit
      <4>2. CASE Terminate("quit")
        BY <4>2, TerminateAtQuit
      <4>3. CASE /\ frames' = [frames EXCEPT !["quit"] =
                                  [At("graceful") EXCEPT !.proc = child]]
                 /\ intentionalStop' = intentionalStop
        BY <4>3, TypesAre DEF At, Actors
      <4> QED
        BY <2>5, <3>1, <4>1, <4>2, <4>3 DEF ShutdownAnswered
    <3>3. QuitGoesOn
      BY <2>2, <2>5, <3>2 DEF ShutdownAnswered, QuitGoesOn, Idle
    <3> QED
      BY <2>1, <3>3, QuitGoesOnCalmly
  <2>6. ASSUME NEW x \in Actors, WaitTimeout(x)
        PROVE  CalmQuit'
    <3>1. x = "quit"
      BY <2>2, <2>6 DEF WaitTimeout, Actors, Sighted, BootNeverStops, isRestarting
    <3>2. /\ frames'["boot"] = frames["boot"] /\ frames'["restart"] = frames["restart"]
          /\ \/ frames'["quit"].at = "term"
             \/ frames'["quit"].at = "done" /\ child' = 0
          /\ intentionalStop' = intentionalStop
      BY <2>6, <3>1, StopReturnsAtQuit, TerminateAtQuit DEF WaitTimeout
    <3>3. QuitGoesOn
      BY <2>2, <2>6, <3>2 DEF WaitTimeout, QuitGoesOn, Idle
    <3> QED
      BY <2>1, <3>3, QuitGoesOnCalmly
  <2>7. ASSUME NEW p \in Pythons, Exits(p)
        PROVE  CalmQuit'
    <3>1. \/ jobs' = <<>>
          \/ /\ jobs' = <<<<"waited", "quit">>>>
             /\ frames["quit"].at \in {"graceful", "term"}
      BY <2>2, <2>7, ExitsCalm
    <3>2. UNCHANGED <<child, frames, pipe, probe, health, intentionalStop>>
      BY <2>7 DEF Exits
    <3> QED
      BY <2>1, <3>1, <3>2 DEF CalmQuit, isRestarting
  <2>8. ASSUME NEW p \in Pythons, Prints(p) \/ OnReady(p)
        PROVE  CalmQuit'
    <3>1. ~Awaited(p)
      BY <2>3 DEF Awaited, Spawning
    <3> QED
      BY <2>2, <2>8, <3>1 DEF Prints, OnReady, Sighted, BootingIsAwaited
  <2>9. CASE Boot \/ Tick \/ Probed
    BY <2>2, <2>9 DEF Boot, Tick, Probed
  <2>10. ASSUME NEW x \in Actors, StartupTimeout(x)
         PROVE  CalmQuit'
    BY <2>3, <2>10 DEF StartupTimeout
  <2>11. ASSUME UNCHANGED <<child, frames, pipe, probe, health, intentionalStop, jobs, calm>>
         PROVE  CalmQuit'
    BY <2>1, <2>11 DEF CalmQuit, isRestarting
  <2>12. ASSUME NEW p \in Pythons, Hangs(p)
         PROVE  CalmQuit'
    BY <2>11, <2>12 DEF Hangs
  <2>13. CASE UNCHANGED docxVars
    BY <2>11, <2>13 DEF docxVars
  <2> QED
    BY <1>2, <2>4, <2>5, <2>6, <2>7, <2>8, <2>9, <2>10, <2>12, <2>13 DEF DocxNext
<1> QED
  BY <1>1, <1>2

-----------------------------------------------------------------------------
(* The theorems *)

LEMMA DocxInvInit == DocxInit => DInv
<1> SUFFICES ASSUME DocxInit
             PROVE  DInv
  OBVIOUS
<1>1. /\ \A p \in Pythons : pythons[p] = "unborn"
      /\ \A x \in Actors : frames[x].at = "idle"
  BY DEF DocxInit, At
<1>2. NoOrphan /\ BootingIsAwaited /\ BootNeverStops
  BY <1>1 DEF NoOrphan, Living, BootingIsAwaited, BootNeverStops, Actors
<1>3. ReadyHasBooted /\ ChildHasPort /\ CalmQuit
  BY DEF DocxInit, ReadyHasBooted, ChildHasPort, CalmQuit
<1>4. BeginsFirst
  BY DEF DocxInit, BeginsFirst
<1> QED
  BY <1>2, <1>3, <1>4 DEF DInv

\* The invariant of the process manager, for any number of processes, attempts
\* and failed health checks (services/docx-bridge/process-manager.ts).
THEOREM DocxInvariant == DocxSpec => [](DocxTypeOK /\ DInv)
<1>1. DocxInit => DocxTypeOK /\ DInv
  BY DocxTypeInit, DocxInvInit
<1>2. DocxTypeOK /\ DInv /\ [DocxNext]_docxVars => DocxTypeOK' /\ DInv'
  BY DocxTypeNext, SightedNext, JobsNext, CalmQuitNext DEF DInv, Sighted
<1> QED
  BY <1>1, <1>2, PTL DEF DocxSpec

\* However the start at boot, a restart and the stop at quit overlap, a living
\* renderer is the manager's child or was sent a SIGKILL.
THEOREM NoRendererIsOrphaned == DocxSpec => []NoOrphan
<1>1. DInv => NoOrphan
  BY DEF DInv
<1> QED
  BY <1>1, DocxInvariant, PTL

\* A quit with nothing else under way leaves no renderer that was not killed,
\* and none is started after it.
THEOREM QuitLeavesNoRenderer == DocxSpec => []QuitLeavesNone
<1>1. DInv => QuitLeavesNone
  <2> SUFFICES ASSUME DInv, frames.quit.at = "done", calm
               PROVE  child = 0 /\ Living \subseteq killed
    BY DEF QuitLeavesNone
  <2>1. child = 0
    BY DEF DInv, CalmQuit
  <2>2. \A p \in Living : p # 0
    BY BoundsAre DEF Living
  <2> QED
    BY <2>1, <2>2 DEF DInv, NoOrphan
<1> QED
  BY <1>1, DocxInvariant, PTL

\* Every field of the manager keeps its type; the health check's counter stays
\* below MAX_CONSECUTIVE_FAILURES.
THEOREM DocxTypeCorrect == DocxSpec => []DocxTypeOK
BY DocxInvariant, PTL

-----------------------------------------------------------------------------
(***************************************************************************)
(* The migration of chapter ids: each chapter has one id in every store,   *)
(* and the marker is only on a project whose known references are          *)
(* rewritten.                                                              *)
(***************************************************************************)

\* A reference is in the form it was written in or a UUID, and so is an index
\* entry; whether there is an index never changes.
FormInv ==
    /\ \A s \in RefStores : \A c \in Numbered :
         refs[s][c].form \in {"uuid", wrote[s]}
    /\ \A c \in Numbered :
         /\ entryId[c].form \in {"uuid", wrote["sectionIndex"]}
         /\ entryId[c].form = "uuid" =>
               entryId[c].uuid # 0 /\ wrote["sectionIndex"] # "none"

HasIndex == wrote["sectionIndex"] # "none"

\* Each branch has steps of its own, and a marked project is not migrated.
PhaseInv ==
    /\ migrating \in {"meta", "stamp"} => HasIndex
    /\ migrating \in {"progress", "remap", "drop", "empty"} => ~HasIndex
    /\ version = 2 => migrating \in {"no", "drop"}
    /\ migrating = "drop" => version = 2

\* With an index: ids are those of the index, and the map of every attempt
\* binds the known forms of a chapter to the id of its entry.
IndexMapInv ==
    HasIndex /\ migrating # "no" => \A c \in Numbered :
        /\ legacyMap[c]["locator"] # 0
        /\ legacyMap[c]["hash"] = legacyMap[c]["locator"]
        /\ wrote["sectionIndex"] = "template" =>
              legacyMap[c]["template"] = legacyMap[c]["locator"]
        /\ entryId[c].form = "uuid" \/ migrating # "meta" =>
              entryId[c] = AsUuid(legacyMap[c]["locator"])

IndexRefsInv ==
    HasIndex => \A c \in Numbered :
        /\ wrote["sectionIndex"] = "template" /\ entryId[c].form = "uuid" =>
              c \in templateKey
        /\ \A s \in RefStores :
             Known(s) /\ refs[s][c].form = "uuid" => refs[s][c] = entryId[c]

\* Without one: ids are those of the progress file, in which locator key and
\* title hash never part, and the map of every attempt extends it.
AliasMapInv ==
    ~HasIndex /\ migrating \in {"progress", "summaries", "matrix", "sqlite", "remap"}
    => \A c \in Numbered :
         /\ \A f \in IdForms :
              progress[c][f] # 0 => legacyMap[c][f] = progress[c][f]
         /\ legacyMap[c]["locator"] # 0 =>
              legacyMap[c]["hash"] = legacyMap[c]["locator"]
         /\ \A s \in RefStores :
              Known(s) => \/ legacyMap[c][wrote[s]] # 0
                          \/ unscanned /\ s = "sqlite"

ProgressInv ==
    ~HasIndex =>
        /\ \A c \in Numbered :
             progress[c]["locator"] # 0 =>
                progress[c]["hash"] = progress[c]["locator"]
        /\ migrating \in {"summaries", "matrix", "sqlite", "remap"} =>
              legacyMap = progress
        /\ migrating = "empty" =>
              \A s \in RefStores : Known(s) => unscanned /\ s = "sqlite"

AliasRefsInv ==
    ~HasIndex => \A c \in Numbered : \A s \in RefStores :
        Known(s) /\ refs[s][c].form = "uuid" =>
            /\ version = 1 => /\ progress[c][wrote[s]] # 0
                              /\ refs[s][c] = AsUuid(progress[c][wrote[s]])
            /\ \A t \in RefStores :
                 Known(t) /\ refs[t][c].form = "uuid" =>
                    refs[t][c] = refs[s][c]

\* The stores that the steps so far have rewritten.
SoFar ==
    IF version = 2 THEN RefStores
    ELSE (IF HasIndex /\ migrating \in {"summaries", "matrix", "sqlite", "stamp"}
          THEN MetaRefs ELSE {})
      \cup (IF migrating \in {"matrix", "sqlite", "stamp", "remap"}
            THEN {"summaries"} ELSE {})
      \cup (IF migrating \in {"sqlite", "stamp", "remap"}
            THEN {"matrix"} ELSE {})
      \cup (IF migrating \in {"stamp", "remap"} THEN {"sqlite"} ELSE {})

RewrittenInv ==
    \A s \in SoFar : \A c \in Numbered :
        Known(s) => \/ refs[s][c].form = "uuid"
                    \/ unscanned /\ s = "sqlite"

\* The ids a chapter has anywhere (0: none), and that each is its own: what is
\* minted later is above nextUuid, and no other chapter has it.
Used(c) ==
    {entryId[c].uuid} \cup {refs[s][c].uuid : s \in RefStores}
      \cup {progress[c][f] : f \in IdForms} \cup {legacyMap[c][f] : f \in IdForms}

ApartInv ==
    \A c \in Numbered :
        /\ \A u \in Used(c) : u < nextUuid
        /\ \A d \in Numbered \ {c} : Used(c) \cap Used(d) \subseteq {0}
        /\ \A s \in RefStores :
             refs[s][c].form = "uuid" => refs[s][c].uuid # 0

IInv == /\ IdentityTypeOK /\ FormInv /\ PhaseInv
        /\ IndexMapInv /\ IndexRefsInv
        /\ AliasMapInv /\ ProgressInv /\ AliasRefsInv /\ RewrittenInv
        /\ ApartInv

-----------------------------------------------------------------------------
(* Types.                                                                  *)

\* An id that is minted is an id.
LEMMA FreshIs ==
    ASSUME IdentityTypeOK, NEW c \in Numbered, NEW f \in IdForms
    PROVE  Fresh(c, f) \in Nat \ {0}
<1>1. nextUuid \in Nat \ {0} /\ c \in Nat \ {0}
  BY IdentityAssumption DEF IdentityTypeOK, Numbered
<1>2. CASE f = "locator" BY <1>1, <1>2 DEF Fresh
<1>3. CASE f = "hash" BY <1>1, <1>3 DEF Fresh
<1>4. CASE f = "template" BY <1>1, <1>4 DEF Fresh
<1>5. CASE f = "opaque" BY <1>1, <1>5 DEF Fresh
<1> QED BY <1>2, <1>3, <1>4, <1>5 DEF IdForms

\* The id an index entry keeps or is given.
LEMMA NewIdIs ==
    ASSUME IdentityTypeOK, NEW c \in Numbered
    PROVE  NewId(c) \in Nat
<1>1. entryId[c].uuid \in Nat BY DEF IdentityTypeOK, References
<1>2. Fresh(c, "locator") \in Nat BY FreshIs DEF IdForms
<1> QED BY <1>1, <1>2 DEF NewId

\* The id that locator key and title hash share.
LEMMA CanonicalIdIs ==
    ASSUME IdentityTypeOK, NEW c \in Numbered
    PROVE  CanonicalId(c) \in Nat \ {0}
<1>1. progress[c]["locator"] \in Nat /\ progress[c]["hash"] \in Nat
  BY DEF IdentityTypeOK, Maps, IdForms
<1>2. Fresh(c, "locator") \in Nat \ {0} BY FreshIs DEF IdForms
<1> QED BY <1>1, <1>2 DEF CanonicalId

\* Both branches make a map.
LEMMA MapTypes ==
    ASSUME IdentityTypeOK
    PROVE  IndexMap \in Maps /\ \A scan \in BOOLEAN : AliasMap(scan) \in Maps
<1>1. \A c \in Numbered : \A f \in IdForms : Fresh(c, f) \in Nat
  BY FreshIs
<1>2. \A c \in Numbered : NewId(c) \in Nat /\ CanonicalId(c) \in Nat
  BY NewIdIs, CanonicalIdIs
<1>3. \A c \in Numbered : \A f \in IdForms : progress[c][f] \in Nat
  BY DEF IdentityTypeOK, Maps
<1>4. IndexMap \in Maps BY <1>1, <1>2 DEF IndexMap, Maps
<1>5. ASSUME NEW scan \in BOOLEAN PROVE AliasMap(scan) \in Maps
  BY <1>1, <1>2, <1>3 DEF AliasMap, Maps
<1> QED BY <1>4, <1>5

LEMMA UnboundIs == Unbound \in Maps
  BY DEF Unbound, Maps

\* A store after a rewrite, reference by reference.
LEMMA RewriteIs ==
    ASSUME IdentityTypeOK, NEW S, Rewrite(S),
           NEW s \in RefStores, NEW c \in Numbered
    PROVE  refs'[s][c] =
             IF s \in S /\ refs[s][c].form \in IdForms
                        /\ legacyMap[c][refs[s][c].form] # 0
             THEN AsUuid(legacyMap[c][refs[s][c].form]) ELSE refs[s][c]
  BY DEF Rewrite, Rewritten, IdentityTypeOK

LEMMA RewriteTypes ==
    ASSUME IdentityTypeOK, NEW S, Rewrite(S)
    PROVE  refs' \in [RefStores -> [Numbered -> References]]
<1>1. ASSUME NEW s \in RefStores PROVE Rewritten(s) \in [Numbered -> References]
  <2>1. ASSUME NEW c \in Numbered, NEW f \in IdForms
        PROVE  AsUuid(legacyMap[c][f]) \in References
    BY DEF IdentityTypeOK, Maps, AsUuid, References
  <2>2. \A c \in Numbered : refs[s][c] \in References BY DEF IdentityTypeOK
  <2> QED BY <2>1, <2>2 DEF Rewritten
<1>2. \A s \in RefStores : refs[s] \in [Numbered -> References]
  BY DEF IdentityTypeOK
<1> QED BY <1>1, <1>2 DEF Rewrite

\* The bound is spent one by one.
LEMMA SpendOne ==
    IdentityTypeOK /\ mishaps > 0 => mishaps - 1 \in 0..MaxMishaps
  BY IdentityAssumption DEF IdentityTypeOK

LEMMA TypeInit == IdentityInit => IdentityTypeOK
<1> SUFFICES ASSUME IdentityInit PROVE IdentityTypeOK OBVIOUS
<1>1. wrote \in [Written -> IdForms \cup {"none"}] BY DEF IdentityInit
<1>2. \A s \in Written : InForm(wrote[s]) \in References
  BY <1>1 DEF InForm, References
<1>3. entryId \in [Numbered -> References]
  BY <1>2 DEF IdentityInit, Written
<1>4. refs \in [RefStores -> [Numbered -> References]]
  BY <1>2 DEF IdentityInit, Written
<1>5. mishaps \in 0..MaxMishaps BY IdentityAssumption DEF IdentityInit
<1>6. progress \in Maps /\ legacyMap \in Maps
  BY UnboundIs DEF IdentityInit
<1>7. /\ version = 1 /\ templateKey = {} /\ migrating = "no"
      /\ memoed = FALSE /\ unscanned = FALSE /\ nextUuid = 1
  BY Zenon DEF IdentityInit
<1>8. /\ version \in {1, 2} /\ templateKey \subseteq Numbered
      /\ migrating \in {"no", "empty", "meta", "progress", "summaries",
                        "matrix", "sqlite", "stamp", "remap", "drop"}
      /\ nextUuid \in Nat \ {0}
  BY <1>7
<1>9. memoed \in BOOLEAN /\ unscanned \in BOOLEAN
  BY <1>7
<1> QED BY <1>1, <1>3, <1>4, <1>5, <1>6, <1>8, <1>9, Zenon DEF IdentityTypeOK

LEMMA TypeStep == IdentityTypeOK /\ [IdentityNext]_identityVars => IdentityTypeOK'
<1> SUFFICES ASSUME IdentityTypeOK, [IdentityNext]_identityVars
             PROVE  IdentityTypeOK'
  OBVIOUS
<1>1. CASE Load
  <2>1. nextUuid' \in Nat \ {0}
    BY <1>1, IdentityAssumption DEF Load, Spent, IdentityTypeOK
  <2>2. legacyMap' \in Maps
    BY <1>1, MapTypes DEF Load, IdentityTypeOK
  <2>3. mishaps' \in 0..MaxMishaps
    BY <1>1, SpendOne DEF Load, IdentityTypeOK
  <2>4. /\ memoed' \in BOOLEAN /\ unscanned' \in BOOLEAN
        /\ migrating' \in {"no", "empty", "meta", "progress", "summaries",
                           "matrix", "sqlite", "stamp", "remap", "drop"}
    BY <1>1 DEF Load, IdentityTypeOK
  <2> QED BY <1>1, <2>1, <2>2, <2>3, <2>4 DEF Load, IdentityTypeOK
<1>2. CASE WriteMeta
  <2>1. refs' \in [RefStores -> [Numbered -> References]]
    BY <1>2, RewriteTypes DEF WriteMeta
  <2>2. entryId' \in [Numbered -> References]
    BY <1>2 DEF WriteMeta, IdentityTypeOK, Maps, IdForms, AsUuid, References
  <2>3. templateKey' \subseteq Numbered
    BY <1>2 DEF WriteMeta, IdentityTypeOK
  <2> QED BY <1>2, <2>1, <2>2, <2>3 DEF WriteMeta, IdentityTypeOK
<1>3. CASE WriteProgress
  BY <1>3 DEF WriteProgress, IdentityTypeOK
<1>4. ASSUME NEW s \in {"summaries", "matrix", "sqlite"}, RewriteStore(s)
      PROVE  IdentityTypeOK'
  <2>1. refs' \in [RefStores -> [Numbered -> References]]
    BY <1>4, RewriteTypes DEF RewriteStore
  <2>2. migrating' \in {"matrix", "sqlite", "stamp", "remap"}
    BY <1>4 DEF RewriteStore
  <2> QED BY <1>4, <2>1, <2>2 DEF RewriteStore, IdentityTypeOK
<1>5. CASE Stamp
  BY <1>5, UnboundIs DEF Stamp, Done, IdentityTypeOK
<1>6. CASE Remap
  <2>1. refs' \in [RefStores -> [Numbered -> References]]
    BY <1>6, RewriteTypes DEF Remap
  <2> QED BY <1>6, <2>1 DEF Remap, IdentityTypeOK
<1>7. CASE DropProgress
  <2>1. mishaps' \in 0..MaxMishaps
    BY <1>7, SpendOne DEF DropProgress, IdentityTypeOK
  <2>2. progress' \in Maps /\ legacyMap' \in Maps
    BY <1>7, UnboundIs DEF DropProgress, Done, IdentityTypeOK
  <2> QED BY <1>7, <2>1, <2>2 DEF DropProgress, Done, IdentityTypeOK
<1>8. CASE StampEmpty
  BY <1>8, UnboundIs, SpendOne DEF StampEmpty, Done, IdentityTypeOK
<1>9. CASE StepThrows
  BY <1>9, UnboundIs, SpendOne DEF StepThrows, IdentityTypeOK
<1>10. CASE Restarted
  BY <1>10, UnboundIs, SpendOne DEF Restarted, IdentityTypeOK
<1>11. CASE UNCHANGED identityVars
  BY <1>11 DEF identityVars, IdentityTypeOK
<1> QED BY <1>1, <1>2, <1>3, <1>4, <1>5, <1>6, <1>7, <1>8, <1>9, <1>10, <1>11
        DEF IdentityNext, MigrationStep

-----------------------------------------------------------------------------
(* What the invariants say of a single reference.                          *)

LEMMA WroteStays == [IdentityNext]_identityVars => wrote' = wrote
  BY DEF IdentityNext, MigrationStep, Load, WriteMeta, WriteProgress,
         RewriteStore, Stamp, Remap, DropProgress, StampEmpty, StepThrows,
         Restarted, identityVars

\* There is an index if and only if one was written.
LEMMA IndexedIs ==
    ASSUME IdentityTypeOK, FormInv
    PROVE  Indexed <=> HasIndex
<1>1. 1 \in Numbered BY IdentityAssumption DEF Numbered
<1>2. \A c \in Numbered :
        /\ entryId[c].form \in {"uuid", wrote["sectionIndex"]}
        /\ entryId[c].form = "uuid" => wrote["sectionIndex"] # "none"
  BY DEF FormInv
<1> QED BY <1>1, <1>2, Zenon DEF Indexed, HasIndex

\* The known forms are ids, and one known store's form is in every map.
LEMMA KnownIs ==
    ASSUME NEW s \in RefStores, Known(s)
    PROVE  /\ wrote[s] \in {"locator", "hash", "template"}
           /\ wrote[s] \in IdForms
           /\ wrote[s] = "template" => wrote["sectionIndex"] = "template"
           /\ ~HasIndex => wrote[s] \in {"locator", "hash"}
  BY DEF Known, IdForms, HasIndex

\* A rewrite leaves what is a UUID and gives the others what the map has.
LEMMA KnownRewrite ==
    ASSUME IdentityTypeOK, FormInv, NEW S, Rewrite(S),
           NEW s \in RefStores, NEW c \in Numbered, Known(s)
    PROVE  \/ /\ refs'[s][c] = refs[s][c]
              /\ \/ refs[s][c].form = "uuid"
                 \/ s \notin S \/ legacyMap[c][wrote[s]] = 0
           \/ /\ s \in S /\ legacyMap[c][wrote[s]] # 0
              /\ refs'[s][c] = AsUuid(legacyMap[c][wrote[s]])
<1>1. refs[s][c].form \in {"uuid", wrote[s]} BY DEF FormInv
<1>2. wrote[s] \in IdForms BY KnownIs
<1>3. "uuid" \notin IdForms BY DEF IdForms
<1> QED BY <1>1, <1>2, <1>3, RewriteIs

LEMMA RewriteKeepsForms ==
    ASSUME IdentityTypeOK, FormInv, NEW S, Rewrite(S),
           NEW s \in RefStores, NEW c \in Numbered
    PROVE  refs'[s][c].form \in {"uuid", wrote[s]}
<1>1. refs[s][c].form \in {"uuid", wrote[s]} BY DEF FormInv
<1>2. \A u : AsUuid(u).form = "uuid" BY DEF AsUuid
<1> QED BY <1>1, <1>2, RewriteIs

\* With an index a rewrite gives ids of the index, and misses none.
LEMMA IndexRewrite ==
    ASSUME IdentityTypeOK, FormInv, IndexMapInv, IndexRefsInv, HasIndex,
           migrating # "no", NEW S, Rewrite(S),
           NEW s \in RefStores, NEW c \in Numbered, Known(s)
    PROVE  /\ s \in S => refs'[s][c].form = "uuid"
           /\ s \notin S => refs'[s][c] = refs[s][c]
           /\ refs[s][c].form = "uuid" => refs'[s][c].form = "uuid"
           /\ refs'[s][c].form = "uuid" =>
                 refs'[s][c] = AsUuid(legacyMap[c]["locator"])
<1>1. /\ legacyMap[c][wrote[s]] # 0
      /\ legacyMap[c][wrote[s]] = legacyMap[c]["locator"]
  BY KnownIs DEF IndexMapInv
<1>2. refs[s][c].form = "uuid" => refs[s][c] = entryId[c]
  BY DEF IndexRefsInv
<1>3. entryId[c].form = "uuid" => entryId[c] = AsUuid(legacyMap[c]["locator"])
  BY DEF IndexMapInv
<1>4. AsUuid(legacyMap[c]["locator"]).form = "uuid" BY DEF AsUuid
<1>5. \/ /\ refs'[s][c] = refs[s][c]
         /\ refs[s][c].form = "uuid" \/ s \notin S
      \/ /\ s \in S
         /\ refs'[s][c] = AsUuid(legacyMap[c]["locator"])
  BY <1>1, KnownRewrite
<1>6. CASE refs'[s][c] = refs[s][c] /\ (refs[s][c].form = "uuid" \/ s \notin S)
  BY <1>2, <1>3, <1>6, Zenon
<1>7. CASE s \in S /\ refs'[s][c] = AsUuid(legacyMap[c]["locator"])
  BY <1>4, <1>7, Zenon
<1> QED BY <1>5, <1>6, <1>7, Zenon

\* Without one it gives ids of the progress file, and misses at most rows of a
\* database that could not be scanned.
LEMMA AliasRewrite ==
    ASSUME IdentityTypeOK, FormInv, PhaseInv, AliasMapInv, ProgressInv,
           AliasRefsInv, ~HasIndex,
           migrating \in {"summaries", "matrix", "sqlite", "remap"},
           NEW S, Rewrite(S),
           NEW s \in RefStores, NEW c \in Numbered, Known(s)
    PROVE  /\ s \in S => \/ refs'[s][c].form = "uuid"
                         \/ unscanned /\ s = "sqlite"
           /\ refs[s][c].form = "uuid" => refs'[s][c].form = "uuid"
           /\ refs'[s][c].form = "uuid" =>
                 /\ progress[c][wrote[s]] # 0
                 /\ refs'[s][c] = AsUuid(progress[c][wrote[s]])
<1>1. legacyMap = progress BY DEF ProgressInv
<1>2. legacyMap[c][wrote[s]] # 0 \/ (unscanned /\ s = "sqlite")
  BY DEF AliasMapInv
<1>3. version = 1 BY DEF PhaseInv, IdentityTypeOK
<1>4. refs[s][c].form = "uuid" =>
        /\ progress[c][wrote[s]] # 0
        /\ refs[s][c] = AsUuid(progress[c][wrote[s]])
  BY <1>3 DEF AliasRefsInv
<1>5. \A u : AsUuid(u).form = "uuid" BY DEF AsUuid
<1> QED BY <1>1, <1>2, <1>4, <1>5, KnownRewrite

\* Two references to a chapter that carry ids of the progress file agree.
LEMMA ProgressAgrees ==
    ASSUME ProgressInv, ~HasIndex, NEW c \in Numbered,
           NEW s \in RefStores, NEW t \in RefStores, Known(s), Known(t),
           progress[c][wrote[s]] # 0, progress[c][wrote[t]] # 0
    PROVE  progress[c][wrote[s]] = progress[c][wrote[t]]
<1>1. wrote[s] \in {"locator", "hash"} /\ wrote[t] \in {"locator", "hash"}
  BY KnownIs
<1>2. progress[c]["locator"] # 0 =>
        progress[c]["hash"] = progress[c]["locator"]
  BY DEF ProgressInv
<1> QED BY <1>1, <1>2

-----------------------------------------------------------------------------
(* Each invariant over a step.                                             *)

\* What the migration's steps leave alone, for the steps that touch no
\* reference.
LEMMA Frame ==
    ASSUME \/ Load \/ WriteProgress \/ Stamp \/ DropProgress \/ StampEmpty
           \/ StepThrows \/ Restarted \/ UNCHANGED identityVars
    PROVE  refs' = refs /\ entryId' = entryId /\ templateKey' = templateKey
  BY DEF Load, WriteProgress, Stamp, DropProgress, StampEmpty, StepThrows,
         Restarted, identityVars

\* Every step that rewrites references.
LEMMA RewritingSteps ==
    ASSUME [IdentityNext]_identityVars
    PROVE  \/ refs' = refs /\ entryId' = entryId /\ templateKey' = templateKey
           \/ WriteMeta
           \/ Remap
           \/ \E s \in {"summaries", "matrix", "sqlite"} : RewriteStore(s)
  BY Frame DEF IdentityNext, MigrationStep

LEMMA FormStep ==
    ASSUME IdentityTypeOK, FormInv, PhaseInv, IndexMapInv,
           [IdentityNext]_identityVars
    PROVE  FormInv'
<1>1. wrote' = wrote BY WroteStays
<1>2. CASE refs' = refs /\ entryId' = entryId
  BY <1>1, <1>2 DEF FormInv
<1>3. CASE WriteMeta
  <2>1. \A s \in RefStores : \A c \in Numbered :
           refs'[s][c].form \in {"uuid", wrote[s]}
    BY <1>3, RewriteKeepsForms DEF WriteMeta
  <2>2. HasIndex /\ migrating # "no" BY <1>3 DEF WriteMeta, PhaseInv
  <2>3. \A c \in Numbered : legacyMap[c]["locator"] # 0
    BY <2>2 DEF IndexMapInv
  <2>4. \A c \in Numbered : /\ entryId'[c].form = "uuid"
                            /\ entryId'[c].uuid # 0
    BY <1>3, <2>3 DEF WriteMeta, AsUuid
  <2> QED BY <1>1, <2>1, <2>2, <2>4 DEF FormInv, HasIndex
<1>4. ASSUME entryId' = entryId, NEW S, Rewrite(S) PROVE FormInv'
  <2>1. \A s \in RefStores : \A c \in Numbered :
           refs'[s][c].form \in {"uuid", wrote[s]}
    BY <1>4, RewriteKeepsForms
  <2> QED BY <1>1, <1>4, <2>1 DEF FormInv
<1>5. CASE Remap BY <1>4, <1>5 DEF Remap
<1>6. ASSUME NEW s \in {"summaries", "matrix", "sqlite"}, RewriteStore(s)
      PROVE  FormInv'
  BY <1>4, <1>6 DEF RewriteStore
<1> QED BY <1>2, <1>3, <1>5, <1>6, RewritingSteps

LEMMA PhaseStep ==
    ASSUME IdentityTypeOK, FormInv, PhaseInv, [IdentityNext]_identityVars
    PROVE  PhaseInv'
<1>1. HasIndex' <=> HasIndex BY WroteStays DEF HasIndex
<1>2. Indexed <=> HasIndex BY IndexedIs
<1>3. version \in {1, 2} BY DEF IdentityTypeOK
<1>4. CASE Load
  <2>1. version' = version BY <1>4 DEF Load
  <2>2. CASE version = 2 BY <1>1, <1>4, <2>1, <2>2 DEF Load, PhaseInv
  <2>3. CASE version # 2
    <3>1. \/ Indexed /\ migrating' = "meta"
          \/ ~Indexed /\ migrating' \in {"empty", "progress"}
      BY <1>4, <2>3 DEF Load
    <3> QED BY <1>1, <1>2, <2>1, <2>3, <3>1 DEF PhaseInv
  <2> QED BY <2>2, <2>3
<1>5. CASE WriteMeta BY <1>1, <1>5 DEF WriteMeta, PhaseInv
<1>6. CASE WriteProgress BY <1>1, <1>6 DEF WriteProgress, PhaseInv
<1>7. ASSUME NEW s \in {"summaries", "matrix", "sqlite"}, RewriteStore(s)
      PROVE  PhaseInv'
  <2>1. /\ version' = version /\ migrating \in {"summaries", "matrix", "sqlite"}
        /\ \/ migrating' \in {"matrix", "sqlite"}
           \/ Indexed /\ migrating' = "stamp"
           \/ ~Indexed /\ migrating' = "remap"
    BY <1>7 DEF RewriteStore
  <2> QED BY <1>1, <1>2, <2>1 DEF PhaseInv
<1>8. CASE Stamp BY <1>1, <1>8 DEF Stamp, Done, PhaseInv
<1>9. CASE Remap BY <1>1, <1>9 DEF Remap, PhaseInv
<1>10. CASE DropProgress BY <1>1, <1>10 DEF DropProgress, Done, PhaseInv
<1>11. CASE StampEmpty BY <1>1, <1>11 DEF StampEmpty, Done, PhaseInv
<1>12. CASE StepThrows BY <1>1, <1>12 DEF StepThrows, PhaseInv
<1>13. CASE Restarted BY <1>1, <1>13 DEF Restarted, PhaseInv
<1>14. CASE UNCHANGED identityVars
  BY <1>1, <1>14 DEF identityVars, PhaseInv
<1> QED BY <1>4, <1>5, <1>6, <1>7, <1>8, <1>9, <1>10, <1>11, <1>12, <1>13,
           <1>14 DEF IdentityNext, MigrationStep

\* The map of an indexed project binds the known forms to the entry's id.
LEMMA IndexMapIs ==
    ASSUME IdentityTypeOK, FormInv, IndexRefsInv, HasIndex,
           NEW c \in Numbered
    PROVE  /\ IndexMap[c]["locator"] # 0
           /\ IndexMap[c]["hash"] = IndexMap[c]["locator"]
           /\ wrote["sectionIndex"] = "template" =>
                IndexMap[c]["template"] = IndexMap[c]["locator"]
           /\ entryId[c].form = "uuid" =>
                entryId[c] = AsUuid(IndexMap[c]["locator"])
<1>1. Fresh(c, "locator") # 0 BY FreshIs DEF IdForms
<1>2. entryId[c].form = "uuid" => entryId[c].uuid # 0 BY DEF FormInv
<1>3. NewId(c) # 0 BY <1>1, <1>2 DEF NewId
<1>4. IndexMap[c]["locator"] = NewId(c) /\ IndexMap[c]["hash"] = NewId(c)
  BY DEF IndexMap, IdForms
<1>5. ASSUME wrote["sectionIndex"] = "template"
      PROVE  IndexMap[c]["template"] = NewId(c)
  <2>1. entryId[c].form = "template" \/ c \in templateKey
    BY <1>5 DEF FormInv, IndexRefsInv
  <2> QED BY <2>1 DEF IndexMap, IdForms
<1>6. ASSUME entryId[c].form = "uuid" PROVE entryId[c] = AsUuid(NewId(c))
  <2>1. entryId[c] \in References BY DEF IdentityTypeOK
  <2> QED BY <1>6, <2>1 DEF References, AsUuid, NewId
<1> QED BY <1>3, <1>4, <1>5, <1>6

LEMMA IndexMapStep ==
    ASSUME IdentityTypeOK, FormInv, PhaseInv, IndexMapInv, IndexRefsInv,
           [IdentityNext]_identityVars
    PROVE  IndexMapInv'
<1>1. wrote' = wrote /\ (HasIndex' <=> HasIndex)
  BY WroteStays DEF HasIndex
<1>2. Indexed <=> HasIndex BY IndexedIs
<1> SUFFICES ASSUME HasIndex, migrating' # "no" PROVE IndexMapInv'
  BY <1>1 DEF IndexMapInv
<1>3. CASE Load
  <2>1. /\ legacyMap' = IndexMap /\ migrating' = "meta" /\ entryId' = entryId
    BY <1>2, <1>3 DEF Load
  <2> QED BY <1>1, <2>1, IndexMapIs DEF IndexMapInv
<1>4. CASE WriteMeta
  <2>1. legacyMap' = legacyMap /\ migrating # "no" BY <1>4 DEF WriteMeta
  <2>2. \A c \in Numbered : entryId'[c] = AsUuid(legacyMap[c]["locator"])
    BY <1>4 DEF WriteMeta
  <2> QED BY <1>1, <2>1, <2>2 DEF IndexMapInv
<1>5. ASSUME NEW s \in {"summaries", "matrix", "sqlite"}, RewriteStore(s)
      PROVE  IndexMapInv'
  <2>1. /\ legacyMap' = legacyMap /\ entryId' = entryId
        /\ migrating # "no" /\ migrating # "meta"
    BY <1>5 DEF RewriteStore
  <2> QED BY <1>1, <2>1 DEF IndexMapInv
<1>6. CASE UNCHANGED identityVars
  BY <1>1, <1>6 DEF identityVars, IndexMapInv
<1>7. ~WriteProgress /\ ~Remap /\ ~StampEmpty /\ ~DropProgress
  BY DEF WriteProgress, Remap, StampEmpty, DropProgress, PhaseInv
<1>8. ~Stamp /\ ~StepThrows /\ ~Restarted
  BY DEF Stamp, Done, StepThrows, Restarted
<1> QED BY <1>3, <1>4, <1>5, <1>6, <1>7, <1>8 DEF IdentityNext, MigrationStep

LEMMA IndexRefsStep ==
    ASSUME IdentityTypeOK, FormInv, PhaseInv, IndexMapInv, IndexRefsInv,
           [IdentityNext]_identityVars
    PROVE  IndexRefsInv'
<1>1. wrote' = wrote /\ (HasIndex' <=> HasIndex)
  BY WroteStays DEF HasIndex
<1>2. \A s \in RefStores : Known(s)' <=> Known(s) BY <1>1 DEF Known
<1> SUFFICES ASSUME HasIndex PROVE IndexRefsInv'
  BY <1>1 DEF IndexRefsInv
<1>3. CASE refs' = refs /\ entryId' = entryId /\ templateKey' = templateKey
  BY <1>1, <1>2, <1>3 DEF IndexRefsInv
<1>4. CASE WriteMeta
  <2>1. Rewrite(MetaRefs) /\ migrating # "no" BY <1>4 DEF WriteMeta
  <2>2. \A c \in Numbered : entryId'[c] = AsUuid(legacyMap[c]["locator"])
    BY <1>4 DEF WriteMeta
  <2>3. ASSUME NEW c \in Numbered, wrote["sectionIndex"] = "template"
        PROVE  c \in templateKey'
    <3>1. entryId[c].form = "template" \/ c \in templateKey
      BY <2>3 DEF FormInv, IndexRefsInv
    <3> QED BY <1>4, <3>1 DEF WriteMeta
  <2>4. ASSUME NEW s \in RefStores, NEW c \in Numbered, Known(s),
               refs'[s][c].form = "uuid"
        PROVE  refs'[s][c] = entryId'[c]
    BY <2>1, <2>2, <2>4, IndexRewrite
  <2> QED BY <1>1, <1>2, <2>3, <2>4 DEF IndexRefsInv
<1>5. ASSUME NEW s \in {"summaries", "matrix", "sqlite"}, RewriteStore(s)
      PROVE  IndexRefsInv'
  <2>1. /\ Rewrite({s}) /\ migrating # "no" /\ migrating # "meta"
        /\ entryId' = entryId /\ templateKey' = templateKey
    BY <1>5 DEF RewriteStore
  <2>2. \A c \in Numbered : entryId[c] = AsUuid(legacyMap[c]["locator"])
    BY <2>1 DEF IndexMapInv
  <2>3. ASSUME NEW t \in RefStores, NEW c \in Numbered, Known(t),
               refs'[t][c].form = "uuid"
        PROVE  refs'[t][c] = entryId[c]
    BY <2>1, <2>2, <2>3, IndexRewrite
  <2> QED BY <1>1, <1>2, <2>1, <2>3 DEF IndexRefsInv
<1>6. ~Remap BY DEF Remap, PhaseInv
<1> QED BY <1>3, <1>4, <1>5, <1>6, RewritingSteps

\* The map of a project without an index extends the progress file, keeps
\* locator key and title hash together, and misses only unscanned rows.
LEMMA AliasMapIs ==
    ASSUME IdentityTypeOK, FormInv, ProgressInv, AliasRefsInv, ~HasIndex,
           version = 1, NEW scan \in BOOLEAN, NEW c \in Numbered
    PROVE  /\ \A f \in IdForms :
                progress[c][f] # 0 => AliasMap(scan)[c][f] = progress[c][f]
           /\ AliasMap(scan)[c]["locator"] # 0 =>
                AliasMap(scan)[c]["hash"] = AliasMap(scan)[c]["locator"]
           /\ \A s \in RefStores : Known(s) =>
                \/ AliasMap(scan)[c][wrote[s]] # 0
                \/ ~scan /\ s = "sqlite"
<1>1. \A f \in IdForms : AliasMap(scan)[c][f] =
        IF progress[c][f] # 0 THEN progress[c][f]
        ELSE IF f \in {"locator", "hash"} /\ Canonical(c, scan)
        THEN CanonicalId(c)
        ELSE IF f \in Seen(c, scan) THEN Fresh(c, f)
        ELSE 0
  BY DEF AliasMap
<1>2. CanonicalId(c) # 0 /\ \A f \in IdForms : Fresh(c, f) # 0
  BY CanonicalIdIs, FreshIs
<1>3. "locator" \in IdForms /\ "hash" \in IdForms BY DEF IdForms
<1>4. progress[c]["locator"] # 0 =>
        progress[c]["hash"] = progress[c]["locator"]
  BY DEF ProgressInv
<1>5. AliasMap(scan)[c]["locator"] # 0 =>
        AliasMap(scan)[c]["hash"] = AliasMap(scan)[c]["locator"]
  <2>1. CASE progress[c]["locator"] # 0
    BY <1>1, <1>3, <1>4, <2>1
  <2>2. CASE progress[c]["locator"] = 0 /\ Canonical(c, scan)
    <3>1. AliasMap(scan)[c]["locator"] = CanonicalId(c)
      BY <1>1, <1>3, <2>2
    <3>2. AliasMap(scan)[c]["hash"] =
            IF progress[c]["hash"] # 0 THEN progress[c]["hash"]
            ELSE CanonicalId(c)
      BY <1>1, <1>3, <2>2
    <3>3. progress[c]["hash"] # 0 => CanonicalId(c) = progress[c]["hash"]
      BY <2>2 DEF CanonicalId
    <3> QED BY <3>1, <3>2, <3>3
  <2>3. CASE progress[c]["locator"] = 0 /\ ~Canonical(c, scan)
    <3>1. "locator" \notin Seen(c, scan) BY <2>3 DEF Canonical
    <3>2. AliasMap(scan)[c]["locator"] = 0 BY <1>1, <1>3, <2>3, <3>1
    <3> QED BY <3>2
  <2> QED BY <2>1, <2>2, <2>3
<1>6. ASSUME NEW s \in RefStores, Known(s), scan \/ s # "sqlite"
      PROVE  AliasMap(scan)[c][wrote[s]] # 0
  <2>1. wrote[s] \in {"locator", "hash"} /\ wrote[s] \in IdForms
    BY <1>6, KnownIs
  <2>2. refs[s][c].form \in {"uuid", wrote[s]} BY DEF FormInv
  <2>3. CASE refs[s][c].form = "uuid"
    <3>1. progress[c][wrote[s]] # 0 BY <1>6, <2>3 DEF AliasRefsInv
    <3> QED BY <1>1, <2>1, <3>1
  <2>4. CASE refs[s][c].form = wrote[s]
    <3>1. s \in RefStores \ (IF scan THEN {} ELSE {"sqlite"}) BY <1>6
    <3>2. wrote[s] \in Seen(c, scan) BY <2>1, <2>4, <3>1 DEF Seen
    <3>3. AliasMap(scan)[c][wrote[s]] =
            IF progress[c][wrote[s]] # 0 THEN progress[c][wrote[s]]
            ELSE IF Canonical(c, scan) THEN CanonicalId(c)
            ELSE Fresh(c, wrote[s])
      BY <1>1, <2>1, <3>2
    <3> QED BY <1>2, <2>1, <3>3
  <2> QED BY <2>2, <2>3, <2>4
<1>7. \A f \in IdForms :
        progress[c][f] # 0 => AliasMap(scan)[c][f] = progress[c][f]
  BY <1>1
<1> QED BY <1>5, <1>6, <1>7

\* A project without an index that is loaded for the first time or again.
LEMMA LoadAlias ==
    ASSUME IdentityTypeOK, FormInv, ~HasIndex, Load, version # 2
    PROVE  \E scan \in BOOLEAN :
             /\ legacyMap' = AliasMap(scan)
             /\ unscanned' = (unscanned \/ ~scan)
             /\ migrating' = IF NothingProbed(scan) /\ progress = Unbound
                             THEN "empty" ELSE "progress"
<1>1. ~Indexed BY IndexedIs
<1> QED BY <1>1 DEF Load

LEMMA AliasMapStep ==
    ASSUME IdentityTypeOK, FormInv, PhaseInv, AliasMapInv, ProgressInv,
           AliasRefsInv, [IdentityNext]_identityVars
    PROVE  AliasMapInv'
<1> DEFINE On == {"progress", "summaries", "matrix", "sqlite", "remap"}
<1>1. wrote' = wrote /\ (HasIndex' <=> HasIndex)
  BY WroteStays DEF HasIndex
<1>2. \A s \in RefStores : Known(s)' <=> Known(s) BY <1>1 DEF Known
<1> SUFFICES ASSUME ~HasIndex, migrating' \in On PROVE AliasMapInv'
  BY <1>1 DEF AliasMapInv
<1>3. CASE Load
  <2>1. progress' = progress BY <1>3 DEF Load
  <2>2. version # 2 BY <1>3 DEF Load, PhaseInv
  <2>3. version = 1 BY <2>2 DEF IdentityTypeOK
  <2>4. PICK scan \in BOOLEAN : /\ legacyMap' = AliasMap(scan)
                                /\ unscanned' = (unscanned \/ ~scan)
    BY <1>3, <2>2, LoadAlias
  <2>5. \A c \in Numbered :
          /\ \A f \in IdForms :
               progress[c][f] # 0 => AliasMap(scan)[c][f] = progress[c][f]
          /\ AliasMap(scan)[c]["locator"] # 0 =>
               AliasMap(scan)[c]["hash"] = AliasMap(scan)[c]["locator"]
          /\ \A s \in RefStores : Known(s) =>
               \/ AliasMap(scan)[c][wrote[s]] # 0
               \/ ~scan /\ s = "sqlite"
    BY <2>3, AliasMapIs
  <2>6. ~scan => unscanned' BY <2>4
  <2> QED BY <1>1, <1>2, <2>1, <2>4, <2>5, <2>6 DEF AliasMapInv
<1>4. CASE WriteProgress
  <2>1. /\ progress' = legacyMap /\ legacyMap' = legacyMap
        /\ unscanned' = unscanned /\ migrating = "progress"
    BY <1>4 DEF WriteProgress
  <2> QED BY <1>1, <1>2, <2>1 DEF AliasMapInv
<1>5. ASSUME NEW s \in {"summaries", "matrix", "sqlite"}, RewriteStore(s)
      PROVE  AliasMapInv'
  <2>1. /\ progress' = progress /\ legacyMap' = legacyMap
        /\ unscanned' = unscanned /\ migrating \in On
    BY <1>5 DEF RewriteStore
  <2> QED BY <1>1, <1>2, <2>1 DEF AliasMapInv
<1>6. CASE UNCHANGED identityVars
  BY <1>1, <1>2, <1>6 DEF identityVars, AliasMapInv
<1>7. ~WriteMeta BY DEF WriteMeta, PhaseInv
<1>8. /\ ~Stamp /\ ~Remap /\ ~DropProgress /\ ~StampEmpty
      /\ ~StepThrows /\ ~Restarted
  BY DEF Stamp, Remap, DropProgress, StampEmpty, Done, StepThrows, Restarted
<1> QED BY <1>3, <1>4, <1>5, <1>6, <1>7, <1>8 DEF IdentityNext, MigrationStep

LEMMA ProgressStep ==
    ASSUME IdentityTypeOK, FormInv, PhaseInv, AliasMapInv, ProgressInv,
           AliasRefsInv, [IdentityNext]_identityVars
    PROVE  ProgressInv'
<1> DEFINE On == {"summaries", "matrix", "sqlite", "remap"}
<1>1. wrote' = wrote /\ (HasIndex' <=> HasIndex)
  BY WroteStays DEF HasIndex
<1>2. \A s \in RefStores : Known(s)' <=> Known(s) BY <1>1 DEF Known
<1> SUFFICES ASSUME ~HasIndex PROVE ProgressInv'
  BY <1>1 DEF ProgressInv
<1>3. ASSUME progress' = progress, migrating' \notin On,
             migrating' # "empty"
      PROVE  ProgressInv'
  BY <1>3 DEF ProgressInv
<1>4. CASE Load
  <2>1. CASE version = 2
    BY <1>1, <1>2, <1>4, <2>1 DEF Load, ProgressInv, PhaseInv
  <2>2. CASE version # 2
    <3>1. version = 1 /\ progress' = progress
      BY <1>4, <2>2 DEF Load, IdentityTypeOK
    <3>2. PICK scan \in BOOLEAN :
            /\ unscanned' = (unscanned \/ ~scan)
            /\ migrating' = IF NothingProbed(scan) /\ progress = Unbound
                            THEN "empty" ELSE "progress"
      BY <1>4, <2>2, LoadAlias
    <3>3. CASE migrating' = "progress" BY <1>3, <3>1, <3>3
    <3>4. CASE migrating' = "empty"
      <4>1. NothingProbed(scan) /\ progress = Unbound BY <3>2, <3>4
      <4>2. 1 \in Numbered BY IdentityAssumption DEF Numbered
      <4>3. ASSUME NEW s \in RefStores, Known(s)
            PROVE  ~scan /\ s = "sqlite"
        <5>1. wrote[s] \in IdForms BY <4>3, KnownIs
        <5>2. progress[1][wrote[s]] = 0 BY <4>1, <4>2, <5>1 DEF Unbound
        <5>3. refs[s][1].form # "uuid"
          BY <3>1, <4>2, <4>3, <5>2 DEF AliasRefsInv
        <5>4. refs[s][1].form = wrote[s] BY <4>2, <5>3 DEF FormInv
        <5>5. Seen(1, scan) = {} BY <4>1, <4>2 DEF NothingProbed
        <5> QED BY <5>1, <5>4, <5>5 DEF Seen
      <4>4. \A s \in RefStores : Known(s)' => unscanned' /\ s = "sqlite"
        BY <1>2, <3>2, <4>3
      <4> QED BY <1>1, <3>1, <3>4, <4>4 DEF ProgressInv
    <3> QED BY <3>2, <3>3, <3>4
  <2> QED BY <2>1, <2>2
<1>5. CASE WriteProgress
  <2>1. /\ progress' = legacyMap /\ legacyMap' = legacyMap
        /\ migrating = "progress" /\ migrating' # "empty"
    BY <1>5 DEF WriteProgress
  <2> QED BY <1>1, <2>1 DEF AliasMapInv, ProgressInv
<1>6. ASSUME NEW s \in {"summaries", "matrix", "sqlite"}, RewriteStore(s)
      PROVE  ProgressInv'
  <2>1. /\ progress' = progress /\ legacyMap' = legacyMap
        /\ migrating \in On /\ migrating' # "empty"
    BY <1>6 DEF RewriteStore
  <2> QED BY <1>1, <2>1 DEF ProgressInv
<1>7. CASE DropProgress
  <2>1. progress' \in {progress, Unbound} /\ migrating' = "no"
    BY <1>7 DEF DropProgress, Done
  <2>2. \A c \in Numbered : Unbound[c]["locator"] = 0
    BY DEF Unbound, IdForms
  <2> QED BY <1>1, <2>1, <2>2 DEF ProgressInv
<1>8. CASE UNCHANGED identityVars
  BY <1>1, <1>2, <1>8 DEF identityVars, ProgressInv
<1>9. CASE Remap BY <1>3, <1>9 DEF Remap
<1>10. CASE StampEmpty \/ StepThrows \/ Restarted
  BY <1>3, <1>10 DEF StampEmpty, Done, StepThrows, Restarted
<1>11. ~WriteMeta /\ ~Stamp BY DEF WriteMeta, Stamp, PhaseInv
<1> QED BY <1>4, <1>5, <1>6, <1>7, <1>8, <1>9, <1>10, <1>11
        DEF IdentityNext, MigrationStep

LEMMA AliasRefsStep ==
    ASSUME IdentityTypeOK, FormInv, PhaseInv, AliasMapInv, ProgressInv,
           AliasRefsInv, [IdentityNext]_identityVars
    PROVE  AliasRefsInv'
<1>1. wrote' = wrote /\ (HasIndex' <=> HasIndex)
  BY WroteStays DEF HasIndex
<1>2. \A s \in RefStores : Known(s)' <=> Known(s) BY <1>1 DEF Known
<1> SUFFICES ASSUME ~HasIndex PROVE AliasRefsInv'
  BY <1>1 DEF AliasRefsInv
<1>3. ASSUME refs' = refs, progress' = progress,
             version' = 1 => version = 1
      PROVE  AliasRefsInv'
  BY <1>1, <1>2, <1>3 DEF AliasRefsInv
<1>4. ASSUME NEW S, Rewrite(S), progress' = progress,
             migrating \in {"summaries", "matrix", "sqlite", "remap"}
      PROVE  AliasRefsInv'
  <2>1. ASSUME NEW c \in Numbered, NEW s \in RefStores, Known(s),
               refs'[s][c].form = "uuid"
        PROVE  /\ progress[c][wrote[s]] # 0
               /\ refs'[s][c] = AsUuid(progress[c][wrote[s]])
    BY <1>4, <2>1, AliasRewrite
  <2>2. ASSUME NEW c \in Numbered, NEW s \in RefStores, NEW t \in RefStores,
               Known(s), Known(t),
               refs'[s][c].form = "uuid", refs'[t][c].form = "uuid"
        PROVE  refs'[t][c] = refs'[s][c]
    <3>1. progress[c][wrote[s]] # 0 /\ progress[c][wrote[t]] # 0
      BY <2>1, <2>2
    <3>2. progress[c][wrote[s]] = progress[c][wrote[t]]
      BY <2>2, <3>1, ProgressAgrees
    <3> QED BY <2>1, <2>2, <3>2
  <2> QED BY <1>1, <1>2, <1>4, <2>1, <2>2 DEF AliasRefsInv
<1>5. CASE WriteProgress
  <2>1. /\ refs' = refs /\ version' = version /\ progress' = legacyMap
        /\ migrating = "progress"
    BY <1>5 DEF WriteProgress
  <2>2. \A c \in Numbered : \A f \in IdForms :
           progress[c][f] # 0 => legacyMap[c][f] = progress[c][f]
    BY <2>1 DEF AliasMapInv
  <2>3. \A s \in RefStores : Known(s) => wrote[s] \in IdForms BY KnownIs
  <2> QED BY <1>1, <1>2, <2>1, <2>2, <2>3 DEF AliasRefsInv
<1>6. ASSUME NEW s \in {"summaries", "matrix", "sqlite"}, RewriteStore(s)
      PROVE  AliasRefsInv'
  BY <1>4, <1>6 DEF RewriteStore
<1>7. CASE Remap BY <1>4, <1>7 DEF Remap
<1>8. CASE DropProgress
  <2>1. refs' = refs /\ version' = version /\ version = 2
    BY <1>8 DEF DropProgress, PhaseInv
  <2> QED BY <1>1, <1>2, <2>1 DEF AliasRefsInv
<1>9. CASE Load BY <1>3, <1>9 DEF Load
<1>10. CASE Stamp BY <1>3, <1>10 DEF Stamp
<1>11. CASE StampEmpty BY <1>3, <1>11 DEF StampEmpty
<1>12. CASE StepThrows \/ Restarted BY <1>3, <1>12 DEF StepThrows, Restarted
<1>13. CASE UNCHANGED identityVars BY <1>3, <1>13 DEF identityVars
<1>14. ~WriteMeta BY DEF WriteMeta, PhaseInv
<1> QED BY <1>5, <1>6, <1>7, <1>8, <1>9, <1>10, <1>11, <1>12, <1>13, <1>14
        DEF IdentityNext, MigrationStep

\* After a rewrite of S its stores are rewritten, and the others as before.
LEMMA RewriteMarks ==
    ASSUME IInv, migrating # "no", HasIndex \/ migrating # "meta",
           migrating \in {"meta", "summaries", "matrix", "sqlite", "remap"},
           NEW S, Rewrite(S), NEW s \in RefStores, NEW c \in Numbered,
           Known(s), s \in S \cup SoFar
    PROVE  \/ refs'[s][c].form = "uuid"
           \/ unscanned /\ s = "sqlite"
<1>1. /\ IdentityTypeOK /\ FormInv /\ PhaseInv /\ IndexMapInv /\ IndexRefsInv
      /\ AliasMapInv /\ ProgressInv /\ AliasRefsInv
  BY DEF IInv
<1>2. s \in SoFar => \/ refs[s][c].form = "uuid"
                     \/ unscanned /\ s = "sqlite"
  BY DEF IInv, RewrittenInv
<1>3. CASE HasIndex
  <2>1. /\ s \in S => refs'[s][c].form = "uuid"
        /\ refs[s][c].form = "uuid" => refs'[s][c].form = "uuid"
    BY <1>1, <1>3, IndexRewrite
  <2> QED BY <1>2, <2>1
<1>4. CASE ~HasIndex
  <2>1. /\ s \in S => \/ refs'[s][c].form = "uuid"
                      \/ unscanned /\ s = "sqlite"
        /\ refs[s][c].form = "uuid" => refs'[s][c].form = "uuid"
    BY <1>1, <1>4, AliasRewrite
  <2> QED BY <1>2, <2>1
<1> QED BY <1>3, <1>4

LEMMA RewrittenStep ==
    ASSUME IInv, [IdentityNext]_identityVars
    PROVE  RewrittenInv'
<1>1. wrote' = wrote /\ (HasIndex' <=> HasIndex)
  BY WroteStays DEF HasIndex
<1>2. \A s \in RefStores : Known(s)' <=> Known(s) BY <1>1 DEF Known
<1>3. version \in {1, 2} /\ SoFar \subseteq RefStores
  BY DEF IInv, IdentityTypeOK, SoFar, RefStores, MetaRefs
<1>4. IdentityTypeOK /\ FormInv /\ PhaseInv /\ ProgressInv BY DEF IInv
<1>5. Indexed <=> HasIndex BY <1>4, IndexedIs
<1>6. ASSUME SoFar' \subseteq SoFar, refs' = refs, unscanned => unscanned'
      PROVE  RewrittenInv'
  BY <1>1, <1>2, <1>3, <1>6 DEF IInv, RewrittenInv
<1>7. ASSUME NEW S, S \subseteq RefStores, Rewrite(S), unscanned' = unscanned,
             migrating \in {"meta", "summaries", "matrix", "sqlite", "remap"},
             SoFar' \subseteq S \cup SoFar
      PROVE  RewrittenInv'
  <2>1. HasIndex \/ migrating # "meta" BY <1>4 DEF PhaseInv
  <2>2. \A s \in S \cup SoFar : \A c \in Numbered :
          Known(s) => \/ refs'[s][c].form = "uuid"
                      \/ unscanned /\ s = "sqlite"
    BY <1>3, <1>7, <2>1, RewriteMarks
  <2> QED BY <1>1, <1>2, <1>3, <1>7, <2>2 DEF RewrittenInv
<1>8. CASE Load
  <2>1. version' = version /\ refs' = refs /\ (unscanned => unscanned')
    BY <1>8 DEF Load
  <2>2. CASE version = 2
    BY <1>6, <2>1, <2>2 DEF SoFar, RefStores
  <2>3. CASE version # 2
    <3>1. migrating' \in {"meta", "progress", "empty"}
      BY <1>8, <2>3 DEF Load
    <3>2. SoFar' = {} BY <2>1, <2>3, <3>1 DEF SoFar
    <3> QED BY <1>6, <2>1, <3>2
  <2> QED BY <2>2, <2>3
<1>9. CASE WriteMeta
  <2>1. /\ Rewrite(MetaRefs) /\ unscanned' = unscanned /\ version' = version
        /\ migrating = "meta" /\ migrating' = "summaries"
    BY <1>9 DEF WriteMeta
  <2>2. version' # 2 BY <1>4, <2>1 DEF PhaseInv
  <2>3. SoFar' \subseteq MetaRefs BY <2>1, <2>2 DEF SoFar
  <2>4. MetaRefs \subseteq RefStores BY DEF RefStores
  <2> QED BY <1>7, <2>1, <2>3, <2>4
<1>10. CASE WriteProgress
  <2>1. /\ refs' = refs /\ unscanned' = unscanned /\ version' = version
        /\ migrating = "progress" /\ migrating' = "summaries"
    BY <1>10 DEF WriteProgress
  <2>2. version' # 2 /\ ~HasIndex BY <1>4, <2>1 DEF PhaseInv
  <2>3. SoFar' = {} BY <1>1, <2>1, <2>2 DEF SoFar
  <2> QED BY <1>6, <2>1, <2>3
<1>11. ASSUME NEW s \in {"summaries", "matrix", "sqlite"}, RewriteStore(s)
       PROVE  RewrittenInv'
  <2>1. /\ Rewrite({s}) /\ unscanned' = unscanned /\ version' = version
        /\ migrating = s
        /\ \/ s = "summaries" /\ migrating' = "matrix"
           \/ s = "matrix" /\ migrating' = "sqlite"
           \/ s = "sqlite" /\ Indexed /\ migrating' = "stamp"
           \/ s = "sqlite" /\ ~Indexed /\ migrating' = "remap"
    BY <1>11 DEF RewriteStore
  <2>2. version = 1 BY <1>3, <1>4, <2>1 DEF PhaseInv
  <2>3. SoFar' \subseteq {s} \cup SoFar
    <3>1. CASE s = "summaries" BY <1>1, <2>1, <2>2, <3>1 DEF SoFar
    <3>2. CASE s = "matrix" BY <1>1, <2>1, <2>2, <3>2 DEF SoFar
    <3>3. CASE s = "sqlite" BY <1>1, <1>5, <2>1, <2>2, <3>3 DEF SoFar
    <3> QED BY <3>1, <3>2, <3>3
  <2>4. {s} \subseteq RefStores BY DEF RefStores
  <2> QED BY <1>7, <2>1, <2>3, <2>4
<1>12. CASE Stamp
  <2>1. /\ refs' = refs /\ unscanned' = unscanned /\ migrating = "stamp"
        /\ version' = 2
    BY <1>12 DEF Stamp
  <2>2. HasIndex BY <1>4, <2>1 DEF PhaseInv
  <2>3. SoFar = RefStores BY <2>1, <2>2 DEF SoFar, RefStores
  <2> QED BY <1>6, <2>1, <2>3 DEF SoFar, RefStores
<1>13. CASE Remap
  <2>1. /\ Rewrite(MetaRefs) /\ unscanned' = unscanned /\ migrating = "remap"
    BY <1>13 DEF Remap
  <2>2. SoFar' \subseteq MetaRefs \cup SoFar
    BY <1>13, <2>1 DEF Remap, SoFar, RefStores
  <2>3. MetaRefs \subseteq RefStores BY DEF RefStores
  <2> QED BY <1>7, <2>1, <2>2, <2>3
<1>14. CASE DropProgress
  <2>1. /\ refs' = refs /\ unscanned' = unscanned /\ version' = version
        /\ version = 2
    BY <1>4, <1>14 DEF DropProgress, PhaseInv
  <2> QED BY <1>6, <2>1 DEF SoFar, RefStores
<1>15. CASE StampEmpty
  <2>1. /\ refs' = refs /\ unscanned' = unscanned /\ migrating = "empty"
    BY <1>15 DEF StampEmpty
  <2>2. \A s \in RefStores : Known(s) => unscanned /\ s = "sqlite"
    BY <1>4, <2>1 DEF ProgressInv, PhaseInv
  <2>3. SoFar' \subseteq RefStores
    BY DEF SoFar, RefStores, MetaRefs
  <2> QED BY <1>1, <1>2, <2>1, <2>2, <2>3 DEF RewrittenInv
<1>16. CASE StepThrows \/ Restarted
  <2>1. /\ refs' = refs /\ unscanned' = unscanned /\ version' = version
        /\ migrating' = "no"
    BY <1>16 DEF StepThrows, Restarted
  <2>2. SoFar' \subseteq SoFar BY <2>1 DEF SoFar, RefStores
  <2> QED BY <1>6, <2>1, <2>2
<1>17. CASE UNCHANGED identityVars
  <2>1. SoFar' = SoFar BY <1>1, <1>17 DEF SoFar, identityVars
  <2> QED BY <1>6, <1>17, <2>1 DEF identityVars
<1> QED BY <1>8, <1>9, <1>10, <1>11, <1>12, <1>13, <1>14, <1>15, <1>16, <1>17
        DEF IdentityNext, MigrationStep

-----------------------------------------------------------------------------
(* No id is given twice.                                                   *)

\* Every chapter mints from a range of four of its own.
LEMMA FreshWithin ==
    ASSUME IdentityTypeOK, NEW c \in Numbered, NEW f \in IdForms
    PROVE  /\ Fresh(c, f) >= nextUuid + 4 * (c - 1)
           /\ Fresh(c, f) < nextUuid + 4 * c
           /\ Fresh(c, f) < Spent
<1>1. nextUuid \in Nat /\ c \in Nat /\ c >= 1 /\ c <= IdChapters /\ IdChapters \in Nat
  BY IdentityAssumption DEF IdentityTypeOK, Numbered
<1>2. /\ Fresh(c, f) \in Nat
      /\ Fresh(c, f) >= nextUuid + 4 * (c - 1) /\ Fresh(c, f) < nextUuid + 4 * c
  <2>1. CASE f = "locator" BY <1>1, <2>1 DEF Fresh
  <2>2. CASE f = "hash" BY <1>1, <2>2 DEF Fresh
  <2>3. CASE f = "template" BY <1>1, <2>3 DEF Fresh
  <2>4. CASE f = "opaque" BY <1>1, <2>4 DEF Fresh
  <2> QED BY <2>1, <2>2, <2>3, <2>4 DEF IdForms
<1>3. 4 * c <= 4 * IdChapters BY <1>1
<1> QED BY <1>1, <1>2, <1>3 DEF Spent

\* What is used is a number.
LEMMA UsedIs ==
    ASSUME IdentityTypeOK, NEW c \in Numbered, NEW u \in Used(c)
    PROVE  u \in Nat
<1>1. entryId[c].uuid \in Nat /\ \A s \in RefStores : refs[s][c].uuid \in Nat
  BY DEF IdentityTypeOK, References
<1>2. \A f \in IdForms : progress[c][f] \in Nat /\ legacyMap[c][f] \in Nat
  BY DEF IdentityTypeOK, Maps
<1> QED BY <1>1, <1>2 DEF Used

\* The ids of an index, and of an alias map, are the chapter's own or minted.
LEMMA MapsUse ==
    ASSUME IdentityTypeOK, NEW c \in Numbered, NEW f \in IdForms
    PROVE  /\ \/ IndexMap[c][f] \in Used(c) \cup {0}
              \/ \E g \in IdForms : IndexMap[c][f] = Fresh(c, g)
           /\ \A scan \in BOOLEAN :
                \/ AliasMap(scan)[c][f] \in Used(c) \cup {0}
                \/ \E g \in IdForms : AliasMap(scan)[c][f] = Fresh(c, g)
<1>1. entryId[c].uuid \in Used(c) /\ \A g \in IdForms : progress[c][g] \in Used(c)
  BY DEF Used
<1>2. "locator" \in IdForms /\ "hash" \in IdForms BY DEF IdForms
<1>3. NewId(c) \in Used(c) \/ NewId(c) = Fresh(c, "locator")
  BY <1>1 DEF NewId
<1>4. CanonicalId(c) \in Used(c) \/ CanonicalId(c) = Fresh(c, "locator")
  BY <1>1, <1>2 DEF CanonicalId
<1>5. IndexMap[c][f] \in {NewId(c), Fresh(c, f), 0}
  BY DEF IndexMap
<1>6. ASSUME NEW scan \in BOOLEAN
      PROVE  AliasMap(scan)[c][f] \in {progress[c][f], CanonicalId(c), Fresh(c, f), 0}
  BY DEF AliasMap
<1>7. \/ IndexMap[c][f] \in Used(c) \cup {0}
      \/ \E g \in IdForms : IndexMap[c][f] = Fresh(c, g)
  BY <1>2, <1>3, <1>5
<1>8. ASSUME NEW scan \in BOOLEAN
      PROVE  \/ AliasMap(scan)[c][f] \in Used(c) \cup {0}
             \/ \E g \in IdForms : AliasMap(scan)[c][f] = Fresh(c, g)
  BY <1>1, <1>2, <1>4, <1>6
<1> QED BY <1>7, <1>8

\* A rewrite hands out ids of the map.
LEMMA RewriteUses ==
    ASSUME IdentityTypeOK, NEW S, Rewrite(S),
           NEW s \in RefStores, NEW c \in Numbered
    PROVE  /\ refs'[s][c].uuid \in Used(c)
           /\ refs'[s][c] = refs[s][c] \/ refs'[s][c].uuid # 0
<1>1. refs[s][c].uuid \in Used(c) /\ \A f \in IdForms : legacyMap[c][f] \in Used(c)
  BY DEF Used
<1>2. \A u : AsUuid(u).uuid = u BY DEF AsUuid
<1> QED BY <1>1, <1>2, RewriteIs

\* A step that mints nothing takes the ids of a chapter from its own.
LEMMA UsedStep ==
    ASSUME IdentityTypeOK, [IdentityNext]_identityVars, ~Load,
           NEW c \in Numbered
    PROVE  /\ Used(c)' \subseteq Used(c) \cup {0}
           /\ nextUuid' = nextUuid
           /\ \A s \in RefStores :
                refs'[s][c] = refs[s][c] \/ refs'[s][c].uuid # 0
<1>1. /\ entryId[c].uuid \in Used(c)
      /\ \A s \in RefStores : refs[s][c].uuid \in Used(c)
      /\ \A f \in IdForms : progress[c][f] \in Used(c) /\ legacyMap[c][f] \in Used(c)
  BY DEF Used
<1>2. \A f \in IdForms : Unbound[c][f] = 0 BY DEF Unbound
<1>3. nextUuid' = nextUuid
  BY DEF IdentityNext, MigrationStep, WriteMeta, WriteProgress, RewriteStore,
         Stamp, Remap, DropProgress, StampEmpty, StepThrows, Restarted,
         identityVars
<1>4. \/ refs' = refs
      \/ \E S \in SUBSET RefStores : Rewrite(S)
  <2>1. WriteMeta \/ Remap => Rewrite(MetaRefs) /\ MetaRefs \in SUBSET RefStores
    BY DEF WriteMeta, Remap, RefStores
  <2>2. ASSUME NEW s \in {"summaries", "matrix", "sqlite"}, RewriteStore(s)
        PROVE  Rewrite({s}) /\ {s} \in SUBSET RefStores
    BY <2>2 DEF RewriteStore, RefStores
  <2>3. \/ WriteMeta \/ Remap \/ refs' = refs
        \/ \E s \in {"summaries", "matrix", "sqlite"} : RewriteStore(s)
    BY DEF IdentityNext, MigrationStep, WriteProgress, Stamp, DropProgress,
           StampEmpty, StepThrows, Restarted, identityVars
  <2> QED BY <2>1, <2>2, <2>3
<1>5. ASSUME NEW s \in RefStores
      PROVE  /\ refs'[s][c].uuid \in Used(c)
             /\ refs'[s][c] = refs[s][c] \/ refs'[s][c].uuid # 0
  BY <1>1, <1>4, RewriteUses
<1>6. entryId'[c].uuid \in Used(c)
  <2>1. entryId' = entryId \/ entryId'[c] = AsUuid(legacyMap[c]["locator"])
    BY DEF IdentityNext, MigrationStep, WriteMeta, WriteProgress, RewriteStore,
           Stamp, Remap, DropProgress, StampEmpty, StepThrows, Restarted,
           identityVars
  <2> QED BY <1>1, <2>1 DEF AsUuid, IdForms
<1>7. /\ progress' \in {progress, legacyMap, Unbound}
      /\ legacyMap' \in {legacyMap, Unbound}
  BY DEF IdentityNext, MigrationStep, WriteMeta, WriteProgress, RewriteStore,
         Stamp, Remap, DropProgress, StampEmpty, StepThrows, Restarted, Done,
         identityVars
<1>8. ASSUME NEW f \in IdForms
      PROVE  progress'[c][f] \in Used(c) \cup {0} /\ legacyMap'[c][f] \in Used(c) \cup {0}
  BY <1>1, <1>2, <1>7
<1>9. Used(c)' \subseteq Used(c) \cup {0} BY <1>5, <1>6, <1>8 DEF Used
<1> QED BY <1>3, <1>5, <1>9

\* Load takes them from its own and from what it mints.
LEMMA UsedLoad ==
    ASSUME IdentityTypeOK, Load, NEW c \in Numbered, NEW u \in Used(c)'
    PROVE  u \in Used(c) \cup {0} \/ (nextUuid' = Spent /\ \E g \in IdForms : u = Fresh(c, g))
<1>1. /\ entryId' = entryId /\ refs' = refs /\ progress' = progress
      /\ \/ legacyMap' = legacyMap
         \/ nextUuid' = Spent /\ (\/ legacyMap' = IndexMap
                                  \/ \E scan \in BOOLEAN : legacyMap' = AliasMap(scan))
  BY DEF Load
<1>2. CASE u \in Used(c) BY <1>2
<1>3. CASE u \notin Used(c)
  <2>1. PICK f \in IdForms : u = legacyMap'[c][f] BY <1>1, <1>3 DEF Used
  <2>2. legacyMap' # legacyMap BY <1>3, <2>1 DEF Used
  <2> QED BY <1>1, <2>1, <2>2, MapsUse
<1> QED BY <1>2, <1>3

LEMMA ApartInit == IdentityInit => ApartInv
<1> SUFFICES ASSUME IdentityInit PROVE ApartInv OBVIOUS
<1>1. /\ entryId = [c \in Numbered |-> InForm(wrote["sectionIndex"])]
      /\ refs = [s \in RefStores |-> [c \in Numbered |-> InForm(wrote[s])]]
      /\ progress = Unbound /\ legacyMap = Unbound /\ nextUuid = 1
      /\ wrote \in [Written -> IdForms \cup {"none"}]
  BY Zenon DEF IdentityInit
<1>2. ASSUME NEW c \in Numbered PROVE Used(c) \subseteq {0}
  BY <1>1 DEF Used, InForm, Unbound
<1>3. ASSUME NEW c \in Numbered, NEW s \in RefStores PROVE refs[s][c].form # "uuid"
  BY <1>1 DEF InForm, IdForms, Written
<1> QED BY <1>1, <1>2, <1>3 DEF ApartInv

LEMMA ApartStep ==
    IdentityTypeOK /\ ApartInv /\ [IdentityNext]_identityVars => ApartInv'
<1> SUFFICES ASSUME IdentityTypeOK, ApartInv, [IdentityNext]_identityVars
             PROVE  ApartInv'
  OBVIOUS
<1>1. nextUuid \in Nat \ {0} /\ IdChapters \in Nat
  BY IdentityAssumption DEF IdentityTypeOK
<1>2. CASE ~Load
  <2>1. \A c \in Numbered : \A u \in Used(c)' : u < nextUuid'
    BY <1>1, <1>2, UsedStep DEF ApartInv
  <2>2. \A c \in Numbered : \A d \in Numbered \ {c} :
          Used(c)' \cap Used(d)' \subseteq {0}
    BY <1>2, UsedStep DEF ApartInv
  <2>3. \A c \in Numbered : \A s \in RefStores :
          refs'[s][c].form = "uuid" => refs'[s][c].uuid # 0
    BY <1>2, UsedStep DEF ApartInv
  <2> QED BY <2>1, <2>2, <2>3 DEF ApartInv
<1>3. CASE Load
  <2>1. refs' = refs /\ nextUuid' \in {nextUuid, Spent} BY <1>3 DEF Load
  <2>2. Spent >= nextUuid /\ Spent \in Nat BY <1>1 DEF Spent
  <2>3. ASSUME NEW c \in Numbered, NEW u \in Used(c)' PROVE u < nextUuid'
    <3>1. CASE u \in Used(c) \cup {0}
      <4>1. u < nextUuid /\ u \in Nat BY <1>1, <3>1, UsedIs DEF ApartInv
      <4> QED BY <1>1, <2>1, <2>2, <4>1
    <3>2. CASE nextUuid' = Spent /\ \E g \in IdForms : u = Fresh(c, g)
      BY <3>2, FreshWithin
    <3> QED BY <1>3, <3>1, <3>2, UsedLoad
  <2>4. ASSUME NEW c \in Numbered, NEW d \in Numbered \ {c},
               NEW u \in Used(c)', u \in Used(d)'
        PROVE  u = 0
    <3>1. /\ u \in Used(c) \cup {0} \/ \E g \in IdForms : u = Fresh(c, g)
          /\ u \in Used(d) \cup {0} \/ \E g \in IdForms : u = Fresh(d, g)
      BY <1>3, <2>4, UsedLoad
    <3>2. ASSUME NEW e \in Numbered, u \in Used(e) \cup {0}
          PROVE  u \in Nat /\ u < nextUuid
      BY <1>1, <3>2, UsedIs DEF ApartInv
    <3>3. ASSUME NEW e \in Numbered, NEW g \in IdForms, u = Fresh(e, g)
          PROVE  /\ u \in Nat /\ e \in Nat \ {0}
                 /\ u >= nextUuid + 4 * (e - 1) /\ u < nextUuid + 4 * e
                 /\ u >= nextUuid
      <4>1. u \in Nat /\ e \in Nat \ {0} BY <3>3, FreshIs DEF Numbered
      <4>2. u >= nextUuid + 4 * (e - 1) /\ u < nextUuid + 4 * e
        BY <3>3, FreshWithin
      <4> QED BY <1>1, <4>1, <4>2
    <3>4. CASE u \in Used(c) \cup {0} /\ u \in Used(d) \cup {0}
      BY <3>4 DEF ApartInv
    <3>5. CASE u \in Used(c) \cup {0} /\ \E g \in IdForms : u = Fresh(d, g)
      BY <1>1, <3>2, <3>3, <3>5
    <3>6. CASE u \in Used(d) \cup {0} /\ \E g \in IdForms : u = Fresh(c, g)
      BY <1>1, <3>2, <3>3, <3>6
    <3>7. CASE (\E g \in IdForms : u = Fresh(c, g)) /\ \E g \in IdForms : u = Fresh(d, g)
      <4>1. /\ u \in Nat /\ c \in Nat /\ d \in Nat /\ c # d
            /\ u >= nextUuid + 4 * (c - 1) /\ u < nextUuid + 4 * c
            /\ u >= nextUuid + 4 * (d - 1) /\ u < nextUuid + 4 * d
        BY <3>3, <3>7
      <4> QED BY <1>1, <4>1
    <3> QED BY <3>1, <3>4, <3>5, <3>6, <3>7
  <2> QED BY <2>1, <2>3, <2>4 DEF ApartInv
<1> QED BY <1>2, <1>3

-----------------------------------------------------------------------------
(* The theorems.                                                           *)

LEMMA InvInit == IdentityInit => IInv
<1> SUFFICES ASSUME IdentityInit PROVE IInv OBVIOUS
<1>1. IdentityTypeOK BY TypeInit
<1>2. /\ entryId = [c \in Numbered |-> InForm(wrote["sectionIndex"])]
      /\ refs = [s \in RefStores |-> [c \in Numbered |-> InForm(wrote[s])]]
      /\ version = 1 /\ migrating = "no" /\ progress = Unbound
  BY Zenon DEF IdentityInit
<1>3. \A s \in Written : wrote[s] # "uuid" BY <1>1 DEF IdentityTypeOK, IdForms
<1>4. /\ \A s \in RefStores : \A c \in Numbered :
            refs[s][c].form = wrote[s] /\ refs[s][c].form # "uuid"
      /\ \A c \in Numbered :
            /\ entryId[c].form = wrote["sectionIndex"]
            /\ entryId[c].form # "uuid"
  BY <1>2, <1>3 DEF InForm, Written
<1>5. FormInv BY <1>4 DEF FormInv
<1>6. PhaseInv /\ IndexMapInv /\ AliasMapInv
  BY <1>2 DEF PhaseInv, IndexMapInv, AliasMapInv
<1>7. IndexRefsInv /\ AliasRefsInv BY <1>4 DEF IndexRefsInv, AliasRefsInv
<1>8. \A c \in Numbered : progress[c]["locator"] = 0
  BY <1>2 DEF Unbound, IdForms
<1>9. ProgressInv BY <1>2, <1>8 DEF ProgressInv
<1>10. SoFar = {} BY <1>2 DEF SoFar
<1>11. RewrittenInv BY <1>10 DEF RewrittenInv
<1>12. ApartInv BY ApartInit
<1> QED BY <1>1, <1>5, <1>6, <1>7, <1>9, <1>11, <1>12 DEF IInv

LEMMA InvStep == IInv /\ [IdentityNext]_identityVars => IInv'
<1> SUFFICES ASSUME IInv, [IdentityNext]_identityVars PROVE IInv' OBVIOUS
<1>1. /\ IdentityTypeOK /\ FormInv /\ PhaseInv /\ IndexMapInv /\ IndexRefsInv
      /\ AliasMapInv /\ ProgressInv /\ AliasRefsInv /\ ApartInv
  BY DEF IInv
<1>2. IdentityTypeOK' BY <1>1, TypeStep
<1>3. FormInv' BY <1>1, FormStep
<1>4. PhaseInv' BY <1>1, PhaseStep
<1>5. IndexMapInv' BY <1>1, IndexMapStep
<1>6. IndexRefsInv' BY <1>1, IndexRefsStep
<1>7. AliasMapInv' BY <1>1, AliasMapStep
<1>8. ProgressInv' BY <1>1, ProgressStep
<1>9. AliasRefsInv' BY <1>1, AliasRefsStep
<1>10. RewrittenInv' BY RewrittenStep
<1>11. ApartInv' BY <1>1, ApartStep
<1> QED BY <1>2, <1>3, <1>4, <1>5, <1>6, <1>7, <1>8, <1>9, <1>10, <1>11 DEF IInv

LEMMA InvOneId == IInv => OneIdPerChapter
<1> SUFFICES ASSUME IInv PROVE OneIdPerChapter OBVIOUS
<1>1. Indexed <=> HasIndex BY IndexedIs DEF IInv
<1>2. \A c \in Numbered : \A s \in RefStores :
        Known(s) /\ refs[s][c].form = "uuid" =>
          /\ Indexed => refs[s][c] = entryId[c]
          /\ \A t \in RefStores : Known(t) /\ refs[t][c].form = "uuid" =>
                refs[t][c] = refs[s][c]
  <2>1. CASE HasIndex BY <2>1 DEF IInv, IndexRefsInv
  <2>2. CASE ~HasIndex BY <1>1, <2>2 DEF IInv, AliasRefsInv
  <2> QED BY <2>1, <2>2
<1>3. ASSUME NEW c \in Numbered, NEW r \in UuidsOf(c)
      PROVE  r.uuid \in Used(c) /\ r.uuid # 0
  <2>1. r.form = "uuid" /\ (r = entryId[c] \/ \E s \in RefStores : r = refs[s][c])
    BY DEF UuidsOf
  <2>2. r.uuid \in Used(c) BY <2>1 DEF Used
  <2>3. r.uuid # 0 BY <2>1 DEF IInv, FormInv, ApartInv
  <2> QED BY <2>2, <2>3
<1>4. \A c \in Numbered : \A d \in Numbered \ {c} : UuidsOf(c) \cap UuidsOf(d) = {}
  BY <1>3 DEF IInv, ApartInv
<1> QED BY <1>2, <1>4 DEF OneIdPerChapter

LEMMA InvMarked == IInv => MarkedIsMigrated
<1> SUFFICES ASSUME IInv, version = 2 PROVE MarkedIsMigrated
  BY DEF MarkedIsMigrated
<1>1. SoFar = RefStores BY DEF SoFar
<1> QED BY <1>1 DEF IInv, RewrittenInv, MarkedIsMigrated

\* The invariant above holds for any number of chapters and of failures.
THEOREM MigrationInvariant == IdentitySpec => []IInv
  BY InvInit, InvStep, PTL DEF IdentitySpec

\* The variables of the migration have their types, for any number of chapters.
THEOREM IdentityTypeCorrect == IdentitySpec => []IdentityTypeOK
<1>1. IInv => IdentityTypeOK BY DEF IInv
<1> QED BY <1>1, MigrationInvariant, PTL

\* However often the migration of chapter-identity-migration-service.ts fails,
\* ends with the application and is repeated, the references to a chapter that
\* were written in a known form, and its index entry, never carry two ids, and
\* no id they carry is carried by a reference to another chapter.
THEOREM ChaptersHaveOneId == IdentitySpec => []OneIdPerChapter
  BY InvOneId, MigrationInvariant, PTL

\* A project is marked v2 only when no reference in a known form is left as it
\* was, but for rows of a database that could not be scanned.
THEOREM MarkedProjectsAreMigrated == IdentitySpec => []MarkedIsMigrated
  BY InvMarked, MigrationInvariant, PTL

-----------------------------------------------------------------------------
(***************************************************************************)
(* All four parts.  The part that moves keeps its own invariant; the others *)
(* stay as their Rests predicate leaves them.                              *)
(***************************************************************************)

PartsInv ==
  /\ ServicesTypeOK
  /\ part = "delete" => Sane
  /\ part = "tree" => TreeInv
  /\ part = "docx" => DInv
  /\ part = "identity" => IInv

LEMMA SaneTyped == Sane => DeleteTypeOK
<1> SUFFICES ASSUME Sane PROVE DeleteTypeOK
  OBVIOUS
<1>1. \A e \in JournalEntry : e \in Entry
  BY DEF JournalEntry
<1>2. journal \in Seq(Entry) /\ boot \in Seq(Entry)
  BY <1>1 DEF Sane, Typed, StoresTyped
<1>3. ASSUME NEW c \in calls
      PROVE  /\ c.kind \in Kinds /\ c.doc \in Seq(Chapters)
             /\ c.at \in DeleteSteps \cup RollbackSteps \cup UndoSteps
             /\ c.entry \in Entry \cup {None}
  BY <1>1 DEF Sane, Typed, CallsTyped, CallType, CallPlaces
<1>4. window.sec \in Chapters \cup {0} /\ {window.id, timer} \subseteq 0..MaxDeleteClicks
  BY DeleteAssumption DEF Sane, Typed, RendererTyped, Chapters
<1> QED BY <1>2, <1>3, <1>4 DEF DeleteTypeOK, Sane, Typed, StoresTyped, RendererTyped, GhostsTyped

LEMMA TreeRestsTyped == TreeRests => TreeTypeOK
<1>1. <<>> \in Seq(Heading) /\ <<>> \in Seq(IndexEntry)
  OBVIOUS
<1>2. NoUndo.block = <<>> /\ NoUndo.entries = <<>>
  BY DEF NoUndo
<1> QED BY <1>1, <1>2 DEF TreeRests, TreeTypeOK

LEMMA DocxRestsTyped == DocxRests => DocxTypeOK
<1> SUFFICES ASSUME DocxRests PROVE DocxTypeOK
  OBVIOUS
<1>1. At("idle") \in FrameType /\ At("done") \in FrameType
  BY AtTyped DEF FramePlaces
<1>2. frames = [x \in Actors |-> At(IF x = "quit" THEN "done" ELSE "idle")]
  BY DEF DocxRests
<1>3. frames \in [Actors -> FrameType]
  BY <1>1, <1>2
<1>4. pythons \in [Pythons -> States]
  BY DEF DocxRests, States
<1>5. 0 \in 0..(MaxFailures - 1) /\ 0 \in 0..MaxSpawns
  BY BoundsAre
<1>6. jobs \in Seq(AnyJob)
  BY DEF DocxRests
<1>7. killed \subseteq Pythons /\ pipe \subseteq Pythons /\ announced \subseteq Pythons
  BY DEF DocxRests
<1> QED BY <1>3, <1>4, <1>5, <1>6, <1>7 DEF DocxTypeOK, DocxRests, States, FrameType, FramePlaces, AnyJob

LEMMA IdentityRestsTyped == IdentityRests => IdentityTypeOK
<1> SUFFICES ASSUME IdentityRests PROVE IdentityTypeOK
  OBVIOUS
<1>1. InForm("none") \in References
  BY DEF InForm, References
<1>2. /\ entryId \in [Numbered -> References]
      /\ refs \in [RefStores -> [Numbered -> References]]
      /\ wrote \in [Written -> IdForms \cup {"none"}]
  BY <1>1 DEF IdentityRests
<1>3. progress \in Maps /\ legacyMap \in Maps
  BY DEF IdentityRests, Unbound, Maps
<1>4. 0 \in 0..MaxMishaps
  BY IdentityAssumption
<1>5. memoed \in BOOLEAN /\ unscanned \in BOOLEAN
  BY Zenon DEF IdentityRests
<1>6. version = 2 /\ migrating = "no" /\ templateKey = {} /\ nextUuid = 1 /\ mishaps = 0
  BY Zenon DEF IdentityRests
<1>7. version \in {1, 2} /\ templateKey \subseteq Numbered /\ nextUuid \in Nat \ {0} /\ mishaps \in 0..MaxMishaps
  BY <1>4, <1>6
<1>8. migrating \in {"no", "empty", "meta", "progress", "summaries", "matrix", "sqlite", "stamp", "remap", "drop"}
  BY <1>6, Zenon
<1> QED BY <1>2, <1>3, <1>5, <1>7, <1>8, Zenon DEF IdentityTypeOK

\* The part that moves starts with its invariant, the others at rest.
LEMMA PartsInit == Init => PartsInv
<1>1. DeleteInit => Sane /\ DeleteTypeOK
  BY SaneInit, SaneTyped
<1>2. TreeInit => TreeInv /\ TreeTypeOK
  BY NewProposal DEF TreeInv
<1>3. DocxInit => DocxTypeOK /\ DInv
  BY DocxTypeInit, DocxInvInit
<1>4. IdentityInit => IInv /\ IdentityTypeOK
  BY InvInit DEF IInv
<1> QED BY <1>1, <1>2, <1>3, <1>4, TreeRestsTyped, DocxRestsTyped, IdentityRestsTyped
        DEF Init, PartsInv, ServicesTypeOK

LEMMA DeleteStays == DeleteTypeOK /\ UNCHANGED deleteVars => DeleteTypeOK'
BY DEF deleteVars, stores, renderer, ghosts, DeleteTypeOK

LEMMA TreeStays == TreeTypeOK /\ UNCHANGED treeVars => TreeTypeOK'
BY DEF treeVars, TreeTypeOK

LEMMA DocxStays == DocxTypeOK /\ UNCHANGED docxVars => DocxTypeOK'
BY DEF docxVars, DocxTypeOK

LEMMA IdentityStays == IdentityTypeOK /\ UNCHANGED identityVars => IdentityTypeOK'
BY DEF identityVars, IdentityTypeOK

\* A step of one part keeps the part's invariant, and rest is rest.
LEMMA PartsStep == PartsInv /\ [Next]_vars => PartsInv'
<1> SUFFICES ASSUME PartsInv, [Next]_vars PROVE PartsInv'
  OBVIOUS
<1> DEFINE D == [DeleteNext]_deleteVars
           T == [TreeNext]_treeVars
           X == [DocxNext]_docxVars
           I == [IdentityNext]_identityVars
<1>1. /\ part' = part /\ D /\ T /\ X /\ I
      /\ part # "delete" => UNCHANGED deleteVars
      /\ part # "tree" => UNCHANGED treeVars
      /\ part # "docx" => UNCHANGED docxVars
      /\ part # "identity" => UNCHANGED identityVars
  BY DEF Next, vars
<1>2. DeleteTypeOK' /\ (part = "delete" => Sane')
  <2>1. Sane /\ D => Sane'
    BY SaneNext
  <2>2. Sane' => DeleteTypeOK'
    BY SaneTyped, PTL
  <2> QED BY <1>1, <2>1, <2>2, DeleteStays DEF PartsInv, ServicesTypeOK
<1>3. TreeTypeOK' /\ (part = "tree" => TreeInv')
  <2>1. TreeInv /\ T => TreeInv'
    BY TreeStep
  <2>2. TreeInv' => TreeTypeOK'
    BY DEF TreeInv
  <2> QED BY <1>1, <2>1, <2>2, TreeStays DEF PartsInv, ServicesTypeOK
<1>4. DocxTypeOK' /\ (part = "docx" => DInv')
  <2>1. DocxTypeOK /\ DInv /\ X => DocxTypeOK' /\ DInv'
    BY DocxTypeNext, SightedNext, JobsNext, CalmQuitNext DEF DInv, Sighted
  <2> QED BY <1>1, <2>1, DocxStays DEF PartsInv, ServicesTypeOK
<1>5. IdentityTypeOK' /\ (part = "identity" => IInv')
  <2>1. IInv /\ I => IInv'
    BY InvStep
  <2>2. IInv' => IdentityTypeOK'
    BY DEF IInv
  <2> QED BY <1>1, <2>1, <2>2, IdentityStays DEF PartsInv, ServicesTypeOK
<1> QED BY <1>1, <1>2, <1>3, <1>4, <1>5 DEF PartsInv, ServicesTypeOK

\* Whichever service moves, the variables of all four keep their types.
THEOREM ServicesTypeCorrect == Spec => []ServicesTypeOK
<1>1. PartsInv => ServicesTypeOK
  BY DEF PartsInv
<1> QED BY <1>1, PartsInit, PartsStep, PTL DEF Spec
=============================================================================
