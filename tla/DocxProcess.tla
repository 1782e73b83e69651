---------------------------- MODULE DocxProcess ----------------------------
(***************************************************************************)
(* The docx bridge's process manager (services/docx-bridge/                *)
(* process-manager.ts): one Python renderer is spawned at start-up, probed *)
(* by a health check, restarted when it exits or stops answering, and      *)
(* stopped when the application quits.  Three async functions share the    *)
(* fields child, port and intentionalStop without a lock: the start at     *)
(* boot, a restart (one at a time, isRestarting) and the stop at quit.     *)
(*                                                                         *)
(* A frame is one of these calls and the await it stands at.  What follows *)
(* an await in the same turn of the event loop (the listeners of an 'exit' *)
(* event and the promise jobs they queue) is kept in jobs, which run, in   *)
(* their order, before any other event.                                    *)
(***************************************************************************)
EXTENDS Naturals, Sequences

CONSTANTS MaxSpawns,    \* processes in a behaviour; then the venv is missing
          MaxRetries,   \* MAX_RETRIES
          MaxFailures   \* MAX_CONSECUTIVE_FAILURES

ASSUME DocxAssumption == /\ MaxSpawns \in Nat \ {0}
                         /\ MaxRetries \in Nat \ {0}
                         /\ MaxFailures \in Nat \ {0}

VARIABLES pythons,             \* what the OS knows of each process
          killed,              \* processes that were sent a SIGKILL
          child, port,         \* this.child; the process this.port belongs to
          pipe,                \* READY lines printed and not yet read
          announced,           \* processes with the auto-restart exit listener
          frames,              \* the three calls
          jobs,                \* promise jobs of this turn
          intentionalStop,
          health, probe,       \* health check interval; process being probed
          consecutiveFailures,
          gaveUp,              \* history: a start used up its attempts
          late,                \* history: a READY nobody waited for was read
          calm                 \* history: nothing was under way at quit

docxVars == <<pythons, killed, child, port, pipe, announced, frames, jobs,
              intentionalStop, health, probe, consecutiveFailures, gaveUp,
              late, calm>>

Pythons == 1..MaxSpawns
Living == {p \in Pythons : pythons[p] \in {"booting", "serving", "deaf"}}
Unborn == {p \in Pythons : /\ pythons[p] = "unborn"
                           /\ \A q \in 1..(p - 1) : pythons[q] # "unborn"}
Actors == {"boot", "restart", "quit"}
At(place) == [at |-> place, proc |-> 0, attempt |-> 0]
isRestarting == frames.restart.at # "idle"
Spawning(x, p) == frames[x].at = "spawning" /\ frames[x].proc = p

\* child.exitCode is set by an exit with a code, never by a death by signal.
HasExitCode(p) == pythons[p] = "gone"

DocxInit ==
    /\ pythons = [p \in Pythons |-> "unborn"]
    /\ killed = {} /\ pipe = {} /\ announced = {}
    /\ child = 0 /\ port = 0
    /\ frames = [x \in Actors |-> At("idle")]
    /\ jobs = <<>>
    /\ intentionalStop = FALSE
    /\ health = FALSE /\ probe = 0 /\ consecutiveFailures = 0
    /\ gaveUp = FALSE /\ late = FALSE /\ calm = FALSE

-----------------------------------------------------------------------------
(* Steps shared by the calls.  Each says what becomes of killed, child,    *)
(* port, pythons, frames and gaveUp.                                       *)

\* Mutant: cleanup() forgets the child without killing it.
KilledMutant == killed

\* cleanup(): the child is killed and forgotten.
Killed == killed \cup ({child} \ {0})

\* spawnOnce() as attempt k of the call x.  Without the interpreter on disk
\* it rejects at once, and so do the attempts that are left.
SpawnOnce(x, k, oldPort) ==
    /\ killed' = Killed
    /\ \/ \E p \in Unborn :
            /\ pythons' = [pythons EXCEPT ![p] = "booting"]
            /\ child' = p /\ port' = oldPort
            /\ frames' = [frames EXCEPT ![x] = [at |-> "spawning", proc |-> p,
                                                attempt |-> k]]
            /\ UNCHANGED gaveUp
       \/ /\ child' = 0 /\ port' = 0
          /\ frames' = [frames EXCEPT ![x] =
                          At(IF x = "boot" THEN "failed" ELSE "idle")]
          /\ gaveUp' = TRUE
          /\ UNCHANGED pythons

\* stopProcess() returns: at quit that is all, a restart goes on to start.
StopReturns(x, oldPort) ==
    IF x = "quit"
    THEN /\ killed' = Killed
         /\ child' = 0 /\ port' = oldPort
         /\ frames' = [frames EXCEPT !.quit = At("done")]
         /\ UNCHANGED <<pythons, gaveUp, intentionalStop>>
    ELSE SpawnOnce(x, 1, oldPort) /\ intentionalStop' = FALSE

\* The SIGTERM of stopProcess, if the child has not exited, and the wait for
\* its effect; otherwise the cleanup.
Terminate(x) ==
    IF child # 0 /\ ~HasExitCode(child)
    THEN /\ frames' = [frames EXCEPT ![x] = [At("term") EXCEPT !.proc = child]]
         /\ UNCHANGED <<pythons, killed, child, port, gaveUp, intentionalStop>>
    ELSE StopReturns(x, 0)

-----------------------------------------------------------------------------
(* Promise jobs.                                                           *)

\* Mutant: the stop at quit does not set intentionalStop.
BeginsMutant(x) ==
    /\ health' = FALSE
    /\ \/ /\ child = 0 /\ x = "quit"
          /\ frames' = [frames EXCEPT !.quit = At("done")]
          /\ UNCHANGED <<pythons, killed, child, port, gaveUp, intentionalStop>>
       \/ /\ child # 0 /\ (port # 0 \/ ~HasExitCode(child))
          /\ intentionalStop' = (x = "restart")
          /\ frames' = [frames EXCEPT ![x] =
                          IF port # 0 THEN At("shutdown")
                          ELSE [At("term") EXCEPT !.proc = child]]
          /\ UNCHANGED <<pythons, killed, child, port, gaveUp>>
       \/ /\ child = 0 /\ x = "restart"
          /\ StopReturns(x, port)
       \/ /\ child # 0 /\ port = 0 /\ HasExitCode(child)
          /\ StopReturns(x, 0)

\* restartProcess(), up to the first await of its stopProcess(), and
\* stopProcess() at quit: with no child there is nothing to stop, with a port
\* the shutdown request goes out, else SIGTERM.
Begins(x) ==
    /\ health' = FALSE
    /\ \/ /\ child = 0 /\ x = "quit"
          /\ intentionalStop' = TRUE
          /\ frames' = [frames EXCEPT !.quit = At("done")]
          /\ UNCHANGED <<pythons, killed, child, port, gaveUp>>
       \/ /\ child # 0 /\ (port # 0 \/ ~HasExitCode(child))
          /\ intentionalStop' = TRUE
          /\ frames' = [frames EXCEPT ![x] =
                          IF port # 0 THEN At("shutdown")
                          ELSE [At("term") EXCEPT !.proc = child]]
          /\ UNCHANGED <<pythons, killed, child, port, gaveUp>>
       \/ /\ child = 0 /\ x = "restart"
          /\ StopReturns(x, port)
       \/ /\ child # 0 /\ port = 0 /\ HasExitCode(child)
          /\ StopReturns(x, 0)

\* The catch of startProcess: cleanup, then the next attempt or the error.
Rejected(x) ==
    /\ IF frames[x].attempt < MaxRetries
       THEN SpawnOnce(x, frames[x].attempt + 1, 0)
       ELSE /\ killed' = Killed
            /\ child' = 0 /\ port' = 0
            /\ frames' = [frames EXCEPT ![x] =
                            At(IF x = "boot" THEN "failed" ELSE "idle")]
            /\ gaveUp' = TRUE
            /\ UNCHANGED pythons
    /\ UNCHANGED <<intentionalStop, health>>

\* waitForExit() resolved with true.
Waited(x) == StopReturns(x, 0) /\ UNCHANGED health

RunJob ==
    /\ jobs # <<>>
    /\ jobs' = Tail(jobs)
    /\ LET x == Head(jobs)[2]
       IN  CASE Head(jobs)[1] = "begin" -> Begins(x)
             [] Head(jobs)[1] = "rejected" -> Rejected(x)
             [] Head(jobs)[1] = "waited" -> Waited(x)
    /\ UNCHANGED <<pipe, announced, probe, consecutiveFailures, late, calm>>

-----------------------------------------------------------------------------
(* Events.                                                                 *)

Idle == jobs = <<>>

\* docxBridgeService.start() at application start.
Boot ==
    /\ Idle /\ frames.boot.at = "idle" /\ frames.quit.at = "idle"
    /\ SpawnOnce("boot", 1, port)
    /\ UNCHANGED <<pipe, announced, jobs, intentionalStop, health, probe,
                   consecutiveFailures, late, calm>>

\* The renderer binds its port and prints READY.
Prints(p) ==
    /\ Idle /\ pythons[p] = "booting" /\ p \notin killed
    /\ pythons' = [pythons EXCEPT ![p] = "serving"]
    /\ pipe' = pipe \cup {p}
    /\ UNCHANGED <<killed, child, port, announced, frames, jobs,
                   intentionalStop, health, probe, consecutiveFailures,
                   gaveUp, late, calm>>

\* Mutant: a restart does not start the health check again.
OnReadyMutant(p) ==
    /\ Idle /\ p \in pipe
    /\ pipe' = pipe \ {p}
    /\ port' = p
    /\ announced' = announced \cup
                      (IF pythons[p] \in {"gone", "slain"} THEN {} ELSE {p})
    /\ IF \E x \in {"boot", "restart"} : Spawning(x, p)
       THEN /\ frames' = [x \in Actors |->
                            IF ~Spawning(x, p) THEN frames[x]
                            ELSE At(IF x = "boot" THEN "done" ELSE "idle")]
            /\ health' = Spawning("boot", p)
            /\ consecutiveFailures' = 0
            /\ UNCHANGED late
       ELSE late' = TRUE /\ UNCHANGED <<frames, health, consecutiveFailures>>
    /\ UNCHANGED <<pythons, killed, child, jobs, intentionalStop, probe,
                   gaveUp, calm>>

\* The data listener reads READY: the port is taken whoever is the child, the
\* restart listener is added, and the call that waits for it goes on to
\* startHealthCheck(); a restart is over.
OnReady(p) ==
    /\ Idle /\ p \in pipe
    /\ pipe' = pipe \ {p}
    /\ port' = p
    /\ announced' = announced \cup
                      (IF pythons[p] \in {"gone", "slain"} THEN {} ELSE {p})
    /\ IF \E x \in {"boot", "restart"} : Spawning(x, p)
       THEN /\ frames' = [x \in Actors |->
                            IF ~Spawning(x, p) THEN frames[x]
                            ELSE At(IF x = "boot" THEN "done" ELSE "idle")]
            /\ health' = TRUE
            /\ consecutiveFailures' = 0
            /\ UNCHANGED late
       ELSE late' = TRUE /\ UNCHANGED <<frames, health, consecutiveFailures>>
    /\ UNCHANGED <<pythons, killed, child, jobs, intentionalStop, probe,
                   gaveUp, calm>>

\* The startup timer of spawnOnce; READY and 'exit' clear it.
StartupTimeout(x) ==
    /\ Idle /\ frames[x].at = "spawning"
    /\ frames[x].proc \in Living
    /\ jobs' = <<<<"rejected", x>>>>
    /\ UNCHANGED <<pythons, killed, child, port, pipe, announced, frames,
                   intentionalStop, health, probe, consecutiveFailures,
                   gaveUp, late, calm>>

\* The process exits: of itself, asked to, or by a signal.  Listeners run in
\* the order they were added: the one of spawnOnce (rejects if no port is
\* known), the auto-restart one, those of waitForExit.  A process nobody
\* refers to is forgotten.
Exits(p) ==
    /\ Idle /\ p \in Living
    /\ \E how \in IF p = child THEN {"gone", "slain"} ELSE {"gone"} :
          pythons' = [pythons EXCEPT ![p] = how]
    /\ killed' = killed \ {p} /\ announced' = announced \ {p}
    /\ jobs' = LET Restarts == /\ p \in announced
                               /\ ~intentionalStop /\ ~isRestarting
                   Rejects(x) == Spawning(x, p) /\ port = 0
                   Waits(x) == /\ frames[x].at \in {"graceful", "term"}
                               /\ frames[x].proc = p
                   Job(what, x, holds) == IF holds THEN <<<<what, x>>>>
                                          ELSE <<>>
               IN  Job("begin", "restart", Restarts)
                   \o Job("rejected", "boot", Rejects("boot"))
                   \o Job("rejected", "restart", Rejects("restart"))
                   \o Job("waited", "restart", Waits("restart"))
                   \o Job("waited", "quit", Waits("quit"))
    /\ UNCHANGED <<child, port, pipe, frames, intentionalStop, health, probe,
                   consecutiveFailures, gaveUp, late, calm>>

\* The renderer stops answering.
Hangs(p) ==
    /\ Idle /\ pythons[p] = "serving" /\ p \notin killed
    /\ pythons' = [pythons EXCEPT ![p] = "deaf"]
    /\ UNCHANGED <<killed, child, port, pipe, announced, frames, jobs,
                   intentionalStop, health, probe, consecutiveFailures,
                   gaveUp, late, calm>>

\* The answer to the shutdown request, or its failure: waitForExit() looks at
\* the child of this moment.
ShutdownAnswered(x) ==
    /\ Idle /\ frames[x].at = "shutdown"
    /\ \/ /\ port # 0 /\ pythons[port] = "serving"
          /\ IF child = 0 \/ HasExitCode(child)
             THEN StopReturns(x, 0)
             ELSE /\ frames' = [frames EXCEPT ![x] =
                                  [At("graceful") EXCEPT !.proc = child]]
                  /\ UNCHANGED <<pythons, killed, child, port, gaveUp,
                                 intentionalStop>>
       \/ Terminate(x)
    /\ UNCHANGED <<pipe, announced, jobs, health, probe, consecutiveFailures,
                   late, calm>>

\* waitForExit() resolves with false: SIGTERM after the graceful wait, SIGKILL
\* and cleanup after the SIGTERM.
WaitTimeout(x) ==
    /\ Idle
    /\ \/ frames[x].at = "graceful" /\ Terminate(x)
       \/ frames[x].at = "term" /\ StopReturns(x, 0)
    /\ UNCHANGED <<pipe, announced, jobs, health, probe, consecutiveFailures,
                   late, calm>>

\* The health check's interval: one request, unless there is no port or a
\* restart is under way.
Tick ==
    /\ Idle /\ health /\ probe = 0
    /\ port # 0 /\ ~isRestarting
    /\ probe' = port
    /\ UNCHANGED <<pythons, killed, child, port, pipe, announced, frames, jobs,
                   intentionalStop, health, consecutiveFailures, gaveUp, late,
                   calm>>

\* Mutant: one failure too late.
ProbedMutant ==
    /\ Idle /\ probe # 0
    /\ probe' = 0
    /\ \/ /\ pythons[probe] = "serving"
          /\ consecutiveFailures' = 0
          /\ UNCHANGED jobs
       \/ IF consecutiveFailures >= MaxFailures
          THEN /\ consecutiveFailures' = 0
               /\ jobs' = IF isRestarting THEN <<>>
                          ELSE <<<<"begin", "restart">>>>
          ELSE /\ consecutiveFailures' = consecutiveFailures + 1
               /\ UNCHANGED jobs
    /\ UNCHANGED <<pythons, killed, child, port, pipe, announced, frames,
                   intentionalStop, health, gaveUp, late, calm>>

\* Its answer, which may come after a stop or a restart.
Probed ==
    /\ Idle /\ probe # 0
    /\ probe' = 0
    /\ \/ /\ pythons[probe] = "serving"
          /\ consecutiveFailures' = 0
          /\ UNCHANGED jobs
       \/ IF consecutiveFailures + 1 >= MaxFailures
          THEN /\ consecutiveFailures' = 0
               /\ jobs' = IF isRestarting THEN <<>>
                          ELSE <<<<"begin", "restart">>>>
          ELSE /\ consecutiveFailures' = consecutiveFailures + 1
               /\ UNCHANGED jobs
    /\ UNCHANGED <<pythons, killed, child, port, pipe, announced, frames,
                   intentionalStop, health, gaveUp, late, calm>>

\* will-quit: docxBridgeService.stop().
Quit ==
    /\ Idle /\ frames.quit.at = "idle"
    /\ Begins("quit")
    /\ calm' = /\ frames.boot.at # "spawning" /\ ~isRestarting
               /\ probe = 0 /\ pipe = {}
    /\ UNCHANGED <<pipe, announced, jobs, probe, consecutiveFailures, late>>

DocxNext ==
    \/ RunJob \/ Boot \/ Tick \/ Probed \/ Quit
    \/ \E p \in Pythons : Prints(p) \/ OnReady(p) \/ Exits(p) \/ Hangs(p)
    \/ \E x \in Actors : StartupTimeout(x) \/ ShutdownAnswered(x)
                         \/ WaitTimeout(x)

\* Timers, requests with a timeout, promise jobs and readable pipes happen;
\* nothing makes a renderer print READY, exit, hang, or the user quit.
DocxFairness ==
    /\ WF_docxVars(RunJob) /\ WF_docxVars(Boot)
    /\ WF_docxVars(Tick) /\ WF_docxVars(Probed)
    /\ \A p \in Pythons : WF_docxVars(OnReady(p))
    /\ \A x \in Actors : /\ WF_docxVars(StartupTimeout(x))
                         /\ WF_docxVars(ShutdownAnswered(x))
                         /\ WF_docxVars(WaitTimeout(x))

DocxSpec == DocxInit /\ [][DocxNext]_docxVars /\ DocxFairness

-----------------------------------------------------------------------------
(* Properties.                                                             *)

DocxTypeOK ==
    /\ pythons \in [Pythons -> {"unborn", "booting", "serving", "deaf", "gone",
                                "slain"}]
    /\ killed \subseteq Pythons /\ pipe \subseteq Pythons
    /\ announced \subseteq Pythons
    /\ {child, port, probe} \subseteq 0..MaxSpawns
    /\ frames \in [Actors -> [at : {"idle", "spawning", "shutdown", "graceful",
                                    "term", "done", "failed"},
                              proc : 0..MaxSpawns, attempt : 0..MaxRetries]]
    /\ jobs \in Seq({"begin", "rejected", "waited"} \X Actors)
    /\ {intentionalStop, health, gaveUp, late, calm} \subseteq BOOLEAN
    /\ consecutiveFailures \in 0..(MaxFailures - 1)

\* However the start, the restart and the stop overlap, no living renderer is
\* lost sight of: it is the manager's child, or was sent a SIGKILL.
NoOrphan == \A p \in Living : p = child \/ p \in killed

\* A quit that overlaps no start, no restart and no health request leaves no
\* renderer behind, and none is started later.
QuitLeavesNone ==
    frames.quit.at = "done" /\ calm => child = 0 /\ Living \subseteq killed

Serving == child # 0 /\ port = child /\ pythons[child] = "serving"

\* The renderer comes back: whatever exits or hangs, it serves again and again
\* unless a start gave up, the application quits, or the READY line of a
\* process that was given up is read (then a start may wait for ever).
ServesAgain ==
    []<>(Serving \/ gaveUp \/ late \/ frames.boot.at = "idle"
                 \/ frames.quit.at # "idle")
=============================================================================
