----------------------------- MODULE JobManager -----------------------------
(***************************************************************************)
(* internal/jobs: the background job queue of the server.  A request is    *)
(* persisted as "queued", a goroutine per job waits for one of the worker  *)
(* slots, registers itself so that it can be cancelled, runs acme.sh under *)
(* a timeout, classifies the outcome, optionally purges a directory,       *)
(* persists the final record, calls OnDone, and only then closes its live  *)
(* log, leaves the map of running jobs and frees its slot.                 *)
(*                                                                         *)
(* Concurrent with the goroutines: HTTP handlers that submit and cancel,   *)
(* the context timer, the acme.sh process with the processes it starts,    *)
(* the pruner, and the server process itself, which may close its database *)
(* (shutdown), die, and be started again on the same database.             *)
(***************************************************************************)
EXTENDS Integers, FiniteSets

CONSTANTS Jobs,        \* the requests that may be submitted, one id each
          MaxParallel, \* jobs.max_parallel as handed to NewManager
          PurgeJobs,   \* the requests that carry a PurgeDir
          DiskErrors,  \* may a database write fail while the database is open?
          MaxDeaths    \* bound: how often the server shuts down or dies

ASSUME JobsAssumption     == IsFiniteSet(Jobs) /\ PurgeJobs \subseteq Jobs
ASSUME ParallelAssumption == MaxParallel \in Int
ASSUME FaultAssumption    == DiskErrors \in BOOLEAN /\ MaxDeaths \in Nat

VARIABLES
  alive,     \* the server process runs
  dbOpen,    \* its bbolt database is open
  deaths,    \* how often it died
  store,     \* the jobs bucket: id -> persisted record, or Absent
  pc,        \* where the goroutine of each job is
  job,       \* the goroutine's own copy of the record
  sem,       \* the jobs that hold a worker slot
  running,   \* the keys of Manager.running
  ctx,       \* the context of each job
  logs,      \* the log buffer of each job
  procs,     \* the live processes of each acme.sh invocation
  exit,      \* how the invocation ended
  cancels,   \* Cancel calls that have found the job and not yet cancelled it
  pruning,   \* keys the pruner collected and has not deleted yet
  answered,  \* history: the Cancel calls that returned true
  removed,   \* history: PurgeDir was removed
  notified,  \* history: OnDone was called
  lost       \* history: the write of the final record failed

db       == <<dbOpen, store>>
server   == <<alive, deaths>>
routine  == <<pc, job, sem, running, logs>>
process  == <<procs, exit>>
history  == <<answered, removed, notified, lost>>
vars     == <<server, db, routine, ctx, process, cancels, pruning, history>>

-----------------------------------------------------------------------------
(* Records and program counters.                                           *)

Final    == {"success", "failed", "cancelled"}
Status   == {"queued", "running"} \cup Final
Record   == [status : Status, ended : BOOLEAN]
Absent   == [status |-> "absent", ended |-> FALSE]

Queued   == [status |-> "queued",  ended |-> FALSE]
Running  == [status |-> "running", ended |-> FALSE]
Ended(r) == r.ended

\* The points of execute and runCommand between which other actors can act.
Executing == {"saveRunning", "start", "spawn", "wait", "classify", "purge",
              "saveFinal", "onDone", "closeLog"}
Holding   == Executing \cup {"register", "unregister", "release"}
PC        == Holding \cup {"new", "acquire", "done", "dead"}

\* NewManager: a configured parallelism below one means one slot.
Slots == IF MaxParallel < 1 THEN 1 ELSE MaxParallel

Init ==
  /\ alive = TRUE
  /\ dbOpen = TRUE
  /\ deaths = 0
  /\ store = [j \in Jobs |-> Absent]
  /\ pc = [j \in Jobs |-> "new"]
  /\ job = [j \in Jobs |-> Queued]
  /\ sem = {}
  /\ running = {}
  /\ ctx = [j \in Jobs |-> "none"]
  /\ logs = [j \in Jobs |-> "none"]
  /\ procs = [j \in Jobs |-> {}]
  /\ exit = [j \in Jobs |-> "none"]
  /\ cancels = {}
  /\ pruning = {}
  /\ answered = [j \in Jobs |-> "no"]
  /\ removed = {}
  /\ notified = {}
  /\ lost = {}

Goto(j, from, to) ==
  /\ alive
  /\ pc[j] = from
  /\ pc' = [pc EXCEPT ![j] = to]

-----------------------------------------------------------------------------
(* HTTP handlers.                                                          *)

\* Submit: persist the record as queued, then start the goroutine.  When the
\* write fails the caller gets the error and nothing has changed.
Submit(j) ==
  /\ dbOpen
  /\ Goto(j, "new", "acquire")
  /\ job' = [job EXCEPT ![j] = Queued]
  /\ store' = [store EXCEPT ![j] = Queued]
  /\ UNCHANGED <<server, dbOpen, sem, running, logs, ctx, process, cancels,
                 pruning, history>>

\* Cancel, first half: look the job up under the mutex.  A job that is not
\* in the map is answered with false, which changes nothing.
CancelLookup(j) ==
  /\ alive
  /\ j \in running \ cancels
  /\ cancels' = cancels \cup {j}
  /\ UNCHANGED <<server, db, routine, ctx, process, pruning, history>>

\* Cancel, second half, outside the mutex: cancel the context (a no-op when it
\* is already done) and answer true.  The history tells a call that reached a
\* live context before the outcome was decided from one that came too late.
CancelFire(j) ==
  /\ alive
  /\ j \in cancels
  /\ cancels' = cancels \ {j}
  /\ ctx' = [ctx EXCEPT ![j] = IF @ = "live" THEN "canceled" ELSE @]
  /\ answered' = [answered EXCEPT ![j] =
       IF @ = "inTime" \/ (ctx[j] = "live" /\ ~job[j].ended)
       THEN "inTime" ELSE "late"]
  /\ UNCHANGED <<server, db, routine, process, pruning, removed, notified, lost>>

-----------------------------------------------------------------------------
(* The goroutine of a job: execute.                                        *)

\* Take a worker slot, derive the context with its timeout, make the log.
Acquire(j) ==
  /\ Cardinality(sem) < Slots
  /\ Goto(j, "acquire", "register")
  /\ sem' = sem \cup {j}
  /\ ctx' = [ctx EXCEPT ![j] = "live"]
  /\ logs' = [logs EXCEPT ![j] = "open"]
  /\ UNCHANGED <<server, db, job, running, process, cancels, pruning, history>>

Register(j) ==
  /\ Goto(j, "register", "saveRunning")
  /\ running' = running \cup {j}
  /\ UNCHANGED <<server, db, job, sem, logs, ctx, process, cancels, pruning,
                 history>>

-----------------------------------------------------------------------------
(* The goroutine of a job: runCommand.                                     *)

\* jobStore.save, whose error runCommand ignores.  A write fails on a closed
\* database, and on an open one when the disk says so.
Save(j, r) ==
  \/ /\ dbOpen
     /\ store' = [store EXCEPT ![j] = r]
     /\ lost' = lost
  \/ /\ ~dbOpen \/ DiskErrors
     /\ store' = store
     /\ lost' = IF r.ended THEN lost \cup {j} ELSE lost

SaveRunning(j) ==
  /\ Goto(j, "saveRunning", "start")
  /\ job' = [job EXCEPT ![j] = Running]
  /\ Save(j, Running)
  /\ UNCHANGED <<server, dbOpen, sem, running, logs, ctx, process, cancels,
                 pruning, answered, removed, notified>>

\* Mutant: the context is not looked at before the command is started.
CheckNothing(j) ==
  /\ Goto(j, "start", "spawn")
  /\ UNCHANGED <<server, db, job, sem, running, logs, ctx, process, cancels, pruning,
                 history>>

\* exec.Cmd.Start looks at the context once, before it starts anything.  When the
\* context is done, or the binary is not there, Run returns an error.
Check(j) ==
  /\ \/ /\ ctx[j] = "live"
        /\ Goto(j, "start", "spawn")
        /\ UNCHANGED exit
     \/ /\ Goto(j, "start", "classify")
        /\ exit' = [exit EXCEPT ![j] = "error"]
  /\ UNCHANGED <<server, db, job, sem, running, logs, ctx, procs, cancels, pruning,
                 history>>

\* It then starts acme.sh, which may fail, whatever has become of the context; if
\* that is done by now, its watcher kills the process right away.
Start(j) ==
  /\ \/ /\ Goto(j, "spawn", "wait")
        /\ procs' = [procs EXCEPT ![j] = {"shell"}]
        /\ UNCHANGED exit
     \/ /\ Goto(j, "spawn", "classify")
        /\ exit' = [exit EXCEPT ![j] = "error"]
        /\ UNCHANGED procs
  /\ UNCHANGED <<server, db, job, sem, running, logs, ctx, cancels, pruning,
                 history>>

\* Mutant: the pipes are not waited for.
ReturnWhenScriptExits(j) ==
  /\ "shell" \notin procs[j]
  /\ Goto(j, "wait", "classify")
  /\ UNCHANGED <<server, db, job, sem, running, logs, ctx, process, cancels,
                 pruning, history>>

\* exec.Cmd.Wait returns once nobody holds the output pipes: the descendants
\* of the shell inherit them and no WaitDelay is set.
Return(j) ==
  /\ procs[j] = {}
  /\ Goto(j, "wait", "classify")
  /\ UNCHANGED <<server, db, job, sem, running, logs, ctx, process, cancels,
                 pruning, history>>

\* Mutant: the exit status comes before the state of the context.
ExitStatusFirst(j) ==
  CASE exit[j] = "ok" -> "success"
    [] exit[j] # "ok" /\ ctx[j] = "canceled" -> "cancelled"
    [] OTHER -> "failed"

\* The outcome: the state of the context comes before the exit status.
Outcome(j) ==
  CASE ctx[j] = "canceled" -> "cancelled"
    [] ctx[j] = "deadline" -> "failed"
    [] exit[j] # "ok" /\ ctx[j] = "live" -> "failed"
    [] OTHER -> "success"

\* Mutant: the purge does not depend on the outcome.
ClassifyAlwaysPurges(j) ==
  /\ Goto(j, "classify", IF j \in PurgeJobs THEN "purge" ELSE "saveFinal")
  /\ job' = [job EXCEPT ![j] = [status |-> Outcome(j), ended |-> TRUE]]
  /\ UNCHANGED <<server, db, sem, running, logs, ctx, process, cancels,
                 pruning, history>>

\* Mutant: the log is closed as soon as the command has ended.
ClassifyClosesLog(j) ==
  /\ Goto(j, "classify", "saveFinal")
  /\ job' = [job EXCEPT ![j] = [status |-> Outcome(j), ended |-> TRUE]]
  /\ logs' = [logs EXCEPT ![j] = "closed"]
  /\ UNCHANGED <<server, db, sem, running, ctx, process, cancels, pruning,
                 history>>

\* Mutant: OnDone is called before the final record is written.
ClassifyNotifies(j) ==
  /\ Goto(j, "classify", "saveFinal")
  /\ job' = [job EXCEPT ![j] = [status |-> Outcome(j), ended |-> TRUE]]
  /\ notified' = notified \cup {j}
  /\ UNCHANGED <<server, db, sem, running, logs, ctx, process, cancels, pruning,
                 answered, removed, lost>>

\* ctx.Err() and the exit status are read once: a context never changes again.
Classify(j) ==
  /\ Goto(j, "classify",
          IF Outcome(j) = "success" /\ j \in PurgeJobs THEN "purge" ELSE "saveFinal")
  /\ job' = [job EXCEPT ![j] = [status |-> Outcome(j), ended |-> TRUE]]
  /\ UNCHANGED <<server, db, sem, running, logs, ctx, process, cancels,
                 pruning, history>>

\* Removing the directory may fail, which only adds a line to the log.
Purge(j) ==
  /\ Goto(j, "purge", "saveFinal")
  /\ \/ removed' = removed \cup {j}
     \/ removed' = removed
  /\ UNCHANGED <<server, db, job, sem, running, logs, ctx, process, cancels,
                 pruning, answered, notified, lost>>

SaveFinal(j) ==
  /\ Goto(j, "saveFinal", "onDone")
  /\ Save(j, job[j])
  /\ UNCHANGED <<server, dbOpen, job, sem, running, logs, ctx, process, cancels,
                 pruning, answered, removed, notified>>

OnDone(j) ==
  /\ Goto(j, "onDone", "closeLog")
  /\ notified' = notified \cup {j}
  /\ UNCHANGED <<server, db, job, sem, running, logs, ctx, process, cancels,
                 pruning, answered, removed, lost>>

-----------------------------------------------------------------------------
(* The deferred calls of execute, last in first out.                       *)

CloseLog(j) ==
  /\ Goto(j, "closeLog", "unregister")
  /\ logs' = [logs EXCEPT ![j] = "closed"]
  /\ UNCHANGED <<server, db, job, sem, running, ctx, process, cancels, pruning,
                 history>>

Unregister(j) ==
  /\ Goto(j, "unregister", "release")
  /\ running' = running \ {j}
  /\ UNCHANGED <<server, db, job, sem, logs, ctx, process, cancels, pruning,
                 history>>

\* Mutant: the slot is never given back.
ReleaseKeepsSlot(j) ==
  /\ Goto(j, "release", "done")
  /\ ctx' = [ctx EXCEPT ![j] = IF @ = "live" THEN "canceled" ELSE @]
  /\ UNCHANGED <<server, db, job, sem, running, logs, process, cancels, pruning,
                 history>>

\* cancel() of the context, which nobody reads any more, and the slot.
Release(j) ==
  /\ Goto(j, "release", "done")
  /\ ctx' = [ctx EXCEPT ![j] = IF @ = "live" THEN "canceled" ELSE @]
  /\ sem' = sem \ {j}
  /\ UNCHANGED <<server, db, job, running, logs, process, cancels, pruning,
                 history>>

-----------------------------------------------------------------------------
(* The timer of the context and the processes of an invocation.            *)

Deadline(j) ==
  /\ alive
  /\ ctx[j] = "live"
  /\ ctx' = [ctx EXCEPT ![j] = "deadline"]
  /\ UNCHANGED <<server, db, routine, process, cancels, pruning, history>>

\* Mutant: only the timeout kills.
KillOnDeadlineOnly(j) ==
  /\ alive
  /\ pc[j] = "wait"
  /\ ctx[j] = "deadline"
  /\ "shell" \in procs[j]
  /\ procs' = [procs EXCEPT ![j] = @ \ {"shell"}]
  /\ exit' = [exit EXCEPT ![j] = "killed"]
  /\ UNCHANGED <<server, db, routine, ctx, cancels, pruning, history>>

\* exec.CommandContext kills the process it started, and that one only.
Kill(j) ==
  /\ alive
  /\ pc[j] = "wait"
  /\ ctx[j] \in {"canceled", "deadline"}
  /\ "shell" \in procs[j]
  /\ procs' = [procs EXCEPT ![j] = @ \ {"shell"}]
  /\ exit' = [exit EXCEPT ![j] = "killed"]
  /\ UNCHANGED <<server, db, routine, ctx, cancels, pruning, history>>

\* acme.sh is a shell script: it runs curl, openssl, hooks and reload commands.
Fork(j) ==
  /\ "shell" \in procs[j]
  /\ "child" \notin procs[j]
  /\ procs' = [procs EXCEPT ![j] = @ \cup {"child"}]
  /\ UNCHANGED <<server, db, routine, ctx, exit, cancels, pruning, history>>

\* The server that waits for the script collects its exit status.
ShellExit(j) ==
  /\ "shell" \in procs[j]
  /\ procs' = [procs EXCEPT ![j] = @ \ {"shell"}]
  /\ \/ pc[j] = "wait" /\ \E e \in {"ok", "nonzero"} : exit' = [exit EXCEPT ![j] = e]
     \/ pc[j] # "wait" /\ UNCHANGED exit
  /\ UNCHANGED <<server, db, routine, ctx, cancels, pruning, history>>

ChildExit(j) ==
  /\ "child" \in procs[j]
  /\ procs' = [procs EXCEPT ![j] = @ \ {"child"}]
  /\ UNCHANGED <<server, db, routine, ctx, exit, cancels, pruning, history>>

-----------------------------------------------------------------------------
(* The pruner: one read transaction collects, then one delete per key.     *)

\* Mutant: a record without an end time counts as old.
PruneCollectAnything ==
  /\ alive
  /\ dbOpen
  /\ pruning = {}
  /\ pruning' \in (SUBSET {j \in Jobs : store[j] # Absent}) \ {{}}
  /\ UNCHANGED <<server, db, routine, ctx, process, cancels, history>>

\* Any set of ended records may be the ones older than the retention.
PruneCollect ==
  /\ alive
  /\ dbOpen
  /\ pruning = {}
  /\ pruning' \in (SUBSET {j \in Jobs : Ended(store[j])}) \ {{}}
  /\ UNCHANGED <<server, db, routine, ctx, process, cancels, history>>

PruneDelete(j) ==
  /\ alive
  /\ j \in pruning
  /\ pruning' = pruning \ {j}
  /\ store' = IF dbOpen THEN [store EXCEPT ![j] = Absent] ELSE store
  /\ UNCHANGED <<server, dbOpen, routine, ctx, process, cancels, history>>

-----------------------------------------------------------------------------
(* The server process.                                                     *)

\* Shutdown closes the database and does not wait for the job goroutines.
CloseStore ==
  /\ alive
  /\ deaths < MaxDeaths
  /\ dbOpen
  /\ dbOpen' = FALSE
  /\ UNCHANGED <<server, store, routine, ctx, process, cancels, pruning, history>>

\* The process ends: after a shutdown, killed, or replaced by a new image.
\* Everything in memory is gone.  The acme.sh processes live on.
Die ==
  /\ alive
  /\ deaths < MaxDeaths
  /\ alive' = FALSE
  /\ deaths' = deaths + 1
  /\ dbOpen' = FALSE
  /\ pc' = [j \in Jobs |-> IF pc[j] \in {"new", "done"} THEN pc[j] ELSE "dead"]
  /\ job' = [j \in Jobs |-> Queued]
  /\ sem' = {}
  /\ running' = {}
  /\ cancels' = {}
  /\ pruning' = {}
  /\ ctx' = [j \in Jobs |-> "none"]
  /\ logs' = [j \in Jobs |-> "none"]
  /\ exit' = [j \in Jobs |-> "none"]
  /\ UNCHANGED <<store, procs, history>>

\* server.New opens the database and builds a Manager with empty state.  It
\* does not look at the jobs that are in the database.
Restart ==
  /\ ~alive
  /\ alive' = TRUE
  /\ dbOpen' = TRUE
  /\ UNCHANGED <<deaths, store, routine, ctx, process, cancels, pruning, history>>

\* Every request of this bounded world has been served or died with its server.
\* Requests can no longer be accepted once the database is closed.
Idle ==
  /\ \A j \in Jobs : pc[j] \in {"done", "dead"} \/ (pc[j] = "new" /\ ~dbOpen)
  /\ UNCHANGED vars

-----------------------------------------------------------------------------

Handler(j)   == Submit(j) \/ CancelLookup(j) \/ CancelFire(j)
Goroutine(j) ==
  \/ Acquire(j) \/ Register(j) \/ SaveRunning(j) \/ Check(j) \/ Start(j)
  \/ Return(j) \/ Classify(j) \/ Purge(j) \/ SaveFinal(j) \/ OnDone(j)
  \/ CloseLog(j) \/ Unregister(j) \/ Release(j)
Processes(j) == Kill(j) \/ Fork(j) \/ ShellExit(j) \/ ChildExit(j)
Server       == CloseStore \/ Die \/ Restart

Next ==
  \/ \E j \in Jobs : Handler(j) \/ Goroutine(j) \/ Deadline(j) \/ Processes(j)
                     \/ PruneDelete(j)
  \/ PruneCollect
  \/ Server
  \/ Idle

Spec == Init /\ [][Next]_vars

\* The Go scheduler runs every goroutine that can run, senders on the slot
\* channel included; the timer fires; the watcher of exec.Cmd kills.  Nothing
\* obliges anybody to submit, cancel or stop the server, and the script itself
\* may hang for ever.
Scheduling ==
  \A j \in Jobs : /\ WF_vars(Goroutine(j))
                  /\ WF_vars(Deadline(j))
                  /\ WF_vars(Kill(j))

\* The programs the script runs come to an end by themselves ...
FairSpec == Spec /\ Scheduling /\ \A j \in Jobs : WF_vars(ChildExit(j))

\* ... or one of them may not.
HangingChildSpec == Spec /\ Scheduling

-----------------------------------------------------------------------------
(* Invariants.                                                             *)

TypeOK ==
  /\ alive \in BOOLEAN
  /\ dbOpen \in BOOLEAN
  /\ deaths \in 0..MaxDeaths
  /\ store \in [Jobs -> Record \cup {Absent}]
  /\ pc \in [Jobs -> PC]
  /\ job \in [Jobs -> Record]
  /\ sem \subseteq Jobs
  /\ running \subseteq Jobs
  /\ ctx \in [Jobs -> {"none", "live", "canceled", "deadline"}]
  /\ logs \in [Jobs -> {"none", "open", "closed"}]
  /\ procs \in [Jobs -> SUBSET {"shell", "child"}]
  /\ exit \in [Jobs -> {"none", "error", "ok", "nonzero", "killed"}]
  /\ cancels \subseteq Jobs
  /\ pruning \subseteq Jobs
  /\ answered \in [Jobs -> {"no", "inTime", "late"}]
  /\ removed \subseteq Jobs
  /\ notified \subseteq Jobs
  /\ lost \subseteq Jobs

\* max_parallel bounds the acme.sh invocations, not just the goroutines: of the
\* jobs of this server process, no more than Slots have a live process, be it
\* the script or something it started (queue.go:94, client.go:107).
Invocations == {j \in Jobs : procs[j] # {} /\ pc[j] # "dead"}

BoundedParallelism == Cardinality(Invocations) <= Slots

\* The final record is in the database, unless the pruner has taken it since or
\* its write failed.
Persisted(j) == Ended(store[j]) \/ store[j] = Absent \/ j \in lost

\* When a live log ends, and when a job that was registered is found to be
\* running no longer, the database has its final record: the job page reloads
\* on "end", and JobLogs falls back to the stored log (queue.go:106-110 runs
\* after runner.go:66).
Streaming(j) == j \in running /\ logs[j] = "open"

LogEndMeansFinal ==
  \A j \in Jobs : logs[j] # "none" /\ pc[j] # "register" /\ ~Streaming(j)
                  => Persisted(j)

\* A job is recorded as cancelled exactly when a Cancel call reached its context
\* before the outcome was decided and before the timeout did: neither the kill's
\* exit status, nor the deferred cancel() of execute, nor the timeout can blur
\* the two (runner.go:30-48, queue.go:99).
CancelledIffInTime ==
  \A j \in Jobs : Ended(store[j])
                  => (store[j].status = "cancelled" <=> answered[j] = "inTime")

\* A certificate directory is gone only if acme.sh exited with status zero and
\* was not cancelled or timed out, whatever the record says later: no failed or
\* cancelled job has purged anything (runner.go:58).
PurgedMeansSuccess ==
  \A j \in removed : /\ pc[j] \in Holding => exit[j] = "ok"
                     /\ Ended(store[j]) => store[j].status = "success"
                     /\ answered[j] # "inTime"

\* Once Cancel has answered true for a job that has no process, it will have none,
\* however early the call came, unless exec.Cmd has looked at the context already
\* and is about to start it: in that window only a command that was cancelled
\* still begins (queue.go:99-105, client.go:91-107).
CancelPreventsStart ==
  [][\A j \in Jobs : answered[j] # "no" /\ pc[j] # "spawn" /\ procs[j] = {}
                       => pc'[j] # "spawn" /\ procs'[j] = {}]_vars

\* OnDone runs when the final record, purge included, has been written, unless
\* that write failed: runCommand ignores the error (runner.go:66-72).
OnDoneAfterSave == \A j \in notified : Persisted(j)

-----------------------------------------------------------------------------
(* What holds at every step and carries the invariants above (the inductive *)
(* invariant of JobManager_proofs).                                         *)

BeforeOutcome == {"register", "saveRunning", "start", "spawn", "wait", "classify"}
AfterSave     == {"onDone", "closeLog", "unregister", "release", "done"}
AfterOutcome  == {"purge", "saveFinal"} \cup AfterSave

\* Who holds a slot, is in the map, has a live log or a live process follows
\* from where the goroutine is.
ControlInv ==
  \A j \in Jobs :
    /\ j \in sem <=> pc[j] \in Holding
    /\ j \in running <=> pc[j] \in Executing \cup {"unregister"}
    /\ procs[j] # {} => pc[j] \in {"wait", "dead"}
    /\ pc[j] \in Executing \cup {"register"} => logs[j] = "open"
    /\ logs[j] # "none" => pc[j] \in Holding \cup {"done"}
    /\ j \in cancels => pc[j] \in Executing \cup {"unregister", "release", "done"}
SlotInv == Cardinality(sem) <= Slots

\* The final record: not in the database before saveFinal, there afterwards.
RecordInv ==
  \A j \in Jobs :
    /\ pc[j] \in {"new", "acquire"} \cup BeforeOutcome => ~job[j].ended
    /\ pc[j] \in AfterOutcome \ {"done"} => job[j].ended
    /\ pc[j] = "done" /\ j \in cancels => job[j].ended
    /\ Ended(store[j]) => pc[j] \in AfterSave \cup {"dead"}
    /\ pc[j] \in AfterSave => Persisted(j)
    /\ j \in notified => pc[j] \in AfterSave \cup {"dead"} /\ Persisted(j)

\* The context, the answer to Cancel and the outcome agree.
CancelInv ==
  \A j \in Jobs :
    /\ pc[j] \in {"new", "acquire"} => answered[j] = "no"
    /\ pc[j] \in BeforeOutcome => /\ ctx[j] # "none"
                                  /\ answered[j] = "inTime" <=> ctx[j] = "canceled"
                                  /\ answered[j] # "no" => ctx[j] # "live"
    /\ pc[j] \in AfterOutcome \ {"done"} =>
         (job[j].status = "cancelled" <=> answered[j] = "inTime")

PurgeInv ==
  \A j \in Jobs :
    /\ pc[j] = "purge" => job[j].status = "success" /\ exit[j] = "ok"
    /\ j \in removed => pc[j] \in {"saveFinal", "dead"} \cup AfterSave
    /\ j \in removed /\ pc[j] = "saveFinal" => job[j].status = "success"

IInv == /\ TypeOK /\ ControlInv /\ SlotInv /\ RecordInv /\ CancelInv /\ PurgeInv
        /\ CancelledIffInTime /\ PurgedMeansSuccess

-----------------------------------------------------------------------------
(* The queue implements the lifecycle it promises.                         *)

statusBar == [j \in Jobs |-> IF store[j] # Absent THEN store[j].status
                             ELSE IF pc[j] = "new" THEN "none" ELSE "pruned"]
phaseBar  == [j \in Jobs |->
               CASE pc[j] = "new" -> "none"
                 [] pc[j] \in {"acquire", "register", "saveRunning", "start", "spawn"} -> "waiting"
                 [] pc[j] = "wait" -> "working"
                 [] OTHER -> "over"]
askedBar  == {j \in Jobs : answered[j] = "inTime"}

Lifecycle == INSTANCE JobLifecycle
             WITH status <- statusBar, phase <- phaseBar, asked <- askedBar

\* Every behaviour of the queue, crashes, restarts, lost writes and pruning
\* included, is one JobLifecycle allows: no record is ever resurrected, changed
\* after it is final or dropped before, no command runs twice, and no more
\* than Slots are being waited for.
ImplementsLifecycle == Lifecycle!Spec

-----------------------------------------------------------------------------
(* Liveness.                                                               *)

\* A submitted job is served to the end unless the server process dies, even
\* if every script hangs until its timeout: no slot leaks, and no goroutine
\* waits for ever (queue.go:94-114).
SubmittedEnds == \A j \in Jobs : pc[j] = "acquire" ~> pc[j] \in {"done", "dead"}

\* After a cancellation was answered with true, the invocation ends, unless the
\* server dies before it has killed it (client.go:91).
CancelStopsInvocation ==
  \A j \in Jobs : answered[j] # "no" ~> procs[j] = {} \/ pc[j] = "dead"

-----------------------------------------------------------------------------
(* What the documentation says and the code does not do.                   *)

\* config.go:55: TimeoutSeconds bounds a single acme.sh invocation.  Run waits
\* for whoever holds the output pipes, and only the script is killed
\* (client.go:91-107).
TimeoutBoundsInvocation ==
  \A j \in Jobs : ctx[j] = "deadline" ~> pc[j] # "wait"
=============================================================================
