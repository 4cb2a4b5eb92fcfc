------------------------ MODULE JobLifecycle_proofs ------------------------
(***************************************************************************)
(* JobManager implements JobLifecycle, for every set of jobs, every        *)
(* configured parallelism and any number of server deaths.                 *)
(*                                                                         *)
(* A step of the queue concerns one job and is one of the lifecycle or     *)
(* none at all; the death of the server abandons every job.  What the      *)
(* steps of the lifecycle need beyond IInv is where the stored record of a *)
(* job stands: absent before it is submitted, not final as long as its     *)
(* outcome has not been written, and final for what is being pruned.       *)
(***************************************************************************)
EXTENDS JobManager_proofs

WellFormed(r) == r.ended <=> r.status \in Final

StoreInv ==
  \A j \in Jobs :
    /\ WellFormed(store[j]) /\ WellFormed(job[j])
    /\ pc[j] = "new" => store[j] = Absent
    /\ pc[j] \in {"acquire", "register", "saveRunning"} => store[j] = Queued
    /\ pc[j] \in {"start", "spawn", "wait", "classify", "purge", "saveFinal"} =>
         store[j] \in {Queued, Running}
    /\ j \in pruning => Ended(store[j])

LInv == IInv /\ StoreInv

-----------------------------------------------------------------------------
LEMMA RecordsAreWellFormed ==
  /\ WellFormed(Absent) /\ WellFormed(Queued) /\ WellFormed(Running)
  /\ \A s \in Final : WellFormed([status |-> s, ended |-> TRUE])
  /\ Absent # Queued /\ Absent # Running
  /\ ~Ended(Queued) /\ ~Ended(Running) /\ ~Ended(Absent)
  /\ Queued.status = "queued" /\ Running.status = "running"
BY DEF WellFormed, Final, Absent, Queued, Running, Ended

LEMMA InitStoreInv == Init => StoreInv
BY RecordsAreWellFormed DEF Init, StoreInv

\* The stored record of a job follows its goroutine.
LEMMA StoreStep == IInv /\ StoreInv /\ [Next]_vars => StoreInv'
<1>. SUFFICES ASSUME IInv, StoreInv, [Next]_vars PROVE StoreInv'
  OBVIOUS
<1>. USE RecordsAreWellFormed
     DEF IInv, TypeOK, StoreInv, Goto, server, db, routine, process, history
<1>1. ASSUME NEW j \in Jobs, Submit(j) PROVE StoreInv'
  BY <1>1 DEF Submit
<1>2. ASSUME NEW j \in Jobs, CancelLookup(j) \/ CancelFire(j) PROVE StoreInv'
  BY <1>2 DEF CancelLookup, CancelFire
<1>3. ASSUME NEW j \in Jobs, Acquire(j) \/ Register(j) PROVE StoreInv'
  BY <1>3 DEF Acquire, Register
<1>4. ASSUME NEW j \in Jobs, SaveRunning(j) PROVE StoreInv'
  BY <1>4 DEF SaveRunning, Save
<1>5. ASSUME NEW j \in Jobs, Check(j) \/ Start(j) \/ Return(j) PROVE StoreInv'
  BY <1>5 DEF Check, Start, Return
<1>6. ASSUME NEW j \in Jobs, Classify(j) PROVE StoreInv'
  BY <1>6, OutcomeType DEF Classify
<1>7. ASSUME NEW j \in Jobs, Purge(j) PROVE StoreInv'
  BY <1>7 DEF Purge
<1>8. ASSUME NEW j \in Jobs, SaveFinal(j) PROVE StoreInv'
  <2>1. job[j].ended /\ WellFormed(job[j]) /\ j \notin pruning
    BY <1>8 DEF SaveFinal, RecordInv, AfterOutcome
  <2>. QED
    BY <1>8, <2>1 DEF SaveFinal, Save, Ended
<1>9. ASSUME NEW j \in Jobs, OnDone(j) \/ CloseLog(j) \/ Unregister(j) \/ Release(j)
      PROVE  StoreInv'
  BY <1>9 DEF OnDone, CloseLog, Unregister, Release
<1>10. ASSUME NEW j \in Jobs, Deadline(j) \/ Processes(j) PROVE StoreInv'
  BY <1>10 DEF Deadline, Processes, Kill, Fork, ShellExit, ChildExit
<1>11. ASSUME NEW j \in Jobs, PruneDelete(j) PROVE StoreInv'
  BY <1>11 DEF PruneDelete
<1>12. CASE PruneCollect
  BY <1>12 DEF PruneCollect
<1>13. CASE CloseStore \/ Restart
  BY <1>13 DEF CloseStore, Restart
<1>14. CASE Die
  BY <1>14 DEF Die
<1>15. CASE Idle \/ UNCHANGED vars
  BY <1>15 DEF Idle, vars
<1>. QED
  BY <1>1, <1>2, <1>3, <1>4, <1>5, <1>6, <1>7, <1>8, <1>9, <1>10, <1>11, <1>12,
     <1>13, <1>14, <1>15 DEF Next, Handler, Goroutine, Server

THEOREM LifecycleInvariance == Spec => []LInv
<1>1. Spec => []StoreInv
  BY InitStoreInv, StoreStep, Invariance, PTL DEF Spec
<1>. QED
  BY <1>1, Invariance, PTL DEF LInv

-----------------------------------------------------------------------------
(* The refinement mapping, one job at a time.                               *)

StatusOf(r, p) == IF r # Absent THEN r.status
                  ELSE IF p = "new" THEN "none" ELSE "pruned"

Waiting == {"acquire", "register", "saveRunning", "start", "spawn"}
Over    == PC \ (Waiting \cup {"new", "wait"})

PhaseOf(p) == CASE p = "new" -> "none"
                [] p \in Waiting -> "waiting"
                [] p = "wait" -> "working"
                [] OTHER -> "over"

LEMMA PhaseReading ==
  /\ PhaseOf("new") = "none"
  /\ \A p \in Waiting : PhaseOf(p) = "waiting"
  /\ PhaseOf("wait") = "working"
  /\ \A p \in Over : PhaseOf(p) = "over"
BY DEF PhaseOf, Waiting, Over

LEMMA Points ==
  /\ "new" \notin Waiting \cup Over /\ "wait" \notin Waiting \cup Over
  /\ Waiting \cap Over = {}
  /\ PC = Waiting \cup Over \cup {"new", "wait"}
BY DEF PC, Waiting, Over, Holding, Executing

LEMMA Bars ==
  /\ statusBar = [j \in Jobs |-> StatusOf(store[j], pc[j])]
  /\ phaseBar = [j \in Jobs |-> PhaseOf(pc[j])]
  /\ statusBar' = [j \in Jobs |-> StatusOf(store'[j], pc'[j])]
  /\ phaseBar' = [j \in Jobs |-> PhaseOf(pc'[j])]
BY DEF statusBar, phaseBar, StatusOf, PhaseOf, Waiting

\* A step of one job changes the status and the phase of that job only.
LEMMA OneJob ==
  ASSUME NEW j \in Jobs, \A k \in Jobs \ {j} : UNCHANGED <<store[k], pc[k]>>
  PROVE  /\ statusBar' = [statusBar EXCEPT ![j] = StatusOf(store'[j], pc'[j])]
         /\ phaseBar' = [phaseBar EXCEPT ![j] = PhaseOf(pc'[j])]
         /\ statusBar[j] = StatusOf(store[j], pc[j])
         /\ phaseBar[j] = PhaseOf(pc[j])
BY Bars

\* A step that moves no job from a phase to another and writes no record is none of
\* the lifecycle.
LEMMA Stutter ==
  ASSUME UNCHANGED <<store, answered>>,
         \A k \in Jobs : /\ PhaseOf(pc'[k]) = PhaseOf(pc[k])
                         /\ pc'[k] = "new" <=> pc[k] = "new"
  PROVE  UNCHANGED Lifecycle!vars
<1>1. statusBar' = statusBar
  BY Bars DEF StatusOf
<1>2. phaseBar' = phaseBar
  BY Bars
<1>3. askedBar' = askedBar
  BY DEF askedBar
<1>. QED
  BY <1>1, <1>2, <1>3 DEF Lifecycle!vars

LEMMA InitRefines == Init => Lifecycle!Init
<1>. SUFFICES ASSUME Init PROVE Lifecycle!Init
  OBVIOUS
<1>1. statusBar = [j \in Jobs |-> "none"]
  BY DEF Init, statusBar
<1>2. phaseBar = [j \in Jobs |-> "none"]
  BY DEF Init, phaseBar
<1>3. askedBar = {}
  BY DEF Init, askedBar
<1>. QED
  BY <1>1, <1>2, <1>3 DEF Lifecycle!Init

-----------------------------------------------------------------------------
(* The steps.                                                               *)

LEMMA SubmitRefines ==
  ASSUME LInv, LInv', NEW j \in Jobs, Submit(j)
  PROVE  Lifecycle!Accept(j)
<1>1. /\ pc[j] = "new" /\ pc'[j] = "acquire" /\ store'[j] = Queued
      /\ \A k \in Jobs \ {j} : UNCHANGED <<store[k], pc[k]>>
      /\ answered' = answered
  BY DEF Submit, Goto, LInv, IInv, TypeOK, history
<1>2. StatusOf(Queued, "acquire") = "queued"
  BY RecordsAreWellFormed DEF StatusOf
<1>3. PhaseOf("acquire") = "waiting"
  BY PhaseReading DEF Waiting
<1>4. /\ statusBar' = [statusBar EXCEPT ![j] = "queued"]
      /\ phaseBar' = [phaseBar EXCEPT ![j] = "waiting"]
      /\ phaseBar[j] = "none"
  BY <1>1, <1>2, <1>3, OneJob, PhaseReading
<1>5. askedBar' = askedBar
  BY <1>1 DEF askedBar
<1>. QED
  BY <1>4, <1>5 DEF Lifecycle!Accept

LEMMA CancelRefines ==
  ASSUME LInv, LInv', NEW j \in Jobs, CancelFire(j)
  PROVE  Lifecycle!Ask(j) \/ UNCHANGED Lifecycle!vars
<1>1. /\ UNCHANGED <<store, pc>>
      /\ \A k \in Jobs \ {j} : answered'[k] = answered[k]
      /\ pc[j] \in Executing \cup {"unregister", "release", "done"}
  BY DEF CancelFire, LInv, IInv, TypeOK, ControlInv, db, routine
<1>2. statusBar' = statusBar /\ phaseBar' = phaseBar
  BY <1>1, Bars
<1>3. CASE answered'[j] = "inTime" /\ answered[j] # "inTime"
  <2>1. ~job[j].ended
    BY <1>3 DEF CancelFire, LInv, IInv, TypeOK
  <2>2. pc[j] \in {"saveRunning", "start", "spawn", "wait", "classify"}
    BY <1>1, <2>1 DEF CancelFire, LInv, IInv, RecordInv, Executing, AfterOutcome, AfterSave
  <2>3. store[j] \in {Queued, Running}
    BY <2>2 DEF LInv, StoreInv
  <2>4. statusBar[j] \in {"queued", "running"}
    BY <2>3, Bars, RecordsAreWellFormed DEF StatusOf
  <2>5. phaseBar[j] # "none"
    BY <2>2, Bars, PhaseReading DEF Waiting, Over, PC, Holding, Executing
  <2>6. askedBar' = askedBar \cup {j}
    BY <1>1, <1>3 DEF askedBar
  <2>. QED
    BY <1>2, <2>4, <2>5, <2>6 DEF Lifecycle!Ask
<1>4. CASE ~(answered'[j] = "inTime" /\ answered[j] # "inTime")
  <2>1. answered'[j] = "inTime" <=> answered[j] = "inTime"
    BY <1>4 DEF CancelFire, LInv, IInv, TypeOK
  <2>2. askedBar' = askedBar
    BY <1>1, <2>1 DEF askedBar
  <2>. QED
    BY <1>2, <2>2 DEF Lifecycle!vars
<1>. QED
  BY <1>3, <1>4

LEMMA SaveRunningRefines ==
  ASSUME LInv, LInv', NEW j \in Jobs, SaveRunning(j)
  PROVE  Lifecycle!Announce(j) \/ UNCHANGED Lifecycle!vars
<1>1. /\ pc[j] = "saveRunning" /\ pc'[j] = "start" /\ store[j] = Queued
      /\ \A k \in Jobs \ {j} : pc'[k] = pc[k]
      /\ answered' = answered
      /\ store' = store \/ store' = [store EXCEPT ![j] = Running]
  BY DEF SaveRunning, Save, Goto, LInv, IInv, TypeOK, StoreInv
<1>2. PhaseOf("saveRunning") = "waiting" /\ PhaseOf("start") = "waiting"
  BY PhaseReading DEF Waiting
<1>3. CASE store' = store
  BY <1>1, <1>2, <1>3, Stutter
<1>4. CASE store' = [store EXCEPT ![j] = Running]
  <2>1. /\ store'[j] = Running
        /\ \A k \in Jobs \ {j} : UNCHANGED <<store[k], pc[k]>>
    BY <1>1, <1>4 DEF LInv, IInv, TypeOK
  <2>2. /\ statusBar[j] = "queued" /\ statusBar' = [statusBar EXCEPT ![j] = "running"]
        /\ phaseBar[j] = "waiting" /\ phaseBar' = [phaseBar EXCEPT ![j] = "waiting"]
    BY <1>1, <1>2, <2>1, OneJob, RecordsAreWellFormed DEF StatusOf
  <2>3. phaseBar' = phaseBar
    BY <2>2, Bars
  <2>4. askedBar' = askedBar
    BY <1>1 DEF askedBar
  <2>. QED
    BY <2>2, <2>3, <2>4 DEF Lifecycle!Announce
<1>. QED
  BY <1>1, <1>3, <1>4

\* JobLifecycle counts like this module does.
LEMMA SameCardinality == \A S : Lifecycle!Cardinality(S) = Cardinality(S)
BY DEF Cardinality, Lifecycle!Cardinality

\* What is being waited for has a slot, and so has the job that starts: there was
\* room for it.
LEMMA RoomToBegin ==
  ASSUME LInv, NEW j \in Jobs, pc[j] = "spawn"
  PROVE  Cardinality(Lifecycle!Working) < Slots
<1>1. IsFiniteSet(sem) /\ Cardinality(sem) \in Nat
  BY JobsAssumption, FS_Subset, FS_CardinalityType DEF LInv, IInv, TypeOK
<1>2. Lifecycle!Working \subseteq sem \ {j}
  <2>. SUFFICES ASSUME NEW k \in Lifecycle!Working PROVE k \in sem \ {j}
    OBVIOUS
  <2>1. k \in Jobs /\ PhaseOf(pc[k]) = "working" /\ pc[k] \in PC
    BY Bars DEF Lifecycle!Working, LInv, IInv, TypeOK
  <2>2. pc[k] = "wait"
    BY <2>1, PhaseReading, Points
  <2>. QED
    BY <2>1, <2>2 DEF LInv, IInv, ControlInv, Holding, Executing
<1>3. j \in sem
  BY DEF LInv, IInv, ControlInv, Holding, Executing
<1>4. IsFiniteSet(sem \ {j}) /\ Cardinality(sem \ {j}) = Cardinality(sem) - 1
  BY <1>1, <1>3, FS_RemoveElement
<1>5. Cardinality(Lifecycle!Working) <= Cardinality(sem \ {j})
      /\ Cardinality(Lifecycle!Working) \in Nat
  BY <1>2, <1>4, FS_Subset, FS_CardinalityType
<1>. QED
  BY <1>1, <1>4, <1>5, SlotsType DEF LInv, IInv, SlotInv

LEMMA RunRefines ==
  ASSUME LInv, LInv', NEW j \in Jobs, Check(j) \/ Start(j) \/ Return(j)
  PROVE  Lifecycle!Begin(j) \/ Lifecycle!Stop(j) \/ UNCHANGED Lifecycle!vars
<1>1. /\ UNCHANGED <<store, answered>>
      /\ \A k \in Jobs \ {j} : UNCHANGED <<store[k], pc[k]>>
      /\ \/ pc[j] = "start" /\ pc'[j] = "spawn"
         \/ pc[j] = "spawn" /\ pc'[j] = "wait"
         \/ pc[j] \in {"start", "spawn", "wait"} /\ pc'[j] = "classify"
  BY DEF Check, Start, Return, Goto, LInv, IInv, TypeOK, db, history
<1>2. /\ PhaseOf("start") = "waiting" /\ PhaseOf("spawn") = "waiting"
      /\ PhaseOf("wait") = "working" /\ PhaseOf("classify") = "over"
  BY PhaseReading DEF Waiting, Over, PC, Holding, Executing
<1>3. statusBar' = statusBar
  BY <1>1, Bars DEF StatusOf
<1>4. askedBar' = askedBar
  BY <1>1 DEF askedBar
<1>5. CASE pc[j] = "start" /\ pc'[j] = "spawn"
  <2>1. phaseBar' = [phaseBar EXCEPT ![j] = "waiting"] /\ phaseBar[j] = "waiting"
    BY <1>1, <1>2, <1>5, OneJob
  <2>2. phaseBar' = phaseBar
    BY <2>1, Bars
  <2> QED
    BY <1>3, <1>4, <2>2 DEF Lifecycle!vars
<1>6. CASE pc[j] = "spawn" /\ pc'[j] = "wait"
  <2>1. phaseBar[j] = "waiting" /\ phaseBar' = [phaseBar EXCEPT ![j] = "working"]
    BY <1>1, <1>2, <1>6, OneJob
  <2>2. Cardinality(Lifecycle!Working) < Slots
    BY <1>6, RoomToBegin
  <2>. QED
    BY <1>3, <1>4, <2>1, <2>2, SameCardinality DEF Lifecycle!Begin
<1>7. CASE pc[j] \in {"start", "spawn", "wait"} /\ pc'[j] = "classify"
  <2>1. /\ phaseBar[j] \in {"waiting", "working"}
        /\ phaseBar' = [phaseBar EXCEPT ![j] = "over"]
    BY <1>1, <1>2, <1>7, OneJob
  <2>. QED
    BY <1>3, <1>4, <2>1 DEF Lifecycle!Stop
<1>. QED
  BY <1>1, <1>5, <1>6, <1>7

\* The final record says "cancelled" exactly for those who asked in time.
LEMMA SaveFinalRefines ==
  ASSUME LInv, LInv', NEW j \in Jobs, SaveFinal(j)
  PROVE  Lifecycle!Conclude(j) \/ UNCHANGED Lifecycle!vars
<1>1. /\ pc[j] = "saveFinal" /\ pc'[j] = "onDone" /\ store[j] \in {Queued, Running}
      /\ \A k \in Jobs \ {j} : pc'[k] = pc[k]
      /\ answered' = answered
      /\ store' = store \/ store' = [store EXCEPT ![j] = job[j]]
  BY DEF SaveFinal, Save, Goto, LInv, IInv, TypeOK, StoreInv
<1>2. PhaseOf("saveFinal") = "over" /\ PhaseOf("onDone") = "over"
  BY PhaseReading DEF Waiting, Over, PC, Holding, Executing
<1>3. CASE store' = store
  BY <1>1, <1>2, <1>3, Stutter
<1>4. CASE store' = [store EXCEPT ![j] = job[j]]
  <2>1. /\ store'[j] = job[j]
        /\ \A k \in Jobs \ {j} : UNCHANGED <<store[k], pc[k]>>
    BY <1>1, <1>4 DEF LInv, IInv, TypeOK
  <2>2. /\ job[j].ended /\ job[j].status \in Final
        /\ job[j].status = "cancelled" <=> answered[j] = "inTime"
    BY <1>1 DEF LInv, IInv, RecordInv, CancelInv, AfterOutcome, StoreInv, WellFormed
  <2>3. StatusOf(job[j], "onDone") = job[j].status
    BY <2>2 DEF StatusOf, Absent, Final
  <2>4. /\ statusBar[j] \in {"queued", "running"}
        /\ statusBar' = [statusBar EXCEPT ![j] = job[j].status]
        /\ phaseBar[j] = "over" /\ phaseBar' = [phaseBar EXCEPT ![j] = "over"]
    BY <1>1, <1>2, <2>1, <2>3, OneJob, RecordsAreWellFormed DEF StatusOf
  <2>5. phaseBar' = phaseBar
    BY <2>4, Bars
  <2>6. askedBar' = askedBar
    BY <1>1 DEF askedBar
  <2>7. job[j].status = "cancelled" <=> j \in askedBar
    BY <2>2 DEF askedBar
  <2>8. job[j].status \in Lifecycle!Final
    BY <2>2 DEF Final, Lifecycle!Final
  <2>. QED
    BY <2>4, <2>5, <2>6, <2>7, <2>8 DEF Lifecycle!Conclude
<1>. QED
  BY <1>1, <1>3, <1>4

LEMMA PruneRefines ==
  ASSUME LInv, LInv', NEW j \in Jobs, PruneDelete(j)
  PROVE  Lifecycle!Forget(j) \/ UNCHANGED Lifecycle!vars
<1>1. /\ UNCHANGED <<pc, answered>> /\ Ended(store[j])
      /\ store' = store \/ store' = [store EXCEPT ![j] = Absent]
  BY DEF PruneDelete, LInv, StoreInv, routine, history
<1>2. CASE store' = store
  BY <1>1, <1>2, Stutter
<1>3. CASE store' = [store EXCEPT ![j] = Absent]
  <2>1. /\ store'[j] = Absent
        /\ \A k \in Jobs \ {j} : UNCHANGED <<store[k], pc[k]>>
    BY <1>1, <1>3 DEF LInv, IInv, TypeOK
  <2>2. pc[j] # "new" /\ store[j] # Absent /\ store[j].status \in Final
    BY <1>1, RecordsAreWellFormed DEF LInv, StoreInv, WellFormed, Ended
  <2>3. /\ statusBar[j] \in Final /\ statusBar' = [statusBar EXCEPT ![j] = "pruned"]
    BY <1>1, <2>1, <2>2, OneJob DEF StatusOf
  <2>4. phaseBar' = phaseBar /\ askedBar' = askedBar
    BY <1>1, Bars DEF askedBar
  <2>. QED
    BY <2>3, <2>4 DEF Lifecycle!Forget, Lifecycle!Final, Final
<1>. QED
  BY <1>1, <1>2, <1>3

\* The death of the server ends everything it was waiting for.
LEMMA DieRefines ==
  ASSUME LInv, LInv', Die
  PROVE  Lifecycle!Abandon
<1>1. /\ UNCHANGED <<store, answered>>
      /\ \A k \in Jobs : /\ pc[k] \in {"new", "done"} => pc'[k] = pc[k]
                         /\ pc[k] \notin {"new", "done"} => pc'[k] = "dead"
  BY DEF Die, history
<1>2. statusBar' = statusBar
  BY <1>1, Bars DEF StatusOf
<1>3. askedBar' = askedBar
  BY <1>1 DEF askedBar
<1>4. PhaseOf("dead") = "over" /\ PhaseOf("done") = "over"
  BY PhaseReading DEF Waiting, Over, PC, Holding, Executing
<1>5. ASSUME NEW k \in Jobs
      PROVE  PhaseOf(pc'[k]) = IF PhaseOf(pc[k]) = "none" THEN "none" ELSE "over"
  <2>1. pc[k] \in PC
    BY DEF LInv, IInv, TypeOK
  <2>2. CASE pc[k] = "new"
    BY <1>1, <2>2, PhaseReading
  <2>3. CASE pc[k] # "new"
    <3>1. PhaseOf(pc[k]) # "none"
      BY <2>1, <2>3, PhaseReading, Points
    <3>2. pc'[k] \in {"done", "dead"}
      BY <1>1, <2>3
    <3>. QED
      BY <1>4, <3>1, <3>2
  <2>. QED
    BY <2>2, <2>3
<1>6. phaseBar' = [k \in Jobs |-> IF phaseBar[k] = "none" THEN "none" ELSE "over"]
  BY <1>5, Bars
<1>. QED
  BY <1>2, <1>3, <1>6 DEF Lifecycle!Abandon

\* The steps in between are none of the lifecycle.
LEMMA InternalStutters ==
  ASSUME LInv, LInv', NEW j \in Jobs,
         \/ CancelLookup(j) \/ Acquire(j) \/ Register(j) \/ Classify(j) \/ Purge(j)
         \/ OnDone(j) \/ CloseLog(j) \/ Unregister(j) \/ Release(j)
         \/ Deadline(j) \/ Processes(j)
  PROVE  UNCHANGED Lifecycle!vars
<1>1. UNCHANGED <<store, answered>>
  BY DEF CancelLookup, Acquire, Register, Classify, Purge, OnDone, CloseLog, Unregister,
         Release, Deadline, Processes, Kill, Fork, ShellExit, ChildExit, db, history
<1>2. \A k \in Jobs : \/ pc'[k] = pc[k]
                      \/ pc[k] \in Waiting /\ pc'[k] \in Waiting
                      \/ pc[k] \in Over /\ pc'[k] \in Over
  BY DEF LInv, IInv, TypeOK, Goto, Waiting, Over, PC, Holding, Executing,
         CancelLookup, Acquire, Register, Classify, Purge, OnDone, CloseLog, Unregister,
         Release, Deadline, Processes, Kill, Fork, ShellExit, ChildExit, routine
<1>3. \A k \in Jobs : /\ PhaseOf(pc'[k]) = PhaseOf(pc[k])
                      /\ pc'[k] = "new" <=> pc[k] = "new"
  BY <1>2, PhaseReading, Points
<1>. QED
  BY <1>1, <1>3, Stutter

LEMMA NextRefines ==
  LInv /\ LInv' /\ [Next]_vars => [Lifecycle!Next]_Lifecycle!vars
<1>. SUFFICES ASSUME LInv, LInv', [Next]_vars
              PROVE  Lifecycle!Next \/ UNCHANGED Lifecycle!vars
  OBVIOUS
<1>1. ASSUME NEW j \in Jobs, Submit(j) PROVE Lifecycle!Next
  BY <1>1, SubmitRefines DEF Lifecycle!Next
<1>2. ASSUME NEW j \in Jobs, CancelFire(j) PROVE Lifecycle!Next \/ UNCHANGED Lifecycle!vars
  BY <1>2, CancelRefines DEF Lifecycle!Next
<1>3. ASSUME NEW j \in Jobs, SaveRunning(j) PROVE Lifecycle!Next \/ UNCHANGED Lifecycle!vars
  BY <1>3, SaveRunningRefines DEF Lifecycle!Next
<1>4. ASSUME NEW j \in Jobs, Check(j) \/ Start(j) \/ Return(j)
      PROVE  Lifecycle!Next \/ UNCHANGED Lifecycle!vars
  BY <1>4, RunRefines DEF Lifecycle!Next
<1>5. ASSUME NEW j \in Jobs, SaveFinal(j) PROVE Lifecycle!Next \/ UNCHANGED Lifecycle!vars
  BY <1>5, SaveFinalRefines DEF Lifecycle!Next
<1>6. ASSUME NEW j \in Jobs, PruneDelete(j) PROVE Lifecycle!Next \/ UNCHANGED Lifecycle!vars
  BY <1>6, PruneRefines DEF Lifecycle!Next
<1>7. CASE Die
  BY <1>7, DieRefines DEF Lifecycle!Next
<1>8. ASSUME NEW j \in Jobs,
             \/ CancelLookup(j) \/ Acquire(j) \/ Register(j) \/ Classify(j) \/ Purge(j)
             \/ OnDone(j) \/ CloseLog(j) \/ Unregister(j) \/ Release(j)
             \/ Deadline(j) \/ Processes(j)
      PROVE  UNCHANGED Lifecycle!vars
  BY <1>8, InternalStutters
<1>9. CASE PruneCollect \/ CloseStore \/ Restart \/ Idle \/ UNCHANGED vars
  <2>1. UNCHANGED <<store, pc, answered>>
    BY <1>9 DEF PruneCollect, CloseStore, Restart, Idle, vars, db, routine, history
  <2>. QED
    BY <2>1, Stutter
<1>. QED
  BY <1>1, <1>2, <1>3, <1>4, <1>5, <1>6, <1>7, <1>8, <1>9
     DEF Next, Handler, Goroutine, Server

\* The queue implements the lifecycle: every behaviour of goroutines, handlers, timers,
\* the pruner and dying servers is one in which records only move forward, a command
\* runs at most once and in a slot, and the final status is true.
THEOREM Implements == Spec => ImplementsLifecycle
<1>1. LInv /\ LInv' /\ [Next]_vars => [Lifecycle!Next]_Lifecycle!vars
  BY NextRefines
<1>. QED
  BY <1>1, InitRefines, LifecycleInvariance, PTL
     DEF Spec, ImplementsLifecycle, Lifecycle!Spec

-----------------------------------------------------------------------------
\* How a record that is read twice may have changed.
Forward(old, new) ==
  \/ old = "none" /\ new = "queued"
  \/ old = "queued" /\ new = "running"
  \/ old \in {"queued", "running"} /\ new \in Final
  \/ old \in Final /\ new = "pruned"

LEMMA LifecycleForward ==
  ASSUME Lifecycle!Next, NEW j \in Jobs, statusBar'[j] # statusBar[j], LInv
  PROVE  Forward(statusBar[j], statusBar'[j])
<1> DEFINE s == statusBar
           p == phaseBar
<1>1. s = [k \in Jobs |-> s[k]]
  BY DEF statusBar
<1>2. \A k \in Jobs : p[k] = "none" <=> pc[k] = "new"
  BY DEF phaseBar
<1>3. \A k \in Jobs : pc[k] = "new" => s[k] = "none"
  BY DEF LInv, StoreInv, statusBar, Absent
<1> HIDE DEF s, p
<1>4. ASSUME NEW k \in Jobs, NEW x, s' = [s EXCEPT ![k] = x]
      PROVE  k = j /\ s'[j] = x
  BY <1>1, <1>4 DEF s
<1>5. ASSUME NEW k \in Jobs, Lifecycle!Accept(k) PROVE Forward(s[j], s'[j])
  <2>1. p[k] = "none" /\ s' = [s EXCEPT ![k] = "queued"]
    BY <1>5 DEF Lifecycle!Accept, s, p
  <2> QED
    BY <2>1, <1>2, <1>3, <1>4 DEF Forward
<1>6. ASSUME NEW k \in Jobs, Lifecycle!Announce(k) PROVE Forward(s[j], s'[j])
  <2>1. s[k] = "queued" /\ s' = [s EXCEPT ![k] = "running"]
    BY <1>6 DEF Lifecycle!Announce, s
  <2>2. k = j /\ s'[j] = "running"
    BY <2>1, <1>4
  <2> QED
    BY <2>1, <2>2, Zenon DEF Forward
<1>7. ASSUME NEW k \in Jobs, Lifecycle!Conclude(k) PROVE Forward(s[j], s'[j])
  <2>1. s[k] \in {"queued", "running"}
    BY <1>7 DEF Lifecycle!Conclude, s
  <2>2. PICK x \in Final : s' = [s EXCEPT ![k] = x]
    BY <1>7 DEF Lifecycle!Conclude, Lifecycle!Final, Final, s
  <2> QED
    BY <2>1, <2>2, <1>4 DEF Forward
<1>8. ASSUME NEW k \in Jobs, Lifecycle!Forget(k) PROVE Forward(s[j], s'[j])
  <2>1. s[k] \in Final /\ s' = [s EXCEPT ![k] = "pruned"]
    BY <1>8 DEF Lifecycle!Forget, Lifecycle!Final, Final, s
  <2> QED
    BY <2>1, <1>4 DEF Forward
<1>9. ASSUME NEW k \in Jobs, Lifecycle!Begin(k) \/ Lifecycle!Ask(k) \/ Lifecycle!Stop(k)
      PROVE  FALSE
  BY <1>9 DEF Lifecycle!Begin, Lifecycle!Ask, Lifecycle!Stop
<1>10. ASSUME Lifecycle!Abandon PROVE FALSE
  BY <1>10 DEF Lifecycle!Abandon
<1> QED
  BY <1>5, <1>6, <1>7, <1>8, <1>9, <1>10 DEF Lifecycle!Next, s

\* What the lifecycle means to a client that asks for a job again and again: the record
\* goes from queued to running to one final status, which stays until it is pruned; it
\* may skip running, whose write may fail, and never goes back, across crashes and
\* restarts too (runner.go:17-25, 66; store.go:96-127).
THEOREM RecordsForward ==
  Spec => [][\A j \in Jobs : statusBar'[j] # statusBar[j] =>
               Forward(statusBar[j], statusBar'[j])]_vars
<1>1. ASSUME LInv, LInv', [Next]_vars
      PROVE  \A j \in Jobs : statusBar'[j] # statusBar[j] =>
               Forward(statusBar[j], statusBar'[j])
  <2>1. Lifecycle!Next \/ statusBar' = statusBar
    BY <1>1, NextRefines DEF Lifecycle!vars
  <2> QED
    BY <1>1, <2>1, LifecycleForward
<1> QED
  BY <1>1, LifecycleInvariance, PTL DEF Spec
=============================================================================
