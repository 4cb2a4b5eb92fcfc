-------------------------- MODULE JobManager_proofs --------------------------
(* Proofs about JobManager, for every set of jobs, every configured         *)
(* parallelism and any number of server deaths.                             *)
EXTENDS JobManager, FiniteSetTheorems, TLAPS

\* The slot channel has at least one place.
LEMMA SlotsType == Slots \in Nat \ {0}
BY ParallelAssumption DEF Slots

\* The records the code builds are records.
LEMMA RecordTypes ==
  /\ Queued \in Record
  /\ Running \in Record
  /\ \A s \in Final : [status |-> s, ended |-> TRUE] \in Record
BY DEF Record, Status, Final, Queued, Running

\* The switch of runCommand ends in a final status.
LEMMA OutcomeType == \A j : Outcome(j) \in Final
BY DEF Outcome, Final

\* With a context that exists, only a cancelled one makes a job cancelled, and
\* only a live one with exit status zero makes it successful.
LEMMA OutcomeReading ==
  ASSUME TypeOK, NEW j \in Jobs, ctx[j] # "none"
  PROVE  /\ Outcome(j) = "cancelled" <=> ctx[j] = "canceled"
         /\ Outcome(j) = "success" => exit[j] = "ok"
<1>1. CASE ctx[j] = "canceled"
  BY <1>1 DEF Outcome
<1>2. CASE ctx[j] = "deadline"
  BY <1>2 DEF Outcome
<1>3. CASE ctx[j] = "live"
  BY <1>3 DEF Outcome
<1>. QED
  BY <1>1, <1>2, <1>3 DEF TypeOK

\* Every variable keeps its type, whatever fails.
THEOREM TypeCorrect == Spec => []TypeOK
<1>. USE DEF PC, Holding, Executing
<1>1. Init => TypeOK
  BY FaultAssumption, RecordTypes DEF Init, TypeOK
<1>2. TypeOK /\ [Next]_vars => TypeOK'
  <2>. SUFFICES ASSUME TypeOK, [Next]_vars PROVE TypeOK'
    OBVIOUS
  <2>. USE DEF TypeOK, Goto, server, db, routine, process, history
  <2>1. ASSUME NEW j \in Jobs, Submit(j) PROVE TypeOK'
    BY <2>1, RecordTypes DEF Submit
  <2>2. ASSUME NEW j \in Jobs, CancelLookup(j) PROVE TypeOK'
    BY <2>2 DEF CancelLookup
  <2>3. ASSUME NEW j \in Jobs, CancelFire(j) PROVE TypeOK'
    BY <2>3 DEF CancelFire
  <2>4. ASSUME NEW j \in Jobs, Acquire(j) PROVE TypeOK'
    BY <2>4 DEF Acquire
  <2>5. ASSUME NEW j \in Jobs, Register(j) PROVE TypeOK'
    BY <2>5 DEF Register
  <2>6. ASSUME NEW j \in Jobs, SaveRunning(j) PROVE TypeOK'
    BY <2>6, RecordTypes DEF SaveRunning, Save
  <2>7. ASSUME NEW j \in Jobs, Check(j) \/ Start(j) PROVE TypeOK'
    BY <2>7 DEF Check, Start
  <2>8. ASSUME NEW j \in Jobs, Return(j) PROVE TypeOK'
    BY <2>8 DEF Return
  <2>9. ASSUME NEW j \in Jobs, Classify(j) PROVE TypeOK'
    BY <2>9, OutcomeType, RecordTypes DEF Classify
  <2>10. ASSUME NEW j \in Jobs, Purge(j) PROVE TypeOK'
    BY <2>10 DEF Purge
  <2>11. ASSUME NEW j \in Jobs, SaveFinal(j) PROVE TypeOK'
    BY <2>11 DEF SaveFinal, Save
  <2>12. ASSUME NEW j \in Jobs, OnDone(j) PROVE TypeOK'
    BY <2>12 DEF OnDone
  <2>13. ASSUME NEW j \in Jobs, CloseLog(j) \/ Unregister(j) \/ Release(j)
         PROVE TypeOK'
    BY <2>13 DEF CloseLog, Unregister, Release
  <2>14. ASSUME NEW j \in Jobs, Deadline(j) PROVE TypeOK'
    BY <2>14 DEF Deadline
  <2>15. ASSUME NEW j \in Jobs, Kill(j) \/ Fork(j) PROVE TypeOK'
    BY <2>15 DEF Kill, Fork
  <2>16. ASSUME NEW j \in Jobs, ShellExit(j) \/ ChildExit(j) PROVE TypeOK'
    BY <2>16 DEF ShellExit, ChildExit
  <2>17. ASSUME NEW j \in Jobs, PruneDelete(j) PROVE TypeOK'
    BY <2>17 DEF PruneDelete
  <2>18. CASE PruneCollect
    BY <2>18 DEF PruneCollect
  <2>19. CASE CloseStore \/ Restart
    BY <2>19 DEF CloseStore, Restart
  <2>20. CASE Die
    <3>1. deaths' \in 0..MaxDeaths
      BY <2>20, FaultAssumption DEF Die
    <3>2. pc' \in [Jobs -> PC] /\ job' \in [Jobs -> Record]
      BY <2>20, RecordTypes DEF Die
    <3>. QED
      BY <2>20, <3>1, <3>2 DEF Die
  <2>21. CASE Idle \/ UNCHANGED vars
    BY <2>21 DEF Idle, vars
  <2>. QED
    BY <2>1, <2>2, <2>3, <2>4, <2>5, <2>6, <2>7, <2>8, <2>9, <2>10, <2>11, <2>12,
       <2>13, <2>14, <2>15, <2>16, <2>17, <2>18, <2>19, <2>20, <2>21
    DEF Next, Handler, Goroutine, Processes, Server
<1>. QED
  BY <1>1, <1>2, PTL DEF Spec
-----------------------------------------------------------------------------
\* Slots, the map, logs and processes keep following the program counters.
LEMMA ControlStep == TypeOK /\ ControlInv /\ [Next]_vars => ControlInv'
<1>. SUFFICES ASSUME TypeOK, ControlInv, [Next]_vars PROVE ControlInv'
  OBVIOUS
<1>. USE DEF TypeOK, ControlInv, Holding, Executing, Goto, server, db, routine, process, history
<1>1. ASSUME NEW j \in Jobs, Submit(j) PROVE ControlInv'
  BY <1>1 DEF Submit
<1>2. ASSUME NEW j \in Jobs, CancelLookup(j) PROVE ControlInv'
  BY <1>2 DEF CancelLookup
<1>3. ASSUME NEW j \in Jobs, CancelFire(j) PROVE ControlInv'
  BY <1>3 DEF CancelFire
<1>4. ASSUME NEW j \in Jobs, Acquire(j) PROVE ControlInv'
  BY <1>4 DEF Acquire
<1>5. ASSUME NEW j \in Jobs, Register(j) PROVE ControlInv'
  BY <1>5 DEF Register
<1>6. ASSUME NEW j \in Jobs, SaveRunning(j) PROVE ControlInv'
  BY <1>6 DEF SaveRunning, Save, Running, Queued
<1>7. ASSUME NEW j \in Jobs, Check(j) \/ Start(j) PROVE ControlInv'
  BY <1>7 DEF Check, Start
<1>8. ASSUME NEW j \in Jobs, Return(j) PROVE ControlInv'
  BY <1>8 DEF Return
<1>9. ASSUME NEW j \in Jobs, Classify(j) PROVE ControlInv'
  BY <1>9 DEF Classify
<1>10. ASSUME NEW j \in Jobs, Purge(j) PROVE ControlInv'
  BY <1>10 DEF Purge
<1>11. ASSUME NEW j \in Jobs, SaveFinal(j) PROVE ControlInv'
  BY <1>11 DEF SaveFinal, Save
<1>12. ASSUME NEW j \in Jobs, OnDone(j) PROVE ControlInv'
  BY <1>12 DEF OnDone
<1>13. ASSUME NEW j \in Jobs, CloseLog(j) \/ Unregister(j) \/ Release(j) PROVE ControlInv'
  BY <1>13 DEF CloseLog, Unregister, Release
<1>14. ASSUME NEW j \in Jobs, Deadline(j) PROVE ControlInv'
  BY <1>14 DEF Deadline
<1>15. ASSUME NEW j \in Jobs, Kill(j) \/ Fork(j) PROVE ControlInv'
  BY <1>15 DEF Kill, Fork
<1>16. ASSUME NEW j \in Jobs, ShellExit(j) \/ ChildExit(j) PROVE ControlInv'
  BY <1>16 DEF ShellExit, ChildExit
<1>17. ASSUME NEW j \in Jobs, PruneDelete(j) PROVE ControlInv'
  BY <1>17 DEF PruneDelete
<1>18. CASE PruneCollect
  BY <1>18 DEF PruneCollect
<1>19. CASE CloseStore \/ Restart
  BY <1>19 DEF CloseStore, Restart
<1>20. CASE Die
  BY <1>20 DEF Die
<1>21. CASE Idle \/ UNCHANGED vars
  BY <1>21 DEF Idle, vars
<1>. QED
  BY <1>1, <1>2, <1>3, <1>4, <1>5, <1>6, <1>7, <1>8, <1>9, <1>10,
     <1>11, <1>12, <1>13, <1>14, <1>15, <1>16, <1>17, <1>18, <1>19, <1>20, <1>21
  DEF Next, Handler, Goroutine, Processes, Server

\* The final record is written once, by saveFinal.
LEMMA RecordStep == TypeOK /\ ControlInv /\ RecordInv /\ [Next]_vars => RecordInv'
<1>. SUFFICES ASSUME TypeOK, ControlInv, RecordInv, [Next]_vars PROVE RecordInv'
  OBVIOUS
<1>. USE DEF TypeOK, ControlInv, RecordInv, Executing, BeforeOutcome, AfterSave,
             AfterOutcome, Persisted, Ended, Goto, server, db, routine, process, history
<1>1. ASSUME NEW j \in Jobs, Submit(j) PROVE RecordInv'
  BY <1>1, ZenonT(60) DEF Submit, Queued, Absent
<1>2. ASSUME NEW j \in Jobs, CancelLookup(j) PROVE RecordInv'
  BY <1>2 DEF CancelLookup
<1>3. ASSUME NEW j \in Jobs, CancelFire(j) PROVE RecordInv'
  BY <1>3 DEF CancelFire
<1>4. ASSUME NEW j \in Jobs, Acquire(j) PROVE RecordInv'
  BY <1>4 DEF Acquire
<1>5. ASSUME NEW j \in Jobs, Register(j) PROVE RecordInv'
  BY <1>5 DEF Register
<1>6. ASSUME NEW j \in Jobs, SaveRunning(j) PROVE RecordInv'
  BY <1>6 DEF SaveRunning, Save, Running, Queued
<1>7. ASSUME NEW j \in Jobs, Check(j) \/ Start(j) PROVE RecordInv'
  BY <1>7 DEF Check, Start
<1>8. ASSUME NEW j \in Jobs, Return(j) PROVE RecordInv'
  BY <1>8 DEF Return
<1>9. ASSUME NEW j \in Jobs, Classify(j) PROVE RecordInv'
  BY <1>9 DEF Classify
<1>10. ASSUME NEW j \in Jobs, Purge(j) PROVE RecordInv'
  BY <1>10 DEF Purge
<1>11. ASSUME NEW j \in Jobs, SaveFinal(j) PROVE RecordInv'
  BY <1>11 DEF SaveFinal, Save
<1>12. ASSUME NEW j \in Jobs, OnDone(j) PROVE RecordInv'
  BY <1>12 DEF OnDone
<1>13. ASSUME NEW j \in Jobs, CloseLog(j) \/ Unregister(j) \/ Release(j) PROVE RecordInv'
  BY <1>13 DEF CloseLog, Unregister, Release
<1>14. ASSUME NEW j \in Jobs, Deadline(j) PROVE RecordInv'
  BY <1>14 DEF Deadline
<1>15. ASSUME NEW j \in Jobs, Kill(j) \/ Fork(j) PROVE RecordInv'
  BY <1>15 DEF Kill, Fork
<1>16. ASSUME NEW j \in Jobs, ShellExit(j) \/ ChildExit(j) PROVE RecordInv'
  BY <1>16 DEF ShellExit, ChildExit
<1>17. ASSUME NEW j \in Jobs, PruneDelete(j) PROVE RecordInv'
  BY <1>17, ZenonT(60) DEF PruneDelete, Absent
<1>18. CASE PruneCollect
  BY <1>18 DEF PruneCollect
<1>19. CASE CloseStore \/ Restart
  BY <1>19 DEF CloseStore, Restart
<1>20. CASE Die
  BY <1>20 DEF Die, Queued
<1>21. CASE Idle \/ UNCHANGED vars
  BY <1>21 DEF Idle, vars
<1>. QED
  BY <1>1, <1>2, <1>3, <1>4, <1>5, <1>6, <1>7, <1>8, <1>9, <1>10,
     <1>11, <1>12, <1>13, <1>14, <1>15, <1>16, <1>17, <1>18, <1>19, <1>20, <1>21
  DEF Next, Handler, Goroutine, Processes, Server

\* The context of a job remembers a cancellation until the outcome is decided.
LEMMA CancelStep == TypeOK /\ ControlInv /\ RecordInv /\ CancelInv /\ [Next]_vars => CancelInv'
<1>. SUFFICES ASSUME TypeOK, ControlInv, RecordInv, CancelInv, [Next]_vars PROVE CancelInv'
  OBVIOUS
<1>. USE DEF TypeOK, ControlInv, RecordInv, CancelInv, Executing, BeforeOutcome,
             AfterSave, AfterOutcome, Goto, server, db, routine, process, history
<1>1. ASSUME NEW j \in Jobs, Submit(j) PROVE CancelInv'
  BY <1>1 DEF Submit
<1>2. ASSUME NEW j \in Jobs, CancelLookup(j) PROVE CancelInv'
  BY <1>2 DEF CancelLookup
<1>3. ASSUME NEW j \in Jobs, CancelFire(j) PROVE CancelInv'
  BY <1>3 DEF CancelFire
<1>4. ASSUME NEW j \in Jobs, Acquire(j) PROVE CancelInv'
  BY <1>4 DEF Acquire
<1>5. ASSUME NEW j \in Jobs, Register(j) PROVE CancelInv'
  BY <1>5 DEF Register
<1>6. ASSUME NEW j \in Jobs, SaveRunning(j) PROVE CancelInv'
  BY <1>6 DEF SaveRunning, Save, Running, Queued
<1>7. ASSUME NEW j \in Jobs, Check(j) \/ Start(j) PROVE CancelInv'
  BY <1>7 DEF Check, Start
<1>8. ASSUME NEW j \in Jobs, Return(j) PROVE CancelInv'
  BY <1>8 DEF Return
<1>9. ASSUME NEW j \in Jobs, Classify(j) PROVE CancelInv'
  <2>1. pc[j] = "classify"
    BY <1>9 DEF Classify
  <2>2. ctx[j] # "none"
    BY <2>1
  <2>3. /\ Outcome(j) = "cancelled" <=> ctx[j] = "canceled"
        /\ Outcome(j) = "success" => exit[j] = "ok"
    BY <2>2, OutcomeReading
  <2>. QED
    BY <1>9, <2>1, <2>2, <2>3 DEF Classify
<1>10. ASSUME NEW j \in Jobs, Purge(j) PROVE CancelInv'
  BY <1>10 DEF Purge
<1>11. ASSUME NEW j \in Jobs, SaveFinal(j) PROVE CancelInv'
  BY <1>11 DEF SaveFinal, Save
<1>12. ASSUME NEW j \in Jobs, OnDone(j) PROVE CancelInv'
  BY <1>12 DEF OnDone
<1>13. ASSUME NEW j \in Jobs, CloseLog(j) \/ Unregister(j) \/ Release(j) PROVE CancelInv'
  BY <1>13 DEF CloseLog, Unregister, Release
<1>14. ASSUME NEW j \in Jobs, Deadline(j) PROVE CancelInv'
  BY <1>14 DEF Deadline
<1>15. ASSUME NEW j \in Jobs, Kill(j) \/ Fork(j) PROVE CancelInv'
  BY <1>15 DEF Kill, Fork
<1>16. ASSUME NEW j \in Jobs, ShellExit(j) \/ ChildExit(j) PROVE CancelInv'
  BY <1>16 DEF ShellExit, ChildExit
<1>17. ASSUME NEW j \in Jobs, PruneDelete(j) PROVE CancelInv'
  BY <1>17 DEF PruneDelete
<1>18. CASE PruneCollect
  BY <1>18 DEF PruneCollect
<1>19. CASE CloseStore \/ Restart
  BY <1>19 DEF CloseStore, Restart
<1>20. CASE Die
  BY <1>20 DEF Die
<1>21. CASE Idle \/ UNCHANGED vars
  BY <1>21 DEF Idle, vars
<1>. QED
  BY <1>1, <1>2, <1>3, <1>4, <1>5, <1>6, <1>7, <1>8, <1>9, <1>10,
     <1>11, <1>12, <1>13, <1>14, <1>15, <1>16, <1>17, <1>18, <1>19, <1>20, <1>21
  DEF Next, Handler, Goroutine, Processes, Server

\* A purge happens between a successful outcome and its record.
LEMMA PurgeStep == TypeOK /\ ControlInv /\ CancelInv /\ PurgeInv /\ [Next]_vars => PurgeInv'
<1>. SUFFICES ASSUME TypeOK, ControlInv, CancelInv, PurgeInv, [Next]_vars PROVE PurgeInv'
  OBVIOUS
<1>. USE DEF TypeOK, ControlInv, CancelInv, PurgeInv, Executing, BeforeOutcome,
             AfterSave, AfterOutcome, Goto, server, db, routine, process, history
<1>1. ASSUME NEW j \in Jobs, Submit(j) PROVE PurgeInv'
  BY <1>1 DEF Submit
<1>2. ASSUME NEW j \in Jobs, CancelLookup(j) PROVE PurgeInv'
  BY <1>2 DEF CancelLookup
<1>3. ASSUME NEW j \in Jobs, CancelFire(j) PROVE PurgeInv'
  BY <1>3 DEF CancelFire
<1>4. ASSUME NEW j \in Jobs, Acquire(j) PROVE PurgeInv'
  BY <1>4 DEF Acquire
<1>5. ASSUME NEW j \in Jobs, Register(j) PROVE PurgeInv'
  BY <1>5 DEF Register
<1>6. ASSUME NEW j \in Jobs, SaveRunning(j) PROVE PurgeInv'
  BY <1>6 DEF SaveRunning, Save, Running, Queued
<1>7. ASSUME NEW j \in Jobs, Check(j) \/ Start(j) PROVE PurgeInv'
  BY <1>7 DEF Check, Start
<1>8. ASSUME NEW j \in Jobs, Return(j) PROVE PurgeInv'
  BY <1>8 DEF Return
<1>9. ASSUME NEW j \in Jobs, Classify(j) PROVE PurgeInv'
  <2>1. pc[j] = "classify"
    BY <1>9 DEF Classify
  <2>2. ctx[j] # "none"
    BY <2>1
  <2>3. /\ Outcome(j) = "cancelled" <=> ctx[j] = "canceled"
        /\ Outcome(j) = "success" => exit[j] = "ok"
    BY <2>2, OutcomeReading
  <2>. QED
    BY <1>9, <2>1, <2>2, <2>3 DEF Classify
<1>10. ASSUME NEW j \in Jobs, Purge(j) PROVE PurgeInv'
  BY <1>10 DEF Purge
<1>11. ASSUME NEW j \in Jobs, SaveFinal(j) PROVE PurgeInv'
  BY <1>11 DEF SaveFinal, Save
<1>12. ASSUME NEW j \in Jobs, OnDone(j) PROVE PurgeInv'
  BY <1>12 DEF OnDone
<1>13. ASSUME NEW j \in Jobs, CloseLog(j) \/ Unregister(j) \/ Release(j) PROVE PurgeInv'
  BY <1>13 DEF CloseLog, Unregister, Release
<1>14. ASSUME NEW j \in Jobs, Deadline(j) PROVE PurgeInv'
  BY <1>14 DEF Deadline
<1>15. ASSUME NEW j \in Jobs, Kill(j) \/ Fork(j) PROVE PurgeInv'
  BY <1>15 DEF Kill, Fork
<1>16. ASSUME NEW j \in Jobs, ShellExit(j) \/ ChildExit(j) PROVE PurgeInv'
  BY <1>16 DEF ShellExit, ChildExit
<1>17. ASSUME NEW j \in Jobs, PruneDelete(j) PROVE PurgeInv'
  BY <1>17 DEF PruneDelete
<1>18. CASE PruneCollect
  BY <1>18 DEF PruneCollect
<1>19. CASE CloseStore \/ Restart
  BY <1>19 DEF CloseStore, Restart
<1>20. CASE Die
  BY <1>20 DEF Die
<1>21. CASE Idle \/ UNCHANGED vars
  BY <1>21 DEF Idle, vars
<1>. QED
  BY <1>1, <1>2, <1>3, <1>4, <1>5, <1>6, <1>7, <1>8, <1>9, <1>10,
     <1>11, <1>12, <1>13, <1>14, <1>15, <1>16, <1>17, <1>18, <1>19, <1>20, <1>21
  DEF Next, Handler, Goroutine, Processes, Server

\* CancelledIffInTime is inductive with the invariants so far.
LEMMA CancelledStep ==
  TypeOK /\ ControlInv /\ RecordInv /\ CancelInv /\ CancelledIffInTime /\ [Next]_vars
    => CancelledIffInTime'
<1>. SUFFICES ASSUME TypeOK, ControlInv, RecordInv, CancelInv, CancelledIffInTime,
                     [Next]_vars
             PROVE  CancelledIffInTime'
  OBVIOUS
<1>. USE DEF TypeOK, ControlInv, RecordInv, CancelInv, CancelledIffInTime, Executing,
             BeforeOutcome, AfterSave, AfterOutcome, Ended, Goto, server, db, routine,
             process, history
<1>1. ASSUME NEW j \in Jobs, Submit(j) PROVE CancelledIffInTime'
  BY <1>1 DEF Submit, Queued
<1>2. ASSUME NEW j \in Jobs, CancelLookup(j) PROVE CancelledIffInTime'
  BY <1>2 DEF CancelLookup
<1>3. ASSUME NEW j \in Jobs, CancelFire(j) PROVE CancelledIffInTime'
  BY <1>3 DEF CancelFire
<1>4. ASSUME NEW j \in Jobs, Acquire(j) PROVE CancelledIffInTime'
  BY <1>4 DEF Acquire
<1>5. ASSUME NEW j \in Jobs, Register(j) PROVE CancelledIffInTime'
  BY <1>5 DEF Register
<1>6. ASSUME NEW j \in Jobs, SaveRunning(j) PROVE CancelledIffInTime'
  BY <1>6 DEF SaveRunning, Save, Running, Queued
<1>7. ASSUME NEW j \in Jobs, Check(j) \/ Start(j) PROVE CancelledIffInTime'
  BY <1>7 DEF Check, Start
<1>8. ASSUME NEW j \in Jobs, Return(j) PROVE CancelledIffInTime'
  BY <1>8 DEF Return
<1>9. ASSUME NEW j \in Jobs, Classify(j) PROVE CancelledIffInTime'
  BY <1>9 DEF Classify
<1>10. ASSUME NEW j \in Jobs, Purge(j) PROVE CancelledIffInTime'
  BY <1>10 DEF Purge
<1>11. ASSUME NEW j \in Jobs, SaveFinal(j) PROVE CancelledIffInTime'
  BY <1>11 DEF SaveFinal, Save
<1>12. ASSUME NEW j \in Jobs, OnDone(j) PROVE CancelledIffInTime'
  BY <1>12 DEF OnDone
<1>13. ASSUME NEW j \in Jobs, CloseLog(j) \/ Unregister(j) \/ Release(j) PROVE CancelledIffInTime'
  BY <1>13 DEF CloseLog, Unregister, Release
<1>14. ASSUME NEW j \in Jobs, Deadline(j) PROVE CancelledIffInTime'
  BY <1>14 DEF Deadline
<1>15. ASSUME NEW j \in Jobs, Kill(j) \/ Fork(j) PROVE CancelledIffInTime'
  BY <1>15 DEF Kill, Fork
<1>16. ASSUME NEW j \in Jobs, ShellExit(j) \/ ChildExit(j) PROVE CancelledIffInTime'
  BY <1>16 DEF ShellExit, ChildExit
<1>17. ASSUME NEW j \in Jobs, PruneDelete(j) PROVE CancelledIffInTime'
  BY <1>17 DEF PruneDelete, Absent
<1>18. CASE PruneCollect
  BY <1>18 DEF PruneCollect
<1>19. CASE CloseStore \/ Restart
  BY <1>19 DEF CloseStore, Restart
<1>20. CASE Die
  BY <1>20 DEF Die
<1>21. CASE Idle \/ UNCHANGED vars
  BY <1>21 DEF Idle, vars
<1>. QED
  BY <1>1, <1>2, <1>3, <1>4, <1>5, <1>6, <1>7, <1>8, <1>9, <1>10,
     <1>11, <1>12, <1>13, <1>14, <1>15, <1>16, <1>17, <1>18, <1>19, <1>20, <1>21
  DEF Next, Handler, Goroutine, Processes, Server

\* So is PurgedMeansSuccess.
LEMMA PurgedStep ==
  TypeOK /\ ControlInv /\ RecordInv /\ CancelInv /\ PurgeInv /\ PurgedMeansSuccess /\ [Next]_vars
    => PurgedMeansSuccess'
<1>. SUFFICES ASSUME TypeOK, ControlInv, RecordInv, CancelInv, PurgeInv, PurgedMeansSuccess,
                     [Next]_vars
             PROVE  PurgedMeansSuccess'
  OBVIOUS
<1>. USE DEF TypeOK, ControlInv, RecordInv, CancelInv, PurgeInv, PurgedMeansSuccess,
             Holding, Executing, BeforeOutcome, AfterSave, AfterOutcome, Ended, Goto,
             server, db, routine, process, history
<1>1. ASSUME NEW j \in Jobs, Submit(j) PROVE PurgedMeansSuccess'
  BY <1>1 DEF Submit, Queued
<1>2. ASSUME NEW j \in Jobs, CancelLookup(j) PROVE PurgedMeansSuccess'
  BY <1>2 DEF CancelLookup
<1>3. ASSUME NEW j \in Jobs, CancelFire(j) PROVE PurgedMeansSuccess'
  BY <1>3 DEF CancelFire
<1>4. ASSUME NEW j \in Jobs, Acquire(j) PROVE PurgedMeansSuccess'
  BY <1>4 DEF Acquire
<1>5. ASSUME NEW j \in Jobs, Register(j) PROVE PurgedMeansSuccess'
  BY <1>5 DEF Register
<1>6. ASSUME NEW j \in Jobs, SaveRunning(j) PROVE PurgedMeansSuccess'
  BY <1>6 DEF SaveRunning, Save, Running, Queued
<1>7. ASSUME NEW j \in Jobs, Check(j) \/ Start(j) PROVE PurgedMeansSuccess'
  BY <1>7 DEF Check, Start
<1>8. ASSUME NEW j \in Jobs, Return(j) PROVE PurgedMeansSuccess'
  BY <1>8 DEF Return
<1>9. ASSUME NEW j \in Jobs, Classify(j) PROVE PurgedMeansSuccess'
  BY <1>9 DEF Classify
<1>10. ASSUME NEW j \in Jobs, Purge(j) PROVE PurgedMeansSuccess'
  BY <1>10 DEF Purge
<1>11. ASSUME NEW j \in Jobs, SaveFinal(j) PROVE PurgedMeansSuccess'
  BY <1>11 DEF SaveFinal, Save
<1>12. ASSUME NEW j \in Jobs, OnDone(j) PROVE PurgedMeansSuccess'
  BY <1>12 DEF OnDone
<1>13. ASSUME NEW j \in Jobs, CloseLog(j) \/ Unregister(j) \/ Release(j) PROVE PurgedMeansSuccess'
  BY <1>13 DEF CloseLog, Unregister, Release
<1>14. ASSUME NEW j \in Jobs, Deadline(j) PROVE PurgedMeansSuccess'
  BY <1>14 DEF Deadline
<1>15. ASSUME NEW j \in Jobs, Kill(j) \/ Fork(j) PROVE PurgedMeansSuccess'
  BY <1>15 DEF Kill, Fork
<1>16. ASSUME NEW j \in Jobs, ShellExit(j) \/ ChildExit(j) PROVE PurgedMeansSuccess'
  BY <1>16 DEF ShellExit, ChildExit
<1>17. ASSUME NEW j \in Jobs, PruneDelete(j) PROVE PurgedMeansSuccess'
  BY <1>17 DEF PruneDelete, Absent
<1>18. CASE PruneCollect
  BY <1>18 DEF PruneCollect
<1>19. CASE CloseStore \/ Restart
  BY <1>19 DEF CloseStore, Restart
<1>20. CASE Die
  BY <1>20 DEF Die
<1>21. CASE Idle \/ UNCHANGED vars
  BY <1>21 DEF Idle, vars
<1>. QED
  BY <1>1, <1>2, <1>3, <1>4, <1>5, <1>6, <1>7, <1>8, <1>9, <1>10,
     <1>11, <1>12, <1>13, <1>14, <1>15, <1>16, <1>17, <1>18, <1>19, <1>20, <1>21
  DEF Next, Handler, Goroutine, Processes, Server

-----------------------------------------------------------------------------
\* Only Acquire takes a slot, and only when one is free.
LEMMA SlotStep == TypeOK /\ ControlInv /\ SlotInv /\ [Next]_vars => SlotInv'
<1>. SUFFICES ASSUME TypeOK, ControlInv, SlotInv, [Next]_vars PROVE SlotInv'
  OBVIOUS
<1>. USE DEF SlotInv
<1>1. IsFiniteSet(sem) /\ Cardinality(sem) \in Nat
  BY JobsAssumption, FS_Subset, FS_CardinalityType DEF TypeOK
<1>2. ASSUME NEW j \in Jobs, Acquire(j) PROVE SlotInv'
  <2>1. sem' = sem \cup {j} /\ Cardinality(sem) < Slots
    BY <1>2 DEF Acquire
  <2>2. Cardinality(sem \cup {j}) <= Cardinality(sem) + 1
    <3>1. Cardinality(sem \cup {j}) =
            IF j \in sem THEN Cardinality(sem) ELSE Cardinality(sem) + 1
      BY <1>1, FS_AddElement
    <3>. QED
      BY <1>1, <3>1
  <2>3. Cardinality(sem \cup {j}) \in Nat
    BY <1>1, FS_AddElement, FS_CardinalityType
  <2>. QED
    BY <1>1, <2>1, <2>2, <2>3, SlotsType
<1>3. CASE sem' \subseteq sem
  <2>1. Cardinality(sem') <= Cardinality(sem) /\ Cardinality(sem') \in Nat
    BY <1>1, <1>3, FS_Subset, FS_CardinalityType
  <2>. QED
    BY <1>1, <2>1, SlotsType
<1>4. (\E j \in Jobs : Acquire(j)) \/ sem' \subseteq sem
  BY DEF Next, Handler, Goroutine, Processes, Server, Submit, CancelLookup,
     CancelFire, Register, SaveRunning, Check, Start, Return, Classify, Purge, SaveFinal,
     OnDone, CloseLog, Unregister, Release, Deadline, Kill, Fork, ShellExit,
     ChildExit, PruneDelete, PruneCollect, CloseStore, Die, Restart, Idle, vars,
     server, db, routine, process, history
<1>. QED
  BY <1>2, <1>3, <1>4

-----------------------------------------------------------------------------
LEMMA IInvInit == Init => ControlInv /\ SlotInv /\ RecordInv /\ CancelInv
                          /\ PurgeInv /\ CancelledIffInTime /\ PurgedMeansSuccess
<1>. SUFFICES ASSUME Init
              PROVE  /\ ControlInv /\ SlotInv /\ RecordInv /\ CancelInv
                     /\ PurgeInv /\ CancelledIffInTime /\ PurgedMeansSuccess
  OBVIOUS
<1>. USE DEF Init, Holding, Executing, BeforeOutcome, AfterSave, AfterOutcome
<1>1. ControlInv
  BY DEF ControlInv
<1>2. SlotInv
  BY FS_EmptySet, SlotsType DEF SlotInv
<1>3. RecordInv
  BY DEF RecordInv, Ended, Absent, Queued
<1>4. CancelInv /\ PurgeInv
  BY DEF CancelInv, PurgeInv
<1>5. CancelledIffInTime /\ PurgedMeansSuccess
  BY DEF CancelledIffInTime, PurgedMeansSuccess, Ended, Absent
<1>. QED
  BY <1>1, <1>2, <1>3, <1>4, <1>5

\* The inductive invariant of the queue.
THEOREM Invariance == Spec => []IInv
<1>1. Init => ControlInv /\ SlotInv /\ RecordInv /\ CancelInv
              /\ PurgeInv /\ CancelledIffInTime /\ PurgedMeansSuccess
  BY IInvInit
<1>2. TypeOK /\ TypeOK'
      /\ ControlInv /\ SlotInv /\ RecordInv /\ CancelInv
      /\ PurgeInv /\ CancelledIffInTime /\ PurgedMeansSuccess
      /\ [Next]_vars
      => ControlInv' /\ SlotInv' /\ RecordInv' /\ CancelInv'
         /\ PurgeInv' /\ CancelledIffInTime' /\ PurgedMeansSuccess'
  BY ControlStep, SlotStep, RecordStep, CancelStep, PurgeStep, CancelledStep,
     PurgedStep
<1>3. Spec => []TypeOK
  BY TypeCorrect
<1>4. Spec => [](ControlInv /\ SlotInv /\ RecordInv /\ CancelInv
                 /\ PurgeInv /\ CancelledIffInTime /\ PurgedMeansSuccess)
  BY <1>1, <1>2, <1>3, PTL DEF Spec
<1>. QED
  BY <1>3, <1>4, PTL DEF IInv

\* No more acme.sh invocations of this server are alive than it has slots: every
\* live one belongs to a goroutine that waits for it and holds a slot.
THEOREM ParallelismBounded == Spec => []BoundedParallelism
<1>1. IInv => BoundedParallelism
  <2>. SUFFICES ASSUME IInv PROVE BoundedParallelism
    OBVIOUS
  <2>1. IsFiniteSet(sem) /\ Cardinality(sem) \in Nat
    BY JobsAssumption, FS_Subset, FS_CardinalityType DEF IInv, TypeOK
  <2>2. Invocations \subseteq sem
    BY DEF IInv, ControlInv, Invocations, Holding, Executing
  <2>3. Cardinality(Invocations) <= Cardinality(sem) /\ Cardinality(Invocations) \in Nat
    BY <2>1, <2>2, FS_Subset, FS_CardinalityType
  <2>. QED
    BY <2>1, <2>3, SlotsType DEF IInv, SlotInv, BoundedParallelism
<1>. QED
  BY <1>1, Invariance, PTL

\* When a live log ends, the final record can be read.
THEOREM LogEndFinal == Spec => []LogEndMeansFinal
<1>1. IInv => LogEndMeansFinal
  BY DEF IInv, ControlInv, RecordInv, LogEndMeansFinal, Streaming, Holding,
         Executing, AfterSave
<1>. QED
  BY <1>1, Invariance, PTL

\* "cancelled" is recorded exactly for the jobs whose cancellation came in time.
THEOREM CancelledExactly == Spec => []CancelledIffInTime
<1>1. IInv => CancelledIffInTime
  BY DEF IInv
<1>. QED
  BY <1>1, Invariance, PTL

\* Only successful jobs have removed a certificate directory.
THEOREM PurgeOnlyOnSuccess == Spec => []PurgedMeansSuccess
<1>1. IInv => PurgedMeansSuccess
  BY DEF IInv
<1>. QED
  BY <1>1, Invariance, PTL

\* A job whose cancellation was answered with true and that has no process gets none,
\* unless it is past the check: until its outcome is decided its context is done, and
\* with that it does not pass the check.
THEOREM NoStartAfterCancel == Spec => CancelPreventsStart
<1>1. ASSUME IInv, [Next]_vars, NEW j \in Jobs,
             answered[j] # "no", pc[j] # "spawn", procs[j] = {}
      PROVE  pc'[j] # "spawn" /\ procs'[j] = {}
  <2> USE DEF Goto, server, db, routine, process, history
  <2>1. procs \in [Jobs -> SUBSET {"shell", "child"}] /\ pc \in [Jobs -> PC]
    BY <1>1 DEF IInv, TypeOK
  <2>2. ASSUME NEW k \in Jobs, Check(k) PROVE pc'[j] # "spawn" /\ procs' = procs
    <3>1. pc[j] = "start" => ctx[j] # "live"
      BY <1>1 DEF IInv, CancelInv, BeforeOutcome
    <3> QED
      BY <1>1, <2>1, <2>2, <3>1 DEF Check
  <2>3. ASSUME NEW k \in Jobs, Start(k) PROVE pc'[j] # "spawn" /\ procs'[j] = {}
    BY <1>1, <2>1, <2>3 DEF Start
  <2>4. ASSUME NEW k \in Jobs, Fork(k) PROVE pc' = pc /\ procs'[j] = {}
    BY <1>1, <2>1, <2>4 DEF Fork
  <2>5. ASSUME NEW k \in Jobs, Kill(k) \/ ShellExit(k) \/ ChildExit(k)
        PROVE  pc' = pc /\ procs'[j] = {}
    BY <1>1, <2>1, <2>5 DEF Kill, ShellExit, ChildExit
  <2>6. ASSUME NEW k \in Jobs,
               \/ Submit(k) \/ Acquire(k) \/ Register(k) \/ SaveRunning(k) \/ Return(k)
               \/ Classify(k) \/ Purge(k) \/ SaveFinal(k) \/ OnDone(k)
               \/ CloseLog(k) \/ Unregister(k) \/ Release(k)
        PROVE  pc'[j] # "spawn" /\ procs' = procs
    BY <1>1, <2>1, <2>6 DEF Submit, Acquire, Register, SaveRunning, Return, Classify,
       Purge, SaveFinal, OnDone, CloseLog, Unregister, Release
  <2>7. CASE Die
    BY <1>1, <2>1, <2>7 DEF Die
  <2>8. CASE (pc' = pc /\ procs' = procs)
    BY <1>1, <2>8
  <2>9. \/ \E k \in Jobs :
             \/ Check(k) \/ Start(k) \/ Fork(k) \/ Kill(k) \/ ShellExit(k) \/ ChildExit(k)
             \/ Submit(k) \/ Acquire(k) \/ Register(k) \/ SaveRunning(k) \/ Return(k)
             \/ Classify(k) \/ Purge(k) \/ SaveFinal(k) \/ OnDone(k)
             \/ CloseLog(k) \/ Unregister(k) \/ Release(k)
        \/ Die
        \/ pc' = pc /\ procs' = procs
    BY <1>1 DEF Next, Handler, Goroutine, Processes, Server, CancelLookup, CancelFire,
       Deadline, PruneDelete, PruneCollect, CloseStore, Restart, Idle, vars
  <2> QED
    BY <1>1, <2>2, <2>3, <2>4, <2>5, <2>6, <2>7, <2>8, <2>9
<1>2. ASSUME IInv, [Next]_vars
      PROVE  \A j \in Jobs : answered[j] # "no" /\ pc[j] # "spawn" /\ procs[j] = {}
                                => pc'[j] # "spawn" /\ procs'[j] = {}
  BY <1>1, <1>2
<1> QED
  BY <1>2, Invariance, PTL DEF Spec, CancelPreventsStart

\* OnDone never runs before the write of the final record.
THEOREM NotifiedAfterSave == Spec => []OnDoneAfterSave
<1>1. IInv => OnDoneAfterSave
  BY DEF IInv, TypeOK, RecordInv, OnDoneAfterSave
<1>. QED
  BY <1>1, Invariance, PTL
=============================================================================
