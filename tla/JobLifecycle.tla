---------------------------- MODULE JobLifecycle ----------------------------
(***************************************************************************)
(* What the job queue promises to those who submit jobs, without saying    *)
(* how: a job is accepted once, its command runs at most once, at most     *)
(* Slots commands run at a time, its record only ever moves forward, a     *)
(* final status is written only when the command is over, and it says      *)
(* "cancelled" exactly for the jobs whose cancellation was accepted.       *)
(* The death of the server ends every command it was waiting for.          *)
(***************************************************************************)
EXTENDS Integers, FiniteSets

CONSTANTS Jobs, Slots

VARIABLES status,  \* the record an API client sees, none and pruned included
          phase,   \* none, waiting, working, over
          asked    \* jobs whose cancellation was accepted in time

vars == <<status, phase, asked>>

Final == {"success", "failed", "cancelled"}

Init ==
  /\ status = [j \in Jobs |-> "none"]
  /\ phase = [j \in Jobs |-> "none"]
  /\ asked = {}

Working == {j \in Jobs : phase[j] = "working"}

Accept(j) ==
  /\ phase[j] = "none"
  /\ status' = [status EXCEPT ![j] = "queued"]
  /\ phase' = [phase EXCEPT ![j] = "waiting"]
  /\ UNCHANGED asked

Announce(j) ==
  /\ phase[j] = "waiting"
  /\ status[j] = "queued"
  /\ status' = [status EXCEPT ![j] = "running"]
  /\ UNCHANGED <<phase, asked>>

Begin(j) ==
  /\ phase[j] = "waiting"
  /\ Cardinality(Working) < Slots
  /\ phase' = [phase EXCEPT ![j] = "working"]
  /\ UNCHANGED <<status, asked>>

Ask(j) ==
  /\ phase[j] # "none"
  /\ status[j] \in {"queued", "running"}
  /\ asked' = asked \cup {j}
  /\ UNCHANGED <<status, phase>>

\* The command ended, or could not be started.
Stop(j) ==
  /\ phase[j] \in {"waiting", "working"}
  /\ phase' = [phase EXCEPT ![j] = "over"]
  /\ UNCHANGED <<status, asked>>

Conclude(j) ==
  /\ phase[j] = "over"
  /\ status[j] \in {"queued", "running"}
  /\ \E s \in Final : /\ (s = "cancelled") <=> (j \in asked)
                      /\ status' = [status EXCEPT ![j] = s]
  /\ UNCHANGED <<phase, asked>>

Forget(j) ==
  /\ status[j] \in Final
  /\ status' = [status EXCEPT ![j] = "pruned"]
  /\ UNCHANGED <<phase, asked>>

Abandon ==
  /\ phase' = [j \in Jobs |-> IF phase[j] = "none" THEN "none" ELSE "over"]
  /\ UNCHANGED <<status, asked>>

Next ==
  \/ \E j \in Jobs : \/ Accept(j) \/ Announce(j) \/ Begin(j) \/ Ask(j)
                     \/ Stop(j) \/ Conclude(j) \/ Forget(j)
  \/ Abandon

Spec == Init /\ [][Next]_vars
=============================================================================
