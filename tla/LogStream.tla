------------------------------ MODULE LogStream ------------------------------
(***************************************************************************)
(* The live log of one job, from the output of acme.sh to the browsers:    *)
(* two line writers (stdout and stderr), the log buffer with a bounded     *)
(* channel per subscriber (internal/jobs/logs.go), the snapshot that is    *)
(* persisted, and the Server-Sent-Events handlers of GET                   *)
(* /api/jobs/{id}/logs (internal/api/jobs.go).                             *)
(*                                                                         *)
(* A line is its position in the log.  Of the goroutine of the job only    *)
(* the order matters in which it registers the buffer, persists the        *)
(* snapshot, which may fail, closes the buffer and unregisters it (see     *)
(* JobManager).  The record may be pruned later, and the database closed   *)
(* while jobs and handlers still run.                                      *)
(***************************************************************************)
EXTENDS Integers, Sequences, FiniteSets

CONSTANTS Readers,   \* SSE requests for the log of this job
          ChanCap,   \* capacity of a subscriber's channel, 256 in the code
          MaxLines   \* bound: lines the command writes

ASSUME StreamAssumption == /\ IsFiniteSet(Readers)
                           /\ ChanCap \in Nat \ {0}
                           /\ MaxLines \in Nat

VARIABLES
  stage,     \* of the job: queued, running, ended, saved, closed, gone
  piped,     \* output streams with a line that nobody has taken out of the pipe
  partial,   \* output streams whose last line has no newline yet
  lines,     \* logBuffer.lines: how many there are
  subs,      \* logBuffer.subs: the readers in the map
  chan,      \* what is buffered in the channel of each reader
  shut,      \* the readers whose channel has been closed
  stored,    \* the log of the record: its length, NotStored before the final save
  dbOpen,    \* the database is open
  lost,      \* history: the final save failed
  rpc,       \* where the handler of each reader is
  got,       \* the log lines the client of each reader has been sent
  dropped,   \* history: lines a full channel refused
  looked     \* history: the stage in which Subscribe looked the job up

db     == <<stored, dbOpen, lost>>
job    == <<stage, piped, partial, db>>
buffer == <<lines, subs, chan, shut, dropped>>
reader == <<rpc, got, looked>>
vars   == <<job, buffer, reader>>

Streams   == {"stdout", "stderr"}
Stages    == {"queued", "running", "ended", "saved", "closed", "gone"}
NotStored == -1
Pruned    == -2

\* Manager.running has the job.
InMap == stage \in {"running", "ended", "saved", "closed"}

\* logBuffer.closed
Closed == stage \in {"closed", "gone"}

UpTo(n) == [i \in 1..n |-> i]

Init ==
  /\ stage = "queued"
  /\ piped = {}
  /\ partial = {}
  /\ lines = 0
  /\ subs = {}
  /\ chan = [r \in Readers |-> <<>>]
  /\ shut = {}
  /\ stored = NotStored
  /\ dbOpen = TRUE
  /\ lost = FALSE
  /\ rpc = [r \in Readers |-> "idle"]
  /\ got = [r \in Readers |-> <<>>]
  /\ dropped = [r \in Readers |-> {}]
  /\ looked = [r \in Readers |-> "queued"]

-----------------------------------------------------------------------------
(* The job.                                                                *)

Register ==
  /\ stage = "queued"
  /\ stage' = "running"
  /\ UNCHANGED <<piped, partial, db, buffer, reader>>

\* The command writes a line: the pipe holds it until its copier takes it out.
Emit(s) ==
  /\ stage = "running"
  /\ s \notin piped
  /\ lines + Cardinality(piped) < MaxLines
  /\ piped' = piped \cup {s}
  /\ UNCHANGED <<stage, partial, db, buffer, reader>>

\* Output without its newline stays in the line writer.
WritePartial(s) ==
  /\ stage = "running"
  /\ s \notin piped \cup partial
  /\ partial' = partial \cup {s}
  /\ UNCHANGED <<stage, piped, db, buffer, reader>>

\* Mutant: a full channel blocks the log instead of dropping the line.
AppendBlocking ==
  /\ \A r \in subs : Len(chan[r]) < ChanCap
  /\ lines' = lines + 1
  /\ chan' = [r \in Readers |-> IF r \in subs THEN Append(chan[r], lines + 1)
                                ELSE chan[r]]
  /\ UNCHANGED dropped

\* Mutant: a full channel loses its oldest line without a trace.
AppendEvicting ==
  /\ lines' = lines + 1
  /\ chan' = [r \in Readers |->
       IF r \notin subs THEN chan[r]
       ELSE IF Len(chan[r]) < ChanCap THEN Append(chan[r], lines + 1)
       ELSE Append(Tail(chan[r]), lines + 1)]
  /\ UNCHANGED dropped

\* logBuffer.Append: record the line, offer it to every subscriber, drop it for
\* those whose channel is full.
AppendLine ==
  /\ lines' = lines + 1
  /\ chan' = [r \in Readers |->
       IF r \in subs /\ Len(chan[r]) < ChanCap
       THEN Append(chan[r], lines + 1) ELSE chan[r]]
  /\ dropped' = [r \in Readers |->
       IF r \in subs /\ Len(chan[r]) >= ChanCap
       THEN dropped[r] \cup {lines + 1} ELSE dropped[r]]

\* The copier of exec.Cmd takes the line out of the pipe; with its newline it is
\* complete, masked and appended.
WriteLine(s) ==
  /\ s \in piped
  /\ piped' = piped \ {s}
  /\ partial' = partial \ {s}
  /\ AppendLine
  /\ UNCHANGED <<stage, db, subs, shut, reader>>

\* Client.Run returns: the command has ended and all of its output been copied.
CommandEnds ==
  /\ stage = "running"
  /\ piped = {}
  /\ stage' = "ended"
  /\ UNCHANGED <<piped, partial, db, buffer, reader>>

\* Mutant: the job leaves the map before its record is written.
PersistLast ==
  /\ stage = "ended"
  /\ stage' = "gone"
  /\ shut' = shut \cup subs
  /\ subs' = {}
  /\ UNCHANGED <<piped, partial, db, lines, chan, dropped, reader>>

\* The snapshot is persisted.  If nothing was streamed, what stderr holds is
\* taken over as one line.  An error, of the disk or because the database is closed,
\* is ignored, and the job goes on.
Persist ==
  /\ stage = "ended"
  /\ stage' = "saved"
  /\ \/ /\ dbOpen
        /\ stored' = IF lines = 0 /\ "stderr" \in partial THEN 1 ELSE lines
        /\ UNCHANGED lost
     \/ lost' = TRUE /\ UNCHANGED stored
  /\ UNCHANGED <<piped, partial, dbOpen, buffer, reader>>

\* Mutant: the subscribers are forgotten and their channels stay open.
CloseForgetsReaders ==
  /\ stage = "saved"
  /\ stage' = "closed"
  /\ subs' = {}
  /\ UNCHANGED <<piped, partial, db, lines, chan, shut, dropped, reader>>

\* logBuffer.Close: close and forget the channel of every subscriber.
CloseBuffer ==
  /\ stage = "saved"
  /\ stage' = "closed"
  /\ shut' = shut \cup subs
  /\ subs' = {}
  /\ UNCHANGED <<piped, partial, db, lines, chan, dropped, reader>>

Unregister ==
  /\ stage = "closed"
  /\ stage' = "gone"
  /\ UNCHANGED <<piped, partial, db, buffer, reader>>

\* The pruner deletes the record once it is old enough.
Prune ==
  /\ dbOpen
  /\ stored \in Nat
  /\ stored' = Pruned
  /\ UNCHANGED <<stage, piped, partial, dbOpen, lost, buffer, reader>>

\* The server shuts down: jobs and handlers may outlive the database.
CloseStore ==
  /\ dbOpen
  /\ dbOpen' = FALSE
  /\ UNCHANGED <<stage, piped, partial, stored, lost, buffer, reader>>

-----------------------------------------------------------------------------
(* The handler of a reader.                                                *)

\* Manager.Subscribe: look the job up under the manager's mutex.
Lookup(r) ==
  /\ rpc[r] = "idle"
  /\ rpc' = [rpc EXCEPT ![r] = IF InMap THEN "found" ELSE "fallback"]
  /\ looked' = [looked EXCEPT ![r] = stage]
  /\ UNCHANGED <<job, buffer, got>>

\* Mutant: a buffer that was closed in between takes the subscriber all the same.
SubscribeAnyway(r) ==
  /\ rpc[r] = "found"
  /\ rpc' = [rpc EXCEPT ![r] = "stream"]
  /\ got' = [got EXCEPT ![r] = UpTo(lines)]
  /\ subs' = subs \cup {r}
  /\ UNCHANGED <<job, lines, chan, shut, dropped, looked>>

\* logBuffer.Subscribe under the buffer's own mutex: the backlog and a channel
\* for what follows, or a refusal when the buffer was closed in between.
Subscribe(r) ==
  /\ rpc[r] = "found"
  /\ \/ /\ ~Closed
        /\ rpc' = [rpc EXCEPT ![r] = "stream"]
        /\ got' = [got EXCEPT ![r] = UpTo(lines)]
        /\ subs' = subs \cup {r}
     \/ /\ Closed
        /\ rpc' = [rpc EXCEPT ![r] = "fallback"]
        /\ UNCHANGED <<got, subs>>
  /\ UNCHANGED <<job, lines, chan, shut, dropped, looked>>

\* Not running: answer with the log of the stored record, or that there is no such
\* job if the record cannot be read.
Fallback(r) ==
  /\ rpc[r] = "fallback"
  /\ \/ /\ dbOpen /\ stored # Pruned
        /\ rpc' = [rpc EXCEPT ![r] = "served"]
        /\ got' = [got EXCEPT ![r] = IF stored = NotStored THEN <<>> ELSE UpTo(stored)]
     \/ /\ ~dbOpen \/ stored = Pruned
        /\ rpc' = [rpc EXCEPT ![r] = "missing"]
        /\ UNCHANGED got
  /\ UNCHANGED <<job, buffer, looked>>

\* A line from the channel; a closed channel is drained first.
Receive(r) ==
  /\ rpc[r] = "stream"
  /\ chan[r] # <<>>
  /\ got' = [got EXCEPT ![r] = Append(@, Head(chan[r]))]
  /\ chan' = [chan EXCEPT ![r] = Tail(@)]
  /\ UNCHANGED <<job, lines, subs, shut, dropped, rpc, looked>>

\* Mutant: the handler takes the closed buffer for the end of its channel.
EndWithoutDraining(r) ==
  /\ rpc[r] = "stream"
  /\ r \in shut
  /\ rpc' = [rpc EXCEPT ![r] = "ended"]
  /\ UNCHANGED <<job, buffer, got, looked>>

\* The channel is closed and empty: the "end" event.
End(r) ==
  /\ rpc[r] = "stream"
  /\ r \in shut
  /\ chan[r] = <<>>
  /\ rpc' = [rpc EXCEPT ![r] = "ended"]
  /\ UNCHANGED <<job, buffer, got, looked>>

\* The client goes away.
Disconnect(r) ==
  /\ rpc[r] = "stream"
  /\ rpc' = [rpc EXCEPT ![r] = "left"]
  /\ UNCHANGED <<job, buffer, got, looked>>

\* Mutant: unsubscribing closes the channel and leaves it in the map.
UnsubscribeKeepsEntry(r) ==
  /\ rpc[r] \in {"ended", "left"}
  /\ rpc' = [rpc EXCEPT ![r] = "answered"]
  /\ shut' = shut \cup {r}
  /\ UNCHANGED <<job, lines, subs, chan, dropped, got, looked>>

\* The deferred unsubscribe: only a channel that is still in the map is closed.
Unsubscribe(r) ==
  /\ rpc[r] \in {"ended", "left"}
  /\ rpc' = [rpc EXCEPT ![r] = IF @ = "ended" THEN "complete" ELSE "answered"]
  /\ IF r \in subs THEN subs' = subs \ {r} /\ shut' = shut \cup {r}
                   ELSE UNCHANGED <<subs, shut>>
  /\ UNCHANGED <<job, lines, chan, dropped, got, looked>>

-----------------------------------------------------------------------------

Job == \/ Register \/ CommandEnds \/ Persist \/ CloseBuffer \/ Unregister
Output == \E s \in Streams : Emit(s) \/ WritePartial(s) \/ WriteLine(s)
Database == Prune \/ CloseStore
Handler(r) == \/ Subscribe(r) \/ Fallback(r) \/ Receive(r) \/ End(r)
              \/ Unsubscribe(r)

Answered == {"served", "missing", "answered", "complete"}

\* Every request has been answered and the job is over.
Finished ==
  /\ stage = "gone"
  /\ \A r \in Readers : rpc[r] \in Answered
  /\ UNCHANGED vars

Next ==
  \/ Job
  \/ Output
  \/ Database
  \/ \E r \in Readers : Lookup(r) \/ Handler(r) \/ Disconnect(r)
  \/ Finished

Spec == Init /\ [][Next]_vars

\* The goroutine of the job and what copies its output run whenever they can; nobody has
\* to ask for the log, to disconnect, or to write another line.  A client may be as slow
\* as it likes, and its handler be stuck in a write to it.
FairSpec == Spec /\ WF_vars(Job) /\ \A s \in Streams : WF_vars(WriteLine(s))

\* A client that takes what it is sent, so that its handler runs whenever it can.
Served(r) == WF_vars(Handler(r))

-----------------------------------------------------------------------------
TypeOK ==
  /\ stage \in Stages
  /\ piped \subseteq Streams
  /\ partial \subseteq Streams
  /\ lines \in Nat
  /\ subs \subseteq Readers
  /\ chan \in [Readers -> Seq(Nat)]
  /\ shut \subseteq Readers
  /\ stored \in Nat \cup {NotStored, Pruned}
  /\ dbOpen \in BOOLEAN
  /\ lost \in BOOLEAN
  /\ rpc \in [Readers -> {"idle", "found", "fallback", "stream", "ended", "left",
                          "served", "missing", "answered", "complete"}]
  /\ got \in [Readers -> Seq(Nat)]
  /\ dropped \in [Readers -> SUBSET Nat]
  /\ looked \in [Readers -> Stages]

\* Append never sends on a closed channel and nobody closes one twice, either of
\* which would take the server down: a channel in the map is open, and it belongs
\* to a handler that will still unsubscribe (logs.go:27, 60, 77).
ChannelsInMapAreOpen ==
  \A r \in subs : r \notin shut /\ rpc[r] \in {"stream", "left"}

\* What a client was sent is followed by what waits in its channel, in order and
\* without a repetition; of the lines written so far it lacks exactly those its
\* full channel refused: backlog and channel meet without a gap (logs.go:46-66).
Seen(r) == got[r] \o chan[r]

StreamInOrder ==
  \A r \in Readers : rpc[r] \in {"stream", "ended", "complete"} =>
    /\ \A i \in 1..Len(Seen(r)), k \in 1..Len(Seen(r)) :
         i < k => Seen(r)[i] < Seen(r)[k]
    /\ {Seen(r)[i] : i \in 1..Len(Seen(r))} = (1..lines) \ dropped[r]

\* The record has the whole log, unless its last write failed or it is pruned.
Kept == stored >= lines \/ stored = Pruned \/ lost

\* The "end" event means there was nothing more to see, and that every line, the
\* dropped ones included, is in the record that the page loads next, unless its write
\* failed or it has been pruned since (logs.go:30, runner.go:66).
EndMeansComplete ==
  \A r \in Readers : rpc[r] \in {"ended", "complete"} =>
    /\ \A n \in 1..lines : n \in dropped[r] \/ \E i \in 1..Len(got[r]) : got[r][i] = n
    /\ Kept

\* A reader that finds the job has been and gone and is answered from its record gets
\* the whole log, unless the write of it failed: no answer falls between the live log
\* and the stored one, however the lookup, the close and the unregistering interleave
\* (api/jobs.go:66-76).
FallbackIsComplete ==
  \A r \in Readers : rpc[r] = "served" /\ looked[r] # "queued" =>
    Len(got[r]) >= lines \/ lost

\* Nobody waits for a log that is closed: whoever streams has had its channel closed
\* with the buffer, also one that had found the job and was not in the map of the
\* buffer yet when the job ended (logs.go:51, 70-80; queue.go:141-147).
CloseReachesReaders ==
  Closed => \A r \in Readers : rpc[r] = "stream" => r \in shut

\* A slow or absent client never holds up the job: even if no handler ever takes a
\* line again, what the command writes is taken out of the pipes, so that it can go
\* on, and the job ends (logs.go:28-31, 34-43).
JobEnds == stage = "running" ~> stage = "gone"

\* Every stream ends once the job does, if its client takes what it is sent, whatever
\* the other clients do (api/jobs.go:91-114).
StreamsEnd == \A r \in Readers : Served(r) => (rpc[r] = "stream" ~> rpc[r] \in Answered)

=============================================================================
