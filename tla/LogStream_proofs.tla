-------------------------- MODULE LogStream_proofs --------------------------
(***************************************************************************)
(* Proofs about LogStream, for any number of readers, any channel capacity *)
(* and a log of any length: a channel in the map is open, what a client    *)
(* sees is the log in order without the lines its full channel refused,    *)
(* and neither the end of a stream nor the answer from the stored record   *)
(* comes before the whole log has been written, if that did not fail.      *)
(*                                                                         *)
(* What ties the two sides together is the close of the buffer.  A reader  *)
(* that has left the map with its stream, and one that is refused by the   *)
(* buffer or finds the job gone, know that the job has closed its buffer;  *)
(* by then no line can be added and the record has been written, or the    *)
(* write of it has failed.                                                 *)
(***************************************************************************)
EXTENDS LogStream, SequenceTheorems, TLAPS

Follows(s, n, d) ==
  /\ s \in Seq(Nat)
  /\ \A i \in 1..Len(s), k \in 1..Len(s) : i < k => s[i] < s[k]
  /\ {s[i] : i \in 1..Len(s)} = (1..n) \ d

\* The job: who has closed the buffer has tried to store the whole log and emptied
\* the map; a line in a pipe keeps the command from ending.
JobInv ==
  /\ piped # {} => stage = "running"
  /\ stage \in {"saved", "closed", "gone"} => Kept
  /\ Closed => subs = {}

Streaming(r) == rpc[r] \in {"stream", "ended", "complete"}

\* Where a handler stands, what it knows of the channel and of the job.
ReaderInv(r) ==
  /\ r \in subs => r \notin shut /\ rpc[r] \in {"stream", "left"}
  /\ rpc[r] \in {"idle", "found"} => r \notin shut
  /\ rpc[r] = "stream" => r \in subs \/ r \in shut
  /\ Streaming(r) /\ r \notin subs => Closed
  /\ rpc[r] = "fallback" /\ looked[r] # "queued" => Closed
  /\ rpc[r] = "served" /\ looked[r] # "queued" => Closed /\ (Len(got[r]) >= lines \/ lost)
  /\ rpc[r] = "found" => stage # "queued"

\* What a handler has in hand of the log.
LogInv(r) ==
  /\ rpc[r] \in {"idle", "found"} => chan[r] = <<>> /\ dropped[r] = {}
  /\ dropped[r] \subseteq 1..lines
  /\ rpc[r] \in {"ended", "complete"} => chan[r] = <<>>
  /\ Streaming(r) => Follows(Seen(r), lines, dropped[r])

SInv ==
  /\ TypeOK
  /\ JobInv
  /\ \A r \in Readers : ReaderInv(r) /\ LogInv(r)

-----------------------------------------------------------------------------
(* The sequences a client is sent.                                          *)

LEMMA FollowsAppend ==
  ASSUME NEW s, NEW n \in Nat, NEW d \in SUBSET (1..n), Follows(s, n, d)
  PROVE  Follows(Append(s, n + 1), n + 1, d)
<1> DEFINE t == Append(s, n + 1)
<1>1. /\ s \in Seq(Nat)
      /\ \A i, k \in 1..Len(s) : i < k => s[i] < s[k]
      /\ \A i \in 1..Len(s) : s[i] \in 1..n /\ s[i] \notin d
      /\ \A m \in 1..n : m \notin d => \E i \in 1..Len(s) : s[i] = m
  BY DEF Follows
<1>2. /\ t \in Seq(Nat) /\ Len(t) = Len(s) + 1 /\ Len(s) \in Nat
      /\ \A i \in 1..Len(s) : t[i] = s[i]
      /\ t[Len(s) + 1] = n + 1
  BY <1>1, AppendProperties
<1> HIDE DEF t
<1>a. ASSUME NEW i \in 1..Len(t)
      PROVE  \/ i \in 1..Len(s) /\ t[i] = s[i] /\ t[i] \in 1..n /\ t[i] \notin d
             \/ i = Len(s) + 1 /\ t[i] = n + 1
  <2>1. i \in 1..Len(s) \/ i = Len(s) + 1
    BY <1>2
  <2> QED
    BY <2>1, <1>1, <1>2
<1>3. ASSUME NEW i \in 1..Len(t), NEW k \in 1..Len(t), i < k
      PROVE  t[i] < t[k]
  <2>1. i \in 1..Len(s) /\ t[i] = s[i] /\ t[i] \in 1..n
    BY <1>a, <1>2, <1>3
  <2>2. CASE k \in 1..Len(s)
    BY <2>1, <2>2, <1>1, <1>2, <1>3
  <2>3. CASE k = Len(s) + 1
    BY <2>1, <2>3, <1>2
  <2> QED
    BY <2>2, <2>3, <1>a
<1>4. {t[i] : i \in 1..Len(t)} = (1..(n + 1)) \ d
  <2>1. \A i \in 1..Len(t) : t[i] \in (1..(n + 1)) \ d
    BY <1>a
  <2>2. \A m \in (1..(n + 1)) \ d : \E i \in 1..Len(t) : t[i] = m
    <3> TAKE m \in (1..(n + 1)) \ d
    <3>1. CASE m = n + 1
      BY <3>1, <1>2
    <3>2. CASE m # n + 1
      <4>1. PICK i \in 1..Len(s) : s[i] = m
        BY <3>2, <1>1
      <4>2. i \in 1..Len(t) /\ t[i] = m
        BY <4>1, <1>2
      <4> QED
        BY <4>2
    <3> QED
      BY <3>1, <3>2
  <2> QED
    BY <2>1, <2>2
<1> QED
  BY <1>2, <1>3, <1>4 DEF Follows, t

LEMMA FollowsDrop ==
  ASSUME NEW s, NEW n \in Nat, NEW d \in SUBSET (1..n), Follows(s, n, d)
  PROVE  Follows(s, n + 1, d \cup {n + 1})
<1>1. (1..(n + 1)) \ (d \cup {n + 1}) = (1..n) \ d
  OBVIOUS
<1> QED
  BY <1>1 DEF Follows

\* The backlog of a new subscriber is the log.
LEMMA FollowsUpTo ==
  ASSUME NEW n \in Nat
  PROVE  UpTo(n) \in Seq(Nat) /\ Follows(UpTo(n) \o <<>>, n, {})
<1>1. /\ UpTo(n) \in Seq(Nat)
      /\ Len(UpTo(n)) = n
      /\ \A i \in 1..n : UpTo(n)[i] = i
  BY IsASeq DEF UpTo
<1>2. UpTo(n) \o <<>> = UpTo(n)
  BY <1>1, ConcatEmptySeq
<1> QED
  BY <1>1, <1>2 DEF Follows

LEMMA AppendToChannel ==
  ASSUME NEW g \in Seq(Nat), NEW c \in Seq(Nat), NEW x \in Nat
  PROVE  g \o Append(c, x) = Append(g \o c, x)
<1>1. <<x>> \in Seq(Nat) /\ Append(c, x) = c \o <<x>>
  BY AppendIsConcat
<1>2. Append(g \o c, x) = (g \o c) \o <<x>>
  BY ConcatProperties, AppendIsConcat
<1> QED
  BY <1>1, <1>2, ConcatAssociative

LEMMA ReceiveFromChannel ==
  ASSUME NEW g \in Seq(Nat), NEW c \in Seq(Nat), c # <<>>
  PROVE  /\ Append(g, Head(c)) \in Seq(Nat) /\ Tail(c) \in Seq(Nat)
         /\ Append(g, Head(c)) \o Tail(c) = g \o c
<1>1. Head(c) \in Nat /\ Tail(c) \in Seq(Nat) /\ Append(g, Head(c)) \in Seq(Nat)
  BY HeadTailProperties, AppendProperties
<1>2. Append(g, Head(c)) = g \o <<Head(c)>> /\ <<Head(c)>> \in Seq(Nat)
  BY <1>1, AppendIsConcat
<1>3. (g \o <<Head(c)>>) \o Tail(c) = g \o (<<Head(c)>> \o Tail(c))
  BY <1>1, <1>2, ConcatAssociative
<1>4. <<Head(c)>> \o Tail(c) = c
  BY <1>1, SMTT(20)
<1> QED
  BY <1>1, <1>2, <1>3, <1>4

-----------------------------------------------------------------------------
LEMMA InitSInv == Init => SInv
<1> SUFFICES ASSUME Init PROVE SInv
  OBVIOUS
<1> USE DEF Init, Stages, NotStored, Pruned, Answered, Closed
<1>1. TypeOK
  <2>1. dbOpen \in BOOLEAN /\ lost \in BOOLEAN
    OBVIOUS
  <2>2. stored \in Nat \cup {NotStored, Pruned}
    OBVIOUS
  <2> QED
    BY <2>1, <2>2 DEF TypeOK
<1>2. JobInv
  BY DEF JobInv, Kept
<1>3. \A r \in Readers : ReaderInv(r) /\ LogInv(r)
  BY DEF ReaderInv, LogInv, Streaming
<1> QED
  BY <1>1, <1>2, <1>3 DEF SInv

\* A step of the job changes no line and no handler.
LEMMA JobStep == SInv /\ Job => SInv'
<1> SUFFICES ASSUME SInv, Job PROVE SInv'
  OBVIOUS
<1> USE DEF Stages, NotStored, Pruned, Answered, Closed, job, db, buffer, reader
<1>0. TypeOK /\ JobInv /\ \A r \in Readers : ReaderInv(r) /\ LogInv(r)
  BY DEF SInv
<1>1. /\ UNCHANGED <<lines, chan, dropped, rpc, got, looked>>
      /\ \A r \in Readers : LogInv(r)'
  <2>1. UNCHANGED <<lines, chan, dropped, rpc, got, looked>>
    BY DEF Job, Register, CommandEnds, Persist, CloseBuffer, Unregister
  <2> QED
    BY <2>1, <1>0 DEF LogInv, Streaming, Seen
<1>2. TypeOK'
  <2>1. dbOpen' \in BOOLEAN /\ lost' \in BOOLEAN
    BY <1>0 DEF TypeOK, Job, Register, CommandEnds, Persist, CloseBuffer, Unregister
  <2>2. stored' \in Nat \cup {NotStored, Pruned}
    BY <1>0 DEF TypeOK, Job, Register, CommandEnds, Persist, CloseBuffer, Unregister
  <2>3. stage' \in Stages /\ subs' \subseteq Readers /\ shut' \subseteq Readers
        /\ piped' = piped /\ partial' = partial
    BY <1>0 DEF TypeOK, Job, Register, CommandEnds, Persist, CloseBuffer, Unregister
  <2> QED
    BY <1>0, <1>1, <2>1, <2>2, <2>3 DEF TypeOK
<1>3. JobInv'
  BY <1>0, <1>1 DEF TypeOK, JobInv, Kept, Job, Register, CommandEnds, Persist, CloseBuffer, Unregister
<1>4. \A r \in Readers : ReaderInv(r)'
  <2> TAKE r \in Readers
  <2>1. CASE CloseBuffer
    BY <2>1, <1>0, <1>1 DEF TypeOK, ReaderInv, CloseBuffer, Streaming
  <2>2. CASE ~CloseBuffer
    <3>1. UNCHANGED <<subs, shut>> /\ (Closed => Closed') /\ stage' # "queued"
          /\ (lost => lost')
      BY <2>2 DEF Job, Register, CommandEnds, Persist, Unregister
    <3> QED
      BY <3>1, <1>0, <1>1 DEF ReaderInv, Streaming
  <2> QED
    BY <2>1, <2>2
<1> QED
  BY <1>1, <1>2, <1>3, <1>4 DEF SInv

\* A line reaches every reader that is subscribed, in its channel or as a line its
\* channel refused; every other stream is over and no line can come.
LEMMA LineStep == \A s \in Streams : SInv /\ WriteLine(s) => SInv'
<1> SUFFICES ASSUME NEW s \in Streams, SInv, WriteLine(s) PROVE SInv'
  OBVIOUS
<1> USE DEF Stages, NotStored, Pruned, Answered, Closed, job, db, buffer, reader
<1>0. TypeOK /\ JobInv /\ \A r \in Readers : ReaderInv(r) /\ LogInv(r)
  BY DEF SInv
<1>1. /\ stage = "running" /\ lines \in Nat /\ lines' = lines + 1
      /\ chan \in [Readers -> Seq(Nat)] /\ got \in [Readers -> Seq(Nat)]
      /\ UNCHANGED <<stage, stored, lost, subs, shut, rpc, got, looked>>
  BY <1>0 DEF WriteLine, AppendLine, TypeOK, JobInv
<1>2. ASSUME NEW r \in Readers
      PROVE  /\ chan[r] \in Seq(Nat) /\ Len(chan[r]) \in Nat
             /\ got[r] \in Seq(Nat)
             /\ dropped[r] \subseteq 1..lines
  BY <1>0, <1>1, LenProperties DEF LogInv
<1>a. ASSUME NEW r \in Readers, r \notin subs
      PROVE  chan'[r] = chan[r] /\ dropped'[r] = dropped[r]
  BY <1>a DEF WriteLine, AppendLine
<1>b. ASSUME NEW r \in Readers, r \in subs
      PROVE  \/ chan'[r] = Append(chan[r], lines + 1) /\ dropped'[r] = dropped[r]
             \/ chan'[r] = chan[r] /\ dropped'[r] = dropped[r] \cup {lines + 1}
  BY <1>2, <1>b, StreamAssumption DEF WriteLine, AppendLine
<1>c. ASSUME NEW r \in Readers
      PROVE  chan'[r] \in Seq(Nat) /\ dropped'[r] \subseteq 1..(lines + 1)
  <2>1. Append(chan[r], lines + 1) \in Seq(Nat)
    BY <1>1, <1>2, AppendProperties
  <2>2. dropped[r] \subseteq 1..(lines + 1)
    BY <1>1, <1>2
  <2>3. dropped[r] \cup {lines + 1} \subseteq 1..(lines + 1)
    BY <2>2, <1>1
  <2> QED
    BY <2>1, <2>2, <2>3, <1>2, <1>a, <1>b
<1>3. TypeOK'
  <2>1. \A r \in Readers : chan'[r] \in Seq(Nat) /\ dropped'[r] \in SUBSET Nat
    BY <1>1, <1>c
  <2>2. chan' \in [Readers -> Seq(Nat)] /\ dropped' \in [Readers -> SUBSET Nat]
    BY <2>1 DEF WriteLine, AppendLine
  <2>3. /\ partial' \subseteq Streams /\ piped' \subseteq Streams
        /\ dbOpen' \in BOOLEAN /\ lost' \in BOOLEAN
    BY <1>0 DEF WriteLine, TypeOK
  <2> QED
    BY <2>2, <2>3, <1>0, <1>1 DEF TypeOK
<1>4. JobInv'
  BY <1>0, <1>1 DEF JobInv, WriteLine
<1>5. \A r \in Readers : ReaderInv(r)'
  BY <1>0, <1>1 DEF ReaderInv, Streaming
<1>6. ASSUME NEW r \in Readers PROVE LogInv(r)'
  <2>1. dropped'[r] \subseteq 1..lines'
    BY <1>1, <1>c
  <2>2. rpc[r] \in {"idle", "found"} => chan'[r] = <<>> /\ dropped'[r] = {}
    BY <1>0, <1>a DEF ReaderInv, LogInv
  <2>3. rpc[r] \in {"ended", "complete"} => chan'[r] = <<>>
    BY <1>0, <1>a DEF ReaderInv, LogInv
  <2>4. ASSUME Streaming(r)
        PROVE  Follows(got[r] \o chan'[r], lines + 1, dropped'[r])
    <3>1. r \in subs
      BY <2>4, <1>0, <1>1 DEF ReaderInv
    <3>2. Follows(got[r] \o chan[r], lines, dropped[r])
      BY <2>4, <1>0 DEF LogInv, Seen
    <3>3. CASE chan'[r] = Append(chan[r], lines + 1) /\ dropped'[r] = dropped[r]
      <4>1. got[r] \o chan'[r] = Append(got[r] \o chan[r], lines + 1)
        BY <3>3, <1>1, <1>2, AppendToChannel
      <4> QED
        BY <4>1, <3>2, <3>3, <1>1, <1>2, FollowsAppend
    <3>4. CASE chan'[r] = chan[r] /\ dropped'[r] = dropped[r] \cup {lines + 1}
      BY <3>2, <3>4, <1>1, <1>2, FollowsDrop
    <3> QED
      BY <3>1, <3>3, <3>4, <1>b
  <2> QED
    BY <2>1, <2>2, <2>3, <2>4, <1>1 DEF LogInv, Streaming, Seen
<1> QED
  BY <1>3, <1>4, <1>5, <1>6 DEF SInv

\* A step of one handler leaves the job and the other readers alone.
LEMMA OthersUntouched ==
  ASSUME SInv, NEW r \in Readers,
         UNCHANGED <<stage, lines, dropped, lost>>,
         \A q \in Readers \ {r} :
           /\ UNCHANGED <<chan[q], rpc[q], got[q], looked[q]>>
           /\ q \in subs' <=> q \in subs
           /\ q \in shut' <=> q \in shut
  PROVE  \A q \in Readers \ {r} : ReaderInv(q)' /\ LogInv(q)'
<1> TAKE q \in Readers \ {r}
<1>1. ReaderInv(q) /\ LogInv(q)
  BY DEF SInv
<1>2. ReaderInv(q)'
  BY <1>1 DEF ReaderInv, Streaming, Closed
<1>3. LogInv(q)'
  BY <1>1 DEF LogInv, Streaming, Seen
<1> QED
  BY <1>2, <1>3

LEMMA HandlerStep ==
  \A r \in Readers : SInv /\ (Lookup(r) \/ Handler(r) \/ Disconnect(r)) => SInv'
<1> SUFFICES ASSUME NEW r \in Readers, SInv, Lookup(r) \/ Handler(r) \/ Disconnect(r)
             PROVE  SInv'
  OBVIOUS
<1> USE DEF Stages, NotStored, Pruned, Answered, job, db, buffer, reader
<1>a. TypeOK /\ JobInv /\ ReaderInv(r) /\ LogInv(r)
  BY DEF SInv
<1>0. /\ TypeOK /\ JobInv /\ ReaderInv(r) /\ LogInv(r)
      /\ stage \in Stages /\ lines \in Nat /\ stored \in Nat \cup {NotStored, Pruned}
      /\ chan \in [Readers -> Seq(Nat)] /\ got \in [Readers -> Seq(Nat)]
      /\ rpc \in [Readers -> {"idle", "found", "fallback", "stream", "ended", "left",
                              "served", "missing", "answered", "complete"}]
      /\ looked \in [Readers -> Stages]
  <2>1. /\ stage \in Stages /\ lines \in Nat /\ stored \in Nat \cup {NotStored, Pruned}
        /\ chan \in [Readers -> Seq(Nat)] /\ got \in [Readers -> Seq(Nat)]
        /\ rpc \in [Readers -> {"idle", "found", "fallback", "stream", "ended", "left",
                                "served", "missing", "answered", "complete"}]
        /\ looked \in [Readers -> Stages]
    BY <1>a DEF TypeOK
  <2> QED
    BY <1>a, <2>1
<1>1. CASE Lookup(r)
  <2>1. TypeOK' /\ JobInv'
    BY <1>0, <1>1 DEF Lookup, TypeOK, JobInv, Kept, Closed
  <2>2. ReaderInv(r)' /\ LogInv(r)'
    <3>1. ReaderInv(r)'
      BY <1>0, <1>1 DEF Lookup, ReaderInv, Streaming, Closed, InMap
    <3>2. LogInv(r)'
      BY <1>0, <1>1 DEF Lookup, LogInv, Streaming
    <3> QED
      BY <3>1, <3>2
  <2>3. \A q \in Readers \ {r} : ReaderInv(q)' /\ LogInv(q)'
    <3> SUFFICES \A q \in Readers \ {r} : UNCHANGED <<chan[q], rpc[q], got[q], looked[q]>>
      BY <1>1, OthersUntouched DEF Lookup
    <3> QED
      BY <1>0, <1>1 DEF Lookup
  <2> QED
    BY <2>1, <2>2, <2>3 DEF SInv
<1>2. CASE Subscribe(r)
  <2>0. chan[r] = <<>> /\ dropped[r] = {}
    BY <1>0, <1>2 DEF Subscribe, LogInv
  <2>1. TypeOK' /\ JobInv'
    BY <1>0, <1>2, FollowsUpTo, ZenonT(60) DEF Subscribe, TypeOK, JobInv, Kept, Closed
  <2>2. ASSUME ~Closed, rpc' = [rpc EXCEPT ![r] = "stream"]
        PROVE  ReaderInv(r)' /\ LogInv(r)'
    <3>1. ReaderInv(r)'
      BY <1>0, <1>2, <2>2 DEF Subscribe, ReaderInv, Streaming, Closed
    <3>2. Seen(r)' = UpTo(lines) \o <<>> /\ dropped'[r] = {}
      BY <1>0, <1>2, <2>0, <2>2 DEF Subscribe, Seen
    <3>3. LogInv(r)'
      BY <1>0, <1>2, <2>2, <3>2, FollowsUpTo DEF Subscribe, LogInv, Streaming
    <3> QED
      BY <3>1, <3>3
  <2>3. ASSUME Closed, rpc' = [rpc EXCEPT ![r] = "fallback"]
        PROVE  ReaderInv(r)' /\ LogInv(r)'
    <3>1. ReaderInv(r)'
      BY <1>0, <1>2, <2>3 DEF Subscribe, ReaderInv, Streaming, Closed
    <3>2. LogInv(r)'
      BY <1>0, <1>2, <2>3 DEF Subscribe, LogInv, Streaming
    <3> QED
      BY <3>1, <3>2
  <2>4. \A q \in Readers \ {r} : ReaderInv(q)' /\ LogInv(q)'
    <3> SUFFICES \A q \in Readers \ {r} : UNCHANGED <<rpc[q], got[q]>> /\ (q \in subs' <=> q \in subs)
      BY <1>2, OthersUntouched DEF Subscribe
    <3> QED
      BY <1>0, <1>2 DEF Subscribe
  <2> QED
    BY <2>1, <2>2, <2>3, <2>4, <1>2 DEF SInv, Subscribe
<1>3. CASE Fallback(r)
  <2>1. stored \in Nat => UpTo(stored) \in Seq(Nat) /\ Len(UpTo(stored)) = stored
    BY <1>0, FollowsUpTo, IsASeq DEF UpTo
  <2>b. PICK w \in {"served", "missing"} : rpc' = [rpc EXCEPT ![r] = w]
    BY <1>3 DEF Fallback
  <2>c. PICK g \in Seq(Nat) : got' = [got EXCEPT ![r] = g]
    <3>1. CASE UNCHANGED got
      BY <1>0, <3>1
    <3>2. CASE dbOpen /\ stored # Pruned
               /\ got' = [got EXCEPT ![r] = IF stored = NotStored THEN <<>> ELSE UpTo(stored)]
      <4>1. <<>> \in Seq(Nat)
        OBVIOUS
      <4>2. (IF stored = NotStored THEN <<>> ELSE UpTo(stored)) \in Seq(Nat)
        BY <1>0, <2>1, <3>2, <4>1
      <4> QED
        BY <3>2, <4>2
    <3> QED
      BY <1>3, <3>1, <3>2 DEF Fallback
  <2>a. /\ rpc' \in [Readers -> {"idle", "found", "fallback", "stream", "ended", "left",
                                "served", "missing", "answered", "complete"}]
        /\ got' \in [Readers -> Seq(Nat)]
    BY <1>0, <2>b, <2>c
  <2>2. TypeOK' /\ JobInv'
    BY <1>0, <1>3, <2>a DEF Fallback, TypeOK, JobInv, Kept, Closed
  <2>3. ReaderInv(r)'
    <3>1. ASSUME rpc'[r] = "served", looked[r] # "queued"
          PROVE  Closed /\ (Len(got'[r]) >= lines \/ lost)
      <4>1. Closed
        BY <1>0, <1>3, <3>1 DEF Fallback, ReaderInv
      <4>2. Kept
        BY <1>0, <4>1 DEF JobInv, Closed
      <4>3. dbOpen /\ stored # Pruned
            /\ got'[r] = IF stored = NotStored THEN <<>> ELSE UpTo(stored)
        BY <1>0, <1>3, <3>1 DEF Fallback
      <4> QED
        BY <1>0, <2>1, <4>1, <4>2, <4>3 DEF Kept
    <3> QED
      BY <1>0, <1>3, <3>1 DEF Fallback, ReaderInv, Streaming, Closed
  <2>5. LogInv(r)'
    BY <1>0, <1>3 DEF Fallback, LogInv, Streaming
  <2>4. \A q \in Readers \ {r} : ReaderInv(q)' /\ LogInv(q)'
    <3> SUFFICES \A q \in Readers \ {r} : UNCHANGED <<rpc[q], got[q]>>
      BY <1>3, OthersUntouched DEF Fallback
    <3> QED
      BY <1>0, <1>3 DEF Fallback
  <2> QED
    BY <2>2, <2>3, <2>4, <2>5 DEF SInv
<1>4. CASE Receive(r)
  <2>0. /\ got'[r] = Append(got[r], Head(chan[r])) /\ chan'[r] = Tail(chan[r])
        /\ got'[r] \in Seq(Nat) /\ chan'[r] \in Seq(Nat)
        /\ Seen(r)' = Seen(r)
    BY <1>0, <1>4, ReceiveFromChannel DEF Receive, Seen
  <2>1. TypeOK' /\ JobInv'
    BY <1>0, <1>4, <2>0 DEF Receive, TypeOK, JobInv, Kept, Closed
  <2>2. ReaderInv(r)'
    BY <1>0, <1>4 DEF Receive, ReaderInv, Streaming, Closed
  <2>3. LogInv(r)'
    BY <1>0, <1>4, <2>0 DEF Receive, LogInv, Streaming
  <2>4. \A q \in Readers \ {r} : ReaderInv(q)' /\ LogInv(q)'
    <3> SUFFICES \A q \in Readers \ {r} : UNCHANGED <<chan[q], got[q]>>
      BY <1>4, OthersUntouched DEF Receive
    <3> QED
      BY <1>0, <1>4 DEF Receive
  <2> QED
    BY <2>1, <2>2, <2>3, <2>4 DEF SInv
<1>5. CASE End(r) \/ Disconnect(r)
  <2>1. TypeOK' /\ JobInv'
    BY <1>0, <1>5 DEF End, Disconnect, TypeOK, JobInv, Kept, Closed
  <2>2. ReaderInv(r)'
    BY <1>0, <1>5 DEF End, Disconnect, ReaderInv, Streaming, Closed
  <2>3. LogInv(r)'
    BY <1>0, <1>5 DEF End, Disconnect, LogInv, Streaming, Seen
  <2>4. \A q \in Readers \ {r} : ReaderInv(q)' /\ LogInv(q)'
    <3> SUFFICES UNCHANGED <<stage, lines, dropped, lost, subs, shut>>
                 /\ \A q \in Readers \ {r} : UNCHANGED <<chan[q], rpc[q], got[q], looked[q]>>
      BY OthersUntouched
    <3> QED
      BY <1>0, <1>5 DEF End, Disconnect
  <2> QED
    BY <2>1, <2>2, <2>3, <2>4 DEF SInv
<1>6. CASE Unsubscribe(r)
  <2>1. TypeOK' /\ JobInv'
    BY <1>0, <1>6 DEF Unsubscribe, TypeOK, JobInv, Kept, Closed
  <2>2. ReaderInv(r)'
    BY <1>0, <1>6 DEF Unsubscribe, ReaderInv, Streaming, Closed
  <2>3. LogInv(r)'
    BY <1>0, <1>6 DEF Unsubscribe, LogInv, Streaming, Seen
  <2>4. \A q \in Readers \ {r} : ReaderInv(q)' /\ LogInv(q)'
    <3> SUFFICES \A q \in Readers \ {r} : /\ UNCHANGED <<rpc[q]>>
                                          /\ q \in subs' <=> q \in subs
                                          /\ q \in shut' <=> q \in shut
      BY <1>6, OthersUntouched DEF Unsubscribe
    <3> QED
      BY <1>0, <1>6 DEF Unsubscribe
  <2> QED
    BY <2>1, <2>2, <2>3, <2>4 DEF SInv
<1> QED
  BY <1>1, <1>2, <1>3, <1>4, <1>5, <1>6 DEF Handler

LEMMA NextSInv == SInv /\ [Next]_vars => SInv'
<1> SUFFICES ASSUME SInv, [Next]_vars PROVE SInv'
  OBVIOUS
<1>1. CASE Job
  BY <1>1, JobStep
<1>2. ASSUME NEW s \in Streams, Emit(s) \/ WritePartial(s) PROVE SInv'
  BY <1>2 DEF SInv, TypeOK, JobInv, Kept, ReaderInv, LogInv, Streaming, Seen, Closed,
              Emit, WritePartial, Streams, db, buffer, reader, Stages, NotStored, Pruned
<1>6. CASE Database
  <2> USE DEF db, buffer, reader
  <2>1. /\ UNCHANGED <<stage, piped, partial, lost, lines, subs, chan, shut, dropped>>
        /\ UNCHANGED <<rpc, got, looked>>
        /\ stored' \in {stored, Pruned} /\ dbOpen' \in BOOLEAN
    BY <1>6 DEF Database, Prune, CloseStore, SInv, TypeOK
  <2>2. TypeOK' /\ JobInv'
    BY <2>1 DEF SInv, TypeOK, JobInv, Kept, Closed
  <2>3. \A r \in Readers : ReaderInv(r)' /\ LogInv(r)'
    BY <2>1 DEF SInv, ReaderInv, LogInv, Streaming, Seen, Closed
  <2> QED
    BY <2>2, <2>3 DEF SInv
<1>3. CASE \E s \in Streams : WriteLine(s)
  BY <1>3, LineStep
<1>4. CASE \E r \in Readers : Lookup(r) \/ Handler(r) \/ Disconnect(r)
  BY <1>4, HandlerStep
<1>5. CASE UNCHANGED vars
  BY <1>5 DEF SInv, TypeOK, JobInv, Kept, ReaderInv, LogInv, Streaming, Seen, Closed,
              vars, job, db, buffer, reader
<1> QED
  BY <1>1, <1>2, <1>3, <1>4, <1>5, <1>6 DEF Next, Output, Finished

\* The inductive invariant holds in every reachable state.
THEOREM Invariance == Spec => []SInv
<1> QED
  BY InitSInv, NextSInv, PTL DEF Spec

\* The log, the channels and the handlers keep their types.
THEOREM TypeCorrect == Spec => []TypeOK
<1>1. SInv => TypeOK
  BY DEF SInv
<1> QED
  BY <1>1, Invariance, PTL

\* logBuffer.Append never meets a closed channel and no channel is closed twice,
\* neither of which Go survives (logs.go:27, 60, 77).
THEOREM OpenChannels == Spec => []ChannelsInMapAreOpen
<1>1. SInv => ChannelsInMapAreOpen
  BY DEF SInv, TypeOK, ReaderInv, ChannelsInMapAreOpen
<1> QED
  BY <1>1, Invariance, PTL

\* Backlog and channel meet without a gap: a client sees the log in order, without
\* a repetition and without any line but those its full channel refused.
THEOREM InOrder == Spec => []StreamInOrder
<1>1. SInv => StreamInOrder
  BY DEF SInv, LogInv, Streaming, Follows, StreamInOrder
<1> QED
  BY <1>1, Invariance, PTL

\* At the "end" event the client has all its channel took, and the rest has been
\* written to the record, unless that failed or the record is pruned already.
THEOREM CompleteAtEnd == Spec => []EndMeansComplete
<1>1. ASSUME SInv, NEW r \in Readers, rpc[r] \in {"ended", "complete"}
      PROVE  /\ \A n \in 1..lines : n \in dropped[r] \/ \E i \in 1..Len(got[r]) : got[r][i] = n
             /\ Kept
  <2>1. Kept
    BY <1>1 DEF SInv, JobInv, ReaderInv, Streaming, Closed
  <2>2. chan[r] = <<>> /\ got[r] \in Seq(Nat) /\ Follows(got[r] \o chan[r], lines, dropped[r])
    BY <1>1 DEF SInv, TypeOK, LogInv, Streaming, Seen
  <2>3. {got[r][i] : i \in 1..Len(got[r])} = (1..lines) \ dropped[r]
    BY <2>2, ConcatEmptySeq DEF Follows
  <2> QED
    BY <2>1, <2>3
<1>2. SInv => EndMeansComplete
  BY <1>1 DEF EndMeansComplete
<1> QED
  BY <1>2, Invariance, PTL

\* A request that finds the job over and is answered from the record gets the whole log,
\* unless the write of it failed (api/jobs.go:66-76, runner.go:66).
THEOREM WholeLogOnFallback == Spec => []FallbackIsComplete
<1>1. SInv => FallbackIsComplete
  BY DEF SInv, ReaderInv, FallbackIsComplete
<1> QED
  BY <1>1, Invariance, PTL

\* Nobody is left waiting for a log that is closed: who is not in the map of the
\* buffer any more has had its channel closed, and the map is empty by then.
THEOREM NobodyWaits == Spec => []CloseReachesReaders
<1>1. SInv => CloseReachesReaders
  BY DEF SInv, JobInv, ReaderInv, CloseReachesReaders
<1> QED
  BY <1>1, Invariance, PTL
=============================================================================
