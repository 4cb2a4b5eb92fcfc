-------------------------- MODULE CertCache_proofs --------------------------
(***************************************************************************)
(* Proofs about CertCache, for any number of handlers, jobs, certificates  *)
(* and changes: a read that scans shows what the jobs had done that        *)
(* finished before it, and the cache can only lack the work of a finished  *)
(* job when the scan that filled it was overtaken by that job.             *)
(*                                                                         *)
(* The argument follows a scan.  What it has read of a directory is at     *)
(* least what was there when the names were listed, which is at least what *)
(* the jobs had done that had finished by then; only a job that finishes   *)
(* after the listing, and so overtakes the scan, can have done more.       *)
(***************************************************************************)
EXTENDS CertCache, TLAPS

\* The versions v are not behind the versions w.
NotBehind(v, w) == \A c \in Certs : v[c] >= w[c]

\* What a handler has read, and what it answers with.
HandlerInv(h) ==
  /\ NotBehind(finished, due[h])
  /\ pc[h] = "read" => /\ NotBehind(found[h].version, due[h])
                       /\ h \notin overtaken => NotBehind(found[h].version, finished)
  /\ pc[h] = "answered" /\ forced[h] => scanned[h]
  /\ scanned[h] => pc[h] = "answered" /\ NotBehind(answer[h].version, due[h])

CInv ==
  /\ TypeOK
  /\ NotBehind(disk, finished)
  /\ cache.names # {} /\ ~suspect => NotBehind(cache.version, finished)
  /\ \A h \in Handlers : HandlerInv(h)

-----------------------------------------------------------------------------
LEMMA VersionsAreNumbers ==
  ASSUME NEW v \in Versions, NEW c \in Certs
  PROVE  v[c] \in Int
BY CacheAssumption DEF Versions

LEMMA NotBehindReflexive ==
  ASSUME NEW v \in Versions
  PROVE  NotBehind(v, v)
BY VersionsAreNumbers DEF NotBehind

LEMMA NotBehindTransitive ==
  ASSUME NEW u \in Versions, NEW v \in Versions, NEW w \in Versions,
         NotBehind(u, v), NotBehind(v, w)
  PROVE  NotBehind(u, w)
<1> SUFFICES ASSUME NEW c \in Certs PROVE u[c] >= w[c]
  BY DEF NotBehind
<1>1. u[c] \in Int /\ v[c] \in Int /\ w[c] \in Int
  BY VersionsAreNumbers
<1>2. u[c] >= v[c] /\ v[c] >= w[c]
  BY DEF NotBehind
<1> QED
  BY <1>1, <1>2

\* Nothing has happened before the first change.
LEMMA NothingIsBehind ==
  /\ NoChange \in Versions
  /\ NoList \in List
  /\ \A v \in Versions : NotBehind(v, NoChange)
BY CacheAssumption DEF NoChange, NoList, List, Versions, NotBehind

\* A directory that is read is as new as the disk; the others stay as they were.
LEMMA ReadKeepsUp ==
  ASSUME NEW v \in Versions, NEW d \in Versions, NEW w \in Versions, NEW c \in Certs,
         NotBehind(v, w), NotBehind(d, w)
  PROVE  /\ [v EXCEPT ![c] = d[c]] \in Versions
         /\ NotBehind([v EXCEPT ![c] = d[c]], w)
BY DEF Versions, NotBehind

-----------------------------------------------------------------------------
LEMMA InitCInv == Init => CInv
<1> SUFFICES ASSUME Init PROVE CInv
  OBVIOUS
<1>1. TypeOK
  BY NothingIsBehind DEF Init, TypeOK
<1>2. NotBehind(disk, finished)
  BY NothingIsBehind DEF Init
<1>3. cache.names = {}
  BY DEF Init, NoList
<1>4. \A h \in Handlers : HandlerInv(h)
  BY NothingIsBehind DEF Init, HandlerInv
<1> QED
  BY <1>1, <1>2, <1>3, <1>4 DEF CInv

\* acme.sh only moves a directory on.
LEMMA ChangeStep ==
  ASSUME CInv, NEW c \in Certs, Change(c), UNCHANGED <<cached, handler, finished>>,
         jobs' \in [Jobs -> {"idle", "working"}]
  PROVE  CInv'
<1>1. disk \in Versions /\ finished \in Versions /\ NotBehind(disk, finished)
  BY DEF CInv, TypeOK
<1>2. disk' \in Versions /\ NotBehind(disk', disk)
  BY <1>1, CacheAssumption DEF Change, Versions, NotBehind
<1>3. NotBehind(disk', finished)
  BY <1>1, <1>2, NotBehindTransitive
<1>4. TypeOK'
  BY <1>2 DEF CInv, TypeOK, Change, cached, handler
<1>5. \A h \in Handlers : HandlerInv(h)'
  BY DEF CInv, HandlerInv, cached, handler
<1> QED
  BY <1>3, <1>4, <1>5 DEF CInv, cached

\* A job that finishes overtakes every scan that is under way, and empties the cache.
LEMMA FinishStep ==
  ASSUME CInv, NEW j \in Jobs, JobFinishes(j)
  PROVE  CInv'
<1>1. /\ TypeOK /\ NotBehind(disk, finished) /\ finished' = disk
      /\ UNCHANGED <<disk, pc, found, answer, scanned, forced, due>>
      /\ disk \in Versions /\ finished \in Versions /\ due \in [Handlers -> Versions]
  BY DEF CInv, TypeOK, JobFinishes, home
<1>2. TypeOK'
  BY <1>1, NothingIsBehind DEF TypeOK, JobFinishes, home, Scanning
<1>3. NotBehind(disk', finished')
  BY <1>1, NotBehindReflexive
<1>4. cache'.names = {}
  BY DEF JobFinishes, NoList
<1>5. ASSUME NEW h \in Handlers PROVE HandlerInv(h)'
  <2>1. HandlerInv(h) /\ NotBehind(finished, due[h])
    BY DEF CInv, HandlerInv
  <2>2. NotBehind(finished', due'[h])
    BY <1>1, <2>1, NotBehindTransitive
  <2>3. pc'[h] = "read" => h \in overtaken'
    BY <1>1 DEF JobFinishes, Scanning
  <2> QED
    BY <1>1, <2>1, <2>2, <2>3 DEF HandlerInv
<1> QED
  BY <1>2, <1>3, <1>4, <1>5 DEF CInv

\* A step of a handler that leaves the cache and the scans of the others alone.
LEMMA HandlerAlone ==
  ASSUME CInv, NEW h \in Handlers, TypeOK',
         UNCHANGED <<home, jobs, finished>>,
         cache'.names # {} /\ ~suspect' => NotBehind(cache'.version, finished),
         HandlerInv(h)',
         \A g \in Handlers \ {h} :
           /\ UNCHANGED <<pc[g], found[g], answer[g], scanned[g], forced[g], due[g]>>
           /\ g \in overtaken' <=> g \in overtaken
  PROVE  CInv'
<1>1. ASSUME NEW g \in Handlers PROVE HandlerInv(g)'
  <2>1. CASE g = h
    BY <2>1
  <2>2. CASE g # h
    BY <2>2 DEF CInv, HandlerInv
  <2> QED
    BY <2>1, <2>2
<1> QED
  BY <1>1 DEF CInv, home

LEMMA HandlerStep ==
  ASSUME CInv, NEW h \in Handlers,
         (\E force \in BOOLEAN : Read(h, force)) \/ Scan(h) \/ Respond(h)
  PROVE  CInv'
<1>0. /\ TypeOK /\ HandlerInv(h) /\ NotBehind(disk, finished)
      /\ cache.names # {} /\ ~suspect => NotBehind(cache.version, finished)
      /\ disk \in Versions /\ finished \in Versions /\ due \in [Handlers -> Versions]
      /\ due[h] \in Versions
      /\ found \in [Handlers -> List] /\ found[h] \in List /\ found[h].version \in Versions
      /\ answer \in [Handlers -> List] /\ pc \in [Handlers -> {"idle", "list", "read", "answered"}]
      /\ scanned \in [Handlers -> BOOLEAN] /\ forced \in [Handlers -> BOOLEAN]
      /\ todo \in [Handlers -> SUBSET Certs] /\ cache \in List
  BY DEF CInv, TypeOK, List
<1> USE DEF home, cached, handler
<1>1. ASSUME NEW force \in BOOLEAN, Read(h, force) PROVE CInv'
  <2>1. TypeOK'
    BY <1>0, <1>1 DEF Read, TypeOK
  <2>2. HandlerInv(h)'
    <3>1. /\ due'[h] = finished /\ forced'[h] = force /\ pc'[h] \in {"list", "answered"}
          /\ pc'[h] = "answered" => ~force
          /\ UNCHANGED <<finished, scanned>>
      BY <1>0, <1>1 DEF Read, Fresh
    <3>2. NotBehind(finished', due'[h])
      BY <1>0, <3>1, NotBehindReflexive
    <3>3. ~scanned[h]
      BY <1>0, <1>1 DEF Read, HandlerInv
    <3> QED
      BY <3>1, <3>2, <3>3 DEF HandlerInv
  <2>3. \A g \in Handlers \ {h} :
          /\ UNCHANGED <<pc[g], found[g], answer[g], scanned[g], forced[g], due[g]>>
          /\ g \in overtaken' <=> g \in overtaken
    BY <1>0, <1>1 DEF Read
  <2> QED
    BY <1>0, <1>1, <2>1, <2>2, <2>3, HandlerAlone DEF Read
<1>2. CASE ListDirs(h)
  <2>1. found'[h].version = disk /\ pc'[h] = "read"
    BY <1>0, <1>2 DEF ListDirs
  <2>2. TypeOK'
    <3>1. [names |-> {}, version |-> disk] \in List
      BY <1>0 DEF List
    <3> QED
      BY <1>0, <1>2, <3>1 DEF ListDirs, TypeOK
  <2>3. HandlerInv(h)'
    <3>1. NotBehind(finished, due[h]) /\ ~scanned[h]
      BY <1>0, <1>2 DEF HandlerInv, ListDirs
    <3>2. NotBehind(disk, due[h])
      BY <1>0, <3>1, NotBehindTransitive
    <3> QED
      BY <1>0, <1>2, <2>1, <3>1, <3>2 DEF HandlerInv, ListDirs
  <2>4. \A g \in Handlers \ {h} : UNCHANGED <<pc[g], found[g]>>
    BY <1>0, <1>2 DEF ListDirs
  <2> QED
    BY <1>0, <1>2, <2>2, <2>3, <2>4, HandlerAlone DEF ListDirs
<1>3. CASE \E c \in Certs : ReadDir(h, c)
  <2> PICK c \in Certs : ReadDir(h, c)
    BY <1>3
  <2>1. /\ found'[h] = [names   |-> IF c \in present THEN found[h].names \cup {c}
                                    ELSE found[h].names,
                        version |-> [found[h].version EXCEPT ![c] = disk[c]]]
        /\ UNCHANGED <<pc, disk, finished, due, overtaken, forced, scanned, answer, cache, suspect>>
        /\ pc[h] = "read"
    BY <1>0 DEF ReadDir
  <2>2. /\ found[h].version \in Versions
        /\ NotBehind(found[h].version, due[h])
        /\ NotBehind(finished, due[h])
        /\ NotBehind(disk, due[h])
    BY <1>0, <2>1, NotBehindTransitive DEF HandlerInv
  <2> DEFINE v == found[h].version
             read == [v EXCEPT ![c] = disk[c]]
  <2>a. found'[h].version = read
    BY <2>1
  <2>b. v \in Versions /\ disk \in Versions /\ due[h] \in Versions /\ finished \in Versions
    BY <1>0
  <2>c. h \notin overtaken => NotBehind(v, finished)
    BY <1>0, <2>1 DEF HandlerInv
  <2>3. found'[h].version \in Versions /\ NotBehind(found'[h].version, due[h])
    <3>1. read \in Versions /\ NotBehind(read, due[h])
      BY <2>b, <2>2, ReadKeepsUp
    <3> QED
      BY <3>1, <2>a
  <2>4. h \notin overtaken => NotBehind(found'[h].version, finished)
    <3>1. NotBehind(v, finished) => NotBehind(read, finished)
      BY <1>0, <2>b, ReadKeepsUp
    <3> QED
      BY <3>1, <2>a, <2>c
  <2> HIDE DEF v, read
  <2>5. TypeOK'
    <3>1. found'[h] \in List
      BY <1>0, <2>1, <2>3 DEF List
    <3>2. found' \in [Handlers -> List] /\ todo' \in [Handlers -> SUBSET Certs]
      BY <1>0, <3>1 DEF ReadDir
    <3> QED
      BY <1>0, <3>2 DEF ReadDir, TypeOK
  <2>6. HandlerInv(h)'
    BY <1>0, <2>1, <2>2, <2>3, <2>4 DEF HandlerInv
  <2>7. \A g \in Handlers \ {h} : UNCHANGED <<found[g]>>
    BY <1>0 DEF ReadDir
  <2> QED
    BY <1>0, <2>5, <2>6, <2>7, HandlerAlone DEF ReadDir
<1>4. CASE Store(h)
  <2>1. /\ cache' = found[h] /\ suspect' = (h \in overtaken)
        /\ pc[h] = "read" /\ pc'[h] = "answered" /\ answer'[h] = found[h] /\ scanned'[h]
        /\ UNCHANGED <<finished, due, overtaken, forced>>
    BY <1>0, <1>4 DEF Store, Answer
  <2>2. TypeOK'
    BY <1>0, <1>4, NothingIsBehind DEF Store, Answer, TypeOK
  <2>3. HandlerInv(h)'
    BY <1>0, <2>1 DEF HandlerInv
  <2>4. ~suspect' => NotBehind(cache'.version, finished)
    BY <1>0, <2>1 DEF HandlerInv
  <2>5. \A g \in Handlers \ {h} : UNCHANGED <<pc[g], found[g], answer[g], scanned[g]>>
    BY <1>0, <1>4 DEF Store, Answer
  <2> QED
    BY <1>0, <1>4, <2>2, <2>3, <2>4, <2>5, HandlerAlone DEF Store, Answer
<1>5. CASE Forget(h)
  <2>1. TypeOK'
    BY <1>0, <1>5, NothingIsBehind DEF Forget, TypeOK
  <2>2. HandlerInv(h)'
    BY <1>0, <1>5, NothingIsBehind DEF Forget, HandlerInv
  <2>3. \A g \in Handlers \ {h} :
          /\ UNCHANGED <<pc[g], answer[g], scanned[g], forced[g], due[g]>>
          /\ g \in overtaken' <=> g \in overtaken
    BY <1>0, <1>5 DEF Forget
  <2> QED
    BY <1>0, <1>5, <2>1, <2>2, <2>3, HandlerAlone DEF Forget
<1> QED
  BY <1>1, <1>2, <1>3, <1>4, <1>5 DEF Scan, ListFails, Respond

LEMMA NextCInv == CInv /\ [Next]_vars => CInv'
<1> SUFFICES ASSUME CInv, [Next]_vars PROVE CInv'
  OBVIOUS
<1>1. ASSUME NEW c \in Certs, Cron(c) PROVE CInv'
  BY <1>1, ChangeStep DEF Cron, CInv, TypeOK
<1>2. ASSUME NEW c \in Certs, NEW j \in Jobs, JobWorks(j, c) PROVE CInv'
  BY <1>2, ChangeStep DEF JobWorks, CInv, TypeOK
<1>3. ASSUME NEW j \in Jobs, JobFinishes(j) PROVE CInv'
  BY <1>3, FinishStep
<1>4. ASSUME NEW h \in Handlers,
             (\E force \in BOOLEAN : Read(h, force)) \/ Scan(h) \/ Respond(h)
      PROVE  CInv'
  BY <1>4, HandlerStep
<1>5. CASE Expire
  BY <1>5 DEF Expire, CInv, TypeOK, HandlerInv, home, handler
<1>6. CASE UNCHANGED vars
  BY <1>6 DEF vars, CInv, TypeOK, HandlerInv, home, cached, handler
<1> QED
  BY <1>1, <1>2, <1>3, <1>4, <1>5, <1>6 DEF Next

\* The inductive invariant holds in every reachable state.
THEOREM Invariance == Spec => []CInv
<1> QED
  BY InitCInv, NextCInv, PTL DEF Spec

\* The cache, the scans and the answers keep their types.
THEOREM TypeCorrect == Spec => []TypeOK
<1>1. CInv => TypeOK
  BY DEF CInv
<1> QED
  BY <1>1, Invariance, PTL

\* A read that scans shows what had been done by every job that had finished when it
\* began, and a read that is told to scan does (api.go:79-96).
THEOREM ScanShows == Spec => []ScanShowsFinishedJobs
<1>1. CInv => ScanShowsFinishedJobs
  BY DEF CInv, HandlerInv, NotBehind, ScanShowsFinishedJobs, Shows
<1> QED
  BY <1>1, Invariance, PTL

\* The cache lacks the work of a finished job only if its scan was under way when that
\* job dropped the cache (api.go:91, 99-104).
THEOREM StaleByOverlap == Spec => []StaleOnlyByOverlap
<1>1. CInv => StaleOnlyByOverlap
  BY DEF CInv, NotBehind, StaleOnlyByOverlap, Shows
<1> QED
  BY <1>1, Invariance, PTL

-----------------------------------------------------------------------------
(* The stale lists a job leaves behind.                                     *)

\* A scan that begins, or goes on, has nothing older to show than what is done.
LEMMA DiskIsDone ==
  ASSUME CInv, NEW c \in Certs, NEW v \in 1..MaxVersion, finished[c] >= v
  PROVE  disk[c] >= v
<1>1. disk[c] \in Int /\ finished[c] \in Int /\ disk[c] >= finished[c]
  BY VersionsAreNumbers DEF CInv, TypeOK, NotBehind
<1>2. v \in Int
  BY CacheAssumption
<1> QED
  BY <1>1, <1>2

LEMMA NoNewLaggard ==
  ASSUME CInv, [Next]_vars, NEW c \in Certs, NEW v \in 1..MaxVersion, finished[c] >= v,
         NEW h \in Handlers, pc'[h] = "read", found'[h].version[c] < v
  PROVE  pc[h] = "read" /\ found[h].version[c] < v
<1>0. /\ disk[c] >= v /\ v \in Int
      /\ found \in [Handlers -> List] /\ pc \in [Handlers -> {"idle", "list", "read", "answered"}]
      /\ found[h].version \in Versions /\ disk[c] \in Int
  BY DiskIsDone, CacheAssumption, VersionsAreNumbers DEF CInv, TypeOK, List
<1> USE DEF home, cached, handler
<1>1. ASSUME UNCHANGED <<pc, found>>
      PROVE  pc[h] = "read" /\ found[h].version[c] < v
  BY <1>1
<1>2. ASSUME NEW d \in Certs, Cron(d) \/ \E j \in Jobs : JobWorks(j, d)
      PROVE  UNCHANGED <<pc, found>>
  BY <1>2 DEF Cron, JobWorks
<1>3. ASSUME NEW j \in Jobs, JobFinishes(j) PROVE UNCHANGED <<pc, found>>
  BY <1>3 DEF JobFinishes
<1>4. ASSUME NEW g \in Handlers, NEW force \in BOOLEAN, Read(g, force)
      PROVE  pc[h] = "read" /\ found[h].version[c] < v
  BY <1>0, <1>4 DEF Read
<1>5. ASSUME NEW g \in Handlers, ListDirs(g)
      PROVE  pc[h] = "read" /\ found[h].version[c] < v
  <2>1. CASE g = h
    <3>1. found'[h].version = disk
      BY <1>0, <1>5, <2>1 DEF ListDirs
    <3> QED
      BY <1>0, <3>1
  <2> QED
    BY <1>0, <1>5, <2>1 DEF ListDirs
<1>6. ASSUME NEW g \in Handlers, NEW d \in Certs, ReadDir(g, d)
      PROVE  pc[h] = "read" /\ found[h].version[c] < v
  <2>1. CASE g = h
    <3>1. found'[h].version = [found[h].version EXCEPT ![d] = disk[d]] /\ pc[h] = "read"
      BY <1>0, <1>6, <2>1 DEF ReadDir
    <3>2. found'[h].version[c] = IF d = c THEN disk[c] ELSE found[h].version[c]
      BY <1>0, <3>1 DEF Versions
    <3> QED
      BY <1>0, <3>1, <3>2
  <2> QED
    BY <1>0, <1>6, <2>1 DEF ReadDir
<1>7. ASSUME NEW g \in Handlers, Store(g) \/ ListFails(g) \/ Respond(g)
      PROVE  pc[h] = "read" /\ found[h].version[c] < v
  BY <1>0, <1>7 DEF Store, Answer, ListFails, Respond, Forget
<1>8. CASE Expire \/ UNCHANGED vars
  BY <1>8, <1>1 DEF Expire, vars
<1> QED
  BY <1>1, <1>2, <1>3, <1>4, <1>5, <1>6, <1>7, <1>8 DEF Next, Scan

\* A stale list comes from a laggard that has ended with it.
LEMMA NewStaleList ==
  ASSUME CInv, [Next]_vars, NEW c \in Certs, NEW v \in 1..MaxVersion, Stale(c, v)', ~Stale(c, v)
  PROVE  \E h \in Handlers : h \in Lagging(c, v) /\ h \notin Lagging(c, v)'
<1>1. ASSUME NEW h \in Handlers, Store(h)
      PROVE  h \in Lagging(c, v) /\ h \notin Lagging(c, v)'
  <2>1. /\ cache' = found[h] /\ pc[h] = "read"
        /\ pc' = [pc EXCEPT ![h] = "answered"]
    BY <1>1 DEF Store, Answer
  <2>2. pc'[h] = "answered"
    BY <2>1 DEF CInv, TypeOK
  <2> QED
    BY <2>1, <2>2 DEF Stale, Lagging
<1>2. ASSUME NEW j \in Jobs, JobFinishes(j) PROVE FALSE
  BY <1>2 DEF JobFinishes, NoList, Stale
<1>3. (\E h \in Handlers : Store(h)) \/ (\E j \in Jobs : JobFinishes(j)) \/ cache' = cache
  BY DEF Next, Scan, Cron, JobWorks, Read, ListDirs, ReadDir, ListFails, Respond, Forget,
         Expire, vars, cached
<1>4. cache' # cache
  BY DEF Stale
<1> QED
  BY <1>1, <1>2, <1>3, <1>4

\* A job leaves no more stale lists behind than the scans that it overtook, since a
\* later one shows what it did (api.go:79-97).
THEOREM StaleRunsOut == Spec => StaleListsRunOut
<1>1. ASSUME CInv, [Next]_vars
      PROVE  \A c \in Certs, v \in 1..MaxVersion : finished[c] >= v =>
               /\ Lagging(c, v)' \subseteq Lagging(c, v)
               /\ Stale(c, v)' => Stale(c, v) \/ Lagging(c, v)' # Lagging(c, v)
  <2> SUFFICES ASSUME NEW c \in Certs, NEW v \in 1..MaxVersion, finished[c] >= v
               PROVE  /\ Lagging(c, v)' \subseteq Lagging(c, v)
                      /\ Stale(c, v)' => Stale(c, v) \/ Lagging(c, v)' # Lagging(c, v)
    OBVIOUS
  <2>1. Lagging(c, v)' \subseteq Lagging(c, v)
    BY <1>1, NoNewLaggard DEF Lagging
  <2> QED
    BY <1>1, <2>1, NewStaleList
<1> QED
  BY <1>1, Invariance, PTL DEF Spec, StaleListsRunOut
=============================================================================
