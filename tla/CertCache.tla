------------------------------ MODULE CertCache ------------------------------
(***************************************************************************)
(* The certificate list: internal/api caches what internal/acme finds in   *)
(* the acme.sh home.  A handler is served from the cache while it is less  *)
(* than 30 seconds old, and scans otherwise, outside of the lock; a job    *)
(* that has finished drops the cache.  acme.sh changes the home under a    *)
(* running scan, as a job of this server or on its own (cron).             *)
(*                                                                         *)
(* The content of a certificate directory is a version number that every   *)
(* change, removal included, increases.                                    *)
(***************************************************************************)
EXTENDS Integers, FiniteSets

CONSTANTS Handlers,    \* HTTP requests that read the certificate list
          Jobs,        \* jobs of this server that may run side by side
          Certs,       \* the domain directories of the acme.sh home
          MaxVersion   \* bound: changes per certificate

ASSUME CacheAssumption == /\ IsFiniteSet(Handlers) /\ IsFiniteSet(Jobs)
                          /\ IsFiniteSet(Certs)
                          /\ MaxVersion \in Nat

VARIABLES
  disk,       \* the version of each directory
  present,    \* the directories that exist
  jobs,       \* idle or working on a certificate
  cache,      \* Handlers.certCache, NoList for nil
  fresh,      \* scannedAt is less than 30 seconds ago
  pc,         \* where each handler is
  todo,       \* its scan: directories listed and not read yet
  found,      \* its scan: what was read so far
  answer,     \* the list it works with once it has it
  scanned,    \* history: that list came from its own scan
  forced,     \* the read was asked to scan (POST /api/scan)
  due,        \* history: what finished jobs had done when the handler started
  finished,   \* history: what had been done when the last job finished
  overtaken,  \* history: the handlers during whose scan a job finished
  suspect     \* history: the cached list is from such a scan

home    == <<disk, present>>
cached  == <<cache, fresh, suspect>>
handler == <<pc, todo, found, answer, scanned, forced, due, overtaken>>
vars    == <<home, jobs, cached, handler, finished>>

Versions == [Certs -> 0..MaxVersion]
NoChange == [c \in Certs |-> 0]
List     == [names : SUBSET Certs, version : Versions]
NoList   == [names |-> {}, version |-> NoChange]

Init ==
  /\ disk = NoChange
  /\ present \in SUBSET Certs
  /\ jobs = [j \in Jobs |-> "idle"]
  /\ cache = NoList
  /\ fresh = FALSE
  /\ pc = [h \in Handlers |-> "idle"]
  /\ todo = [h \in Handlers |-> {}]
  /\ found = [h \in Handlers |-> NoList]
  /\ answer = [h \in Handlers |-> NoList]
  /\ scanned = [h \in Handlers |-> FALSE]
  /\ forced = [h \in Handlers |-> FALSE]
  /\ due = [h \in Handlers |-> NoChange]
  /\ finished = NoChange
  /\ overtaken = {}
  /\ suspect = FALSE

-----------------------------------------------------------------------------
(* acme.sh.                                                                *)

\* A directory is created, rewritten or removed.
Change(c) ==
  /\ disk[c] < MaxVersion
  /\ disk' = [disk EXCEPT ![c] = @ + 1]
  /\ \/ present' = present \cup {c}
     \/ c \in present /\ present' = present \ {c}

\* By the renewal cron job, which the server does not hear of.
Cron(c) ==
  /\ Change(c)
  /\ UNCHANGED <<jobs, cached, handler, finished>>

\* By a job of this server.
JobWorks(j, c) ==
  /\ jobs[j] = "idle"
  /\ jobs' = [jobs EXCEPT ![j] = "working"]
  /\ Change(c)
  /\ UNCHANGED <<cached, handler, finished>>

Scanning == {h \in Handlers : pc[h] \in {"list", "read"}}

\* Mutant: the cache is left to expire.
JobFinishesKeepingList(j) ==
  /\ jobs[j] = "working"
  /\ jobs' = [jobs EXCEPT ![j] = "idle"]
  /\ finished' = disk
  /\ overtaken' = Scanning
  /\ UNCHANGED <<home, cached, pc, todo, found, answer, scanned, forced, due>>

\* OnDone: invalidateCerts.
JobFinishes(j) ==
  /\ jobs[j] = "working"
  /\ jobs' = [jobs EXCEPT ![j] = "idle"]
  /\ cache' = NoList
  /\ fresh' = FALSE
  /\ suspect' = FALSE
  /\ finished' = disk
  /\ overtaken' = Scanning
  /\ UNCHANGED <<home, pc, todo, found, answer, scanned, forced, due>>

-----------------------------------------------------------------------------
(* certs(force).                                                           *)

\* Mutant: a forced read is served from the cache as well.
FreshEvenIfForced(force) == fresh /\ cache.names # {}

\* A nil list, which is also what the scan of an empty home returns, is never
\* fresh.
Fresh(force) == ~force /\ fresh /\ cache.names # {}

\* Under the read lock: decide, and take the list if it is fresh.
Read(h, force) ==
  /\ pc[h] = "idle"
  /\ due' = [due EXCEPT ![h] = finished]
  /\ forced' = [forced EXCEPT ![h] = force]
  /\ \/ /\ Fresh(force)
        /\ pc' = [pc EXCEPT ![h] = "answered"]
        /\ answer' = [answer EXCEPT ![h] = cache]
     \/ /\ ~Fresh(force)
        /\ pc' = [pc EXCEPT ![h] = "list"]
        /\ UNCHANGED answer
  /\ UNCHANGED <<home, jobs, cached, todo, found, scanned, overtaken, finished>>

\* Mutant: a scan begins with what the cached list says of the directories.
ListDirsFromCache(h) ==
  /\ pc[h] = "list"
  /\ pc' = [pc EXCEPT ![h] = "read"]
  /\ todo' = [todo EXCEPT ![h] = present]
  /\ found' = [found EXCEPT ![h] = cache]
  /\ UNCHANGED <<home, jobs, cached, answer, scanned, forced, due, overtaken,
                 finished>>

\* os.ReadDir: the names that exist now; the others are not looked at again.
ListDirs(h) ==
  /\ pc[h] = "list"
  /\ pc' = [pc EXCEPT ![h] = "read"]
  /\ todo' = [todo EXCEPT ![h] = present]
  /\ found' = [found EXCEPT ![h] = [names |-> {}, version |-> disk]]
  /\ UNCHANGED <<home, jobs, cached, answer, scanned, forced, due, overtaken,
                 finished>>

\* The handler is done with: it has answered, or Scan failed, which leaves the
\* cache as it is.
Forget(h) ==
  /\ pc' = [pc EXCEPT ![h] = "idle"]
  /\ answer' = [answer EXCEPT ![h] = NoList]
  /\ scanned' = [scanned EXCEPT ![h] = FALSE]
  /\ forced' = [forced EXCEPT ![h] = FALSE]
  /\ due' = [due EXCEPT ![h] = NoChange]
  /\ overtaken' = overtaken \ {h}
  /\ UNCHANGED <<home, jobs, cached, todo, found, finished>>

ListFails(h) == pc[h] = "list" /\ Forget(h)
Respond(h)   == pc[h] = "answered" /\ Forget(h)

\* scanDomainDir: a directory that has gone since it was listed is skipped.
ReadDir(h, c) ==
  /\ pc[h] = "read"
  /\ c \in todo[h]
  /\ todo' = [todo EXCEPT ![h] = @ \ {c}]
  /\ found' = [found EXCEPT ![h] =
       [names   |-> IF c \in present THEN @.names \cup {c} ELSE @.names,
        version |-> [@.version EXCEPT ![c] = disk[c]]]]
  /\ UNCHANGED <<home, jobs, cached, pc, answer, scanned, forced, due,
                 overtaken, finished>>

\* The handler has its own list.
Answer(h) ==
  /\ pc' = [pc EXCEPT ![h] = "answered"]
  /\ answer' = [answer EXCEPT ![h] = found[h]]
  /\ found' = [found EXCEPT ![h] = NoList]
  /\ scanned' = [scanned EXCEPT ![h] = TRUE]
  /\ UNCHANGED <<home, jobs, todo, forced, due, overtaken, finished>>

\* Mutant: the first list wins.
StoreIfNil(h) ==
  /\ pc[h] = "read"
  /\ todo[h] = {}
  /\ cache' = IF cache.names = {} THEN found[h] ELSE cache
  /\ fresh' = TRUE
  /\ suspect' = (h \in overtaken)
  /\ Answer(h)

\* Under the write lock: store the list and the time, and answer with it.
Store(h) ==
  /\ pc[h] = "read"
  /\ todo[h] = {}
  /\ cache' = found[h]
  /\ fresh' = TRUE
  /\ suspect' = (h \in overtaken)
  /\ Answer(h)

\* Thirty seconds have passed since the list was stored.
Expire ==
  /\ fresh
  /\ fresh' = FALSE
  /\ UNCHANGED <<home, jobs, cache, suspect, handler, finished>>

-----------------------------------------------------------------------------

Scan(h) == \/ ListDirs(h) \/ ListFails(h) \/ Store(h)
           \/ \E c \in Certs : ReadDir(h, c)

Next ==
  \/ \E c \in Certs : Cron(c) \/ \E j \in Jobs : JobWorks(j, c)
  \/ \E j \in Jobs : JobFinishes(j)
  \/ \E h \in Handlers : \/ \E force \in BOOLEAN : Read(h, force)
                         \/ Scan(h)
                         \/ Respond(h)
  \/ Expire

Spec == Init /\ [][Next]_vars

\* Time passes, so that a list expires unless another replaces it before, and a
\* scan that has begun comes to its end.
FairSpec == /\ Spec
            /\ WF_vars(Expire \/ \E h \in Handlers : Store(h))
            /\ \A h \in Handlers : WF_vars(Scan(h))

-----------------------------------------------------------------------------
TypeOK ==
  /\ disk \in Versions
  /\ present \subseteq Certs
  /\ jobs \in [Jobs -> {"idle", "working"}]
  /\ cache \in List
  /\ fresh \in BOOLEAN
  /\ pc \in [Handlers -> {"idle", "list", "read", "answered"}]
  /\ todo \in [Handlers -> SUBSET Certs]
  /\ found \in [Handlers -> List]
  /\ answer \in [Handlers -> List]
  /\ scanned \in [Handlers -> BOOLEAN]
  /\ forced \in [Handlers -> BOOLEAN]
  /\ due \in [Handlers -> Versions]
  /\ finished \in Versions
  /\ overtaken \subseteq Handlers
  /\ suspect \in BOOLEAN

\* v is a list that shows at least the versions w.
Shows(v, w) == \A c \in Certs : v.version[c] >= w[c]

\* A read that scans, and so every forced one, shows what the jobs did that had
\* finished when it began, however the scan interleaves with acme.sh and with
\* other scans (api.go:79-96).
ScanShowsFinishedJobs ==
  \A h \in Handlers : pc[h] = "answered" /\ (scanned[h] \/ forced[h]) =>
    Shows(answer[h], due[h])

\* A list that can be served lacks the changes of a finished job only if the scan
\* that produced it was already under way when that job dropped the cache: no
\* other interleaving of readers and jobs leaves a stale list behind (api.go:91,
\* 99-104).
StaleOnlyByOverlap ==
  cache.names # {} /\ ~suspect => Shows(cache, finished)

\* The scans under way that have read a directory as it was before change v, and
\* whether the list in the cache is like that.
Lagging(c, v) == {h \in Handlers : pc[h] = "read" /\ found[h].version[c] < v}

Stale(c, v) == cache.names # {} /\ cache.version[c] < v

\* Once a job is over, a list that lacks what it did gets into the cache only by the
\* end of a scan that was under way then, and no further scan is of that kind: the
\* stale lists a job can leave behind are no more than the scans that it overtook
\* (api.go:79-97).
StaleListsRunOut ==
  [][\A c \in Certs, v \in 1..MaxVersion : finished[c] >= v =>
       /\ Lagging(c, v)' \subseteq Lagging(c, v)
       /\ Stale(c, v)' => Stale(c, v) \/ Lagging(c, v)' # Lagging(c, v)]_vars

\* What a job did is in every list the cache can serve from some moment on: a
\* stale list survives one expiry at most (api.go:81).
ServedEventually ==
  \A c \in Certs, v \in 1..MaxVersion :
    finished[c] >= v ~> [](fresh /\ cache.names # {} => cache.version[c] >= v)

=============================================================================
