----------------------------- MODULE CertHandlers -----------------------------
(***************************************************************************)
(* The certificate handlers: issue, re-issue, renew, renew-all and delete  *)
(* over the acme.sh home, with the removal of what a re-issue replaced.    *)
(*                                                                         *)
(* The home has up to two directories for a name, "x" for an RSA and       *)
(* "x_ecc" for an EC key; the pages and the handlers know a certificate by *)
(* the common name of its leaf alone.  What a directory holds is the       *)
(* serial number of its last issuance, 0 if it does not exist.  A handler  *)
(* looks its certificate up, in the cached list or by a scan, and submits  *)
(* a job; the jobs of one name are not ordered.  JobManager has the detail *)
(* of a job, CertCache that of a scan.                                     *)
(***************************************************************************)
EXTENDS Integers, Sequences, FiniteSets

CONSTANTS Dirs,         \* the directories there may be: <<name, kind of key>>
          CN,           \* the common name of the certificates in each of them
          Place,        \* the place of each in the order of os.ReadDir
          Refused,      \* the names that are no domain (validate.Domain)
          Within,       \* the directories that dirWithin takes for inside the home
          Homes,        \* the sets of directories that may be there at the start
          Readers,      \* the requests that may read the list at a time
          MaxRequests,  \* bound: requests of the operator that lead to a job
          MaxSerial,    \* bound: issuances
          MaxCron,      \* bound: renewals by cron
          MaxDeaths     \* bound: ends of the server process

ASSUME HandlersAssumption ==
  /\ IsFiniteSet(Dirs) /\ \A d \in Dirs : d = <<d[1], d[2]>> /\ d[2] \in {"rsa", "ecc"}
  /\ \A d \in Dirs : Place[d] \in Nat
  /\ Homes \subseteq SUBSET Dirs
  /\ MaxRequests \in Nat /\ MaxSerial \in Nat \ {0} /\ MaxCron \in Nat
  /\ MaxDeaths \in Nat

VARIABLES
  gen,      \* the certificate in each directory
  managed,  \* the directories acme.sh renews
  serial,   \* issuances so far
  list,     \* Handlers.certCache
  look,     \* the requests that are in certs() or have come back from it
  jobs,     \* the jobs in the order of their submission
  deaths,   \* ends of the server process so far
  removed   \* history: the certificates a purge has removed

home == <<gen, managed, serial>>
vars == <<home, list, look, jobs, deaths, removed>>

Content == [Dirs -> 0..MaxSerial]
JobIds  == 1..(2 * MaxRequests)
NoDir   == <<>>
NoList  == <<>>

\* A list, and for the properties the jobs that ran beside the scan it comes from.
List == [certs : Content, over : SUBSET JobIds]

\* A request that reads the list: where it is, the list it has, and for the properties
\* the jobs that were pending when it came and how many there had been.
Lookup == [at : {"scanning", "refreshing", "found"}, certs : Content, over : SUBSET JobIds,
           beside : SUBSET JobIds, since : 0..(2 * MaxRequests)]
Idle == <<>>

\* A job: the directory it is about, whether it purges it, what it replaces and whether
\* that has been left; and for the properties whether it replaces a certificate of its
\* own name, because of a blank, what the handler saw in the directory to remove, the
\* directory the operator meant, the job whose OnDone submitted it, the jobs pending
\* during the request and during the scan it relied on, and what the job made.
Job == [type   : {"issue", "renew", "renew-all", "remove"},
        dir    : Dirs \cup {NoDir},
        purge  : {"no", "asked", "done", "failed"},
        old    : Dirs \cup {NoDir},
        left   : BOOLEAN,
        blank  : BOOLEAN,
        saw    : 0..MaxSerial,
        meant  : Dirs \cup {NoDir},
        by     : 0..(2 * MaxRequests),
        beside : SUBSET JobIds,
        scan   : SUBSET JobIds,
        made   : 0..MaxSerial,
        ok     : BOOLEAN,
        st     : {"queued", "ran", "orphan", "done", "unseen"}]

Init ==
  /\ managed \in Homes
  /\ gen = [d \in Dirs |-> IF d \in managed THEN 1 ELSE 0]
  /\ serial = 1
  /\ list = NoList
  /\ look = [r \in Readers |-> Idle]
  /\ jobs = <<>>
  /\ deaths = 0
  /\ removed = {}

Ids      == DOMAIN jobs
Pending  == {j \in Ids : jobs[j].st \notin {"done", "unseen"}}
Requests == {j \in Ids : jobs[j].by = 0}

MoreToCome == Cardinality(Requests) < MaxRequests

-----------------------------------------------------------------------------
(* Looking a certificate up: certs() reads the cache under its lock, scans *)
(* without it, and stores what it found under it again.                    *)

\* An empty list is never fresh.
Fresh == list # NoList /\ \E d \in Dirs : list.certs[d] > 0

\* A request comes to read the list.  Bound: after the last one that may lead to a
\* job, what the list holds is of no consequence any more.
Comes(r, at, certs, over) ==
  /\ look[r] = Idle /\ MoreToCome
  /\ look' = [look EXCEPT ![r] = [at |-> at, certs |-> certs, over |-> over,
                                  beside |-> Pending, since |-> Len(jobs)]]
  /\ UNCHANGED <<home, list, jobs, deaths, removed>>

\* certs(false), answered from the cache.
Cached(r) == Fresh /\ Comes(r, "found", list.certs, list.over)

\* certs(false) of an old list, and certs(true), which is only ever answered to the page.
BeginScan(r) ==
  \/ ~Fresh /\ Comes(r, "scanning", gen, {})
  \/ Comes(r, "refreshing", gen, {})

Scanning(r) == look[r] # Idle /\ look[r].at \in {"scanning", "refreshing"}
Found(r)    == look[r] # Idle /\ look[r].at = "found"

\* The scan reads a directory it has listed after that has changed.
ReadChanged(r) ==
  /\ Scanning(r)
  /\ \E d \in Dirs : /\ look[r].certs[d] \notin {0, gen[d]}
                     /\ look' = [look EXCEPT ![r].certs[d] = gen[d]]
  /\ UNCHANGED <<home, list, jobs, deaths, removed>>

\* The jobs that were pending at some time since a request came.
During(k) == k.beside \cup (k.since + 1)..Len(jobs)

Store(r) ==
  /\ Scanning(r)
  /\ list' = [certs |-> look[r].certs, over |-> During(look[r])]
  /\ look' = [look EXCEPT ![r] = IF look[r].at = "refreshing" THEN Idle
                                  ELSE [look[r] EXCEPT !.at = "found", !.over = list'.over]]
  /\ UNCHANGED <<home, jobs, deaths, removed>>

\* The home cannot be read: no certificate is found.  A re-issue goes on without one,
\* as IssueCert does; the others are answered with an error.
ScanFails(r) ==
  /\ Scanning(r)
  /\ look' = [look EXCEPT ![r] = Idle]
  /\ UNCHANGED <<home, list, jobs, deaths, removed>>

\* The list is all that was asked for, or the request is refused.
Answer(r) ==
  /\ Found(r)
  /\ look' = [look EXCEPT ![r] = Idle]
  /\ UNCHANGED <<home, list, jobs, deaths, removed>>

\* The list is 30 seconds old.
Expire ==
  /\ list # NoList
  /\ list' = NoList
  /\ UNCHANGED <<home, look, jobs, deaths, removed>>

\* findCert: the first certificate of a name.
FindCert(certs, id) ==
  {d \in Dirs : /\ certs[d] > 0 /\ CN[d] = id
                /\ \A e \in Dirs : certs[e] > 0 /\ CN[e] = id => Place[d] <= Place[e]}

-----------------------------------------------------------------------------
(* The handlers.                                                           *)

NewJob(type, d) ==
  [type |-> type, dir |-> d, purge |-> "no", old |-> NoDir, left |-> FALSE,
   blank |-> FALSE, saw |-> 0, meant |-> NoDir, by |-> 0, beside |-> Pending,
   scan |-> {}, made |-> 0, ok |-> FALSE, st |-> "queued"]

\* A request of the operator, and the job it submits.
Request(job) ==
  /\ MoreToCome
  /\ jobs' = Append(jobs, job)
  /\ UNCHANGED <<home, list, deaths, removed>>

\* One that has looked a certificate up, and one that has not.
RequestOf(r, job) ==
  /\ Request([job EXCEPT !.beside = During(look[r]), !.scan = look[r].over])
  /\ look' = [look EXCEPT ![r] = Idle]

\* POST /api/certs without reissue_of; POST /api/certs/renew-all.
IssueCert(d) == d[1] \notin Refused /\ Request(NewJob("issue", d)) /\ UNCHANGED look
RenewAll     == Request(NewJob("renew-all", NoDir)) /\ UNCHANGED look

\* Mutant: what was found is removed even if the main domain stays.
AlwaysReplaces(d, blank, old) == TRUE

\* A re-issue replaces the certificate found if its name is not the main domain as the
\* request has it; the command, and with it the directory d, has it without blanks.
Replaces(d, blank, old) == blank \/ CN[old] # d[1]

\* The certificate which the operator has opened is in the list of request r, and the
\* handler finds d.
Finds(r, meant, d) ==
  /\ Found(r)
  /\ look[r].certs[meant] > 0
  /\ d \in FindCert(look[r].certs, CN[meant])

\* POST /api/certs with the reissue_of of a wizard opened from a certificate, for a
\* certificate in directory d.
ReissueCert(r, meant, old) ==
  /\ Finds(r, meant, old)
  /\ \E d \in Dirs, blank \in BOOLEAN :
       /\ d[1] \notin Refused
       /\ \/ ~Replaces(d, blank, old) /\ RequestOf(r, NewJob("issue", d))
          \/ /\ Replaces(d, blank, old)
             /\ RequestOf(r, [NewJob("issue", d) EXCEPT
                                !.old = old, !.blank = blank /\ CN[old] = d[1],
                                !.saw = look[r].certs[old], !.meant = meant])

\* POST /api/certs/{id}/renew and force-renew: a name, and no key type.
RenewCert(r, meant, d) ==
  /\ Finds(r, meant, d)
  /\ CN[d] \notin Refused
  /\ RequestOf(r, NewJob("renew", d))

\* DELETE /api/certs/{id}: Remove(MainDomain, Ecc), and PurgeDir if asked for.
DeleteCert(r, meant, d) ==
  /\ Finds(r, meant, d)
  /\ CN[d] \notin Refused
  /\ \E purge \in IF d \in Within THEN {"no", "asked"} ELSE {"no"} :
       RequestOf(r, [NewJob("remove", d) EXCEPT
                      !.purge = purge, !.saw = look[r].certs[d], !.meant = meant])

-----------------------------------------------------------------------------
(* The jobs.                                                               *)

\* The job is done, or if its server died nobody hears of its end.
Over(j) == IF jobs[j].st = "queued" THEN "ran" ELSE "unseen"

\* acme.sh writes new certificates into the directories ds.
Write(ds) ==
  /\ serial < MaxSerial
  /\ serial' = serial + 1
  /\ gen' = [d \in Dirs |-> IF d \in ds THEN serial + 1 ELSE gen[d]]
  /\ managed' = managed \cup ds

\* The directories a renewal may rewrite: acme.sh picks the key type, and renews
\* of all what is due.
Renewable(job) ==
  IF job.type = "renew" THEN {{d} : d \in {e \in managed : e[1] = CN[job.dir]}}
                        ELSE SUBSET managed \ {{}}

\* What acme.sh --remove forgets: the directory of the certificate's name.
Named(d) == <<CN[d], d[2]>>

\* acme.sh ends with status zero.  A job whose server died is not followed up.
Succeed(j) ==
  /\ jobs[j].st \in {"queued", "orphan"}
  /\ \/ /\ jobs[j].type = "issue"
        /\ Write({jobs[j].dir})
     \/ /\ jobs[j].type \in {"renew", "renew-all"}
        /\ \E ds \in Renewable(jobs[j]) : Write(ds)
     \/ /\ jobs[j].type = "remove"
        /\ Named(jobs[j].dir) \in managed
        /\ managed' = managed \ {Named(jobs[j].dir)}
        /\ UNCHANGED <<gen, serial>>
  /\ jobs' = [jobs EXCEPT ![j].st = Over(j), ![j].ok = TRUE,
                          ![j].made = IF serial' > serial THEN serial' ELSE 0]
  /\ UNCHANGED <<list, look, deaths, removed>>

\* Or with another one, without having changed anything.
Fail(j) ==
  /\ jobs[j].st \in {"queued", "orphan"}
  /\ jobs' = [jobs EXCEPT ![j].st = Over(j)]
  /\ UNCHANGED <<home, list, look, deaths, removed>>

\* The directory goes, and with it the domain's .conf.
Erase(d) == gen' = [gen EXCEPT ![d] = 0] /\ managed' = managed \ {d}

\* purgeDir, after a success.
Purge(j) ==
  LET d == jobs[j].dir IN
  /\ jobs[j].st = "ran" /\ jobs[j].ok /\ jobs[j].purge = "asked"
  /\ \/ /\ jobs' = [jobs EXCEPT ![j].purge = "done"]
        /\ Erase(d)
        /\ removed' = removed \cup
             IF gen[d] > 0 THEN {[dir |-> d, gen |-> gen[d], job |-> j]} ELSE {}
     \/ /\ jobs' = [jobs EXCEPT ![j].purge = "failed"]
        /\ UNCHANGED <<gen, managed, removed>>
  /\ UNCHANGED <<serial, list, look, deaths>>

FollowUp(j, purge) ==
  [NewJob("remove", jobs[j].old) EXCEPT
     !.purge = purge, !.saw = jobs[j].saw, !.meant = jobs[j].meant, !.by = j,
     !.beside = Pending \ {j}]

\* Mutant: the follow-up is submitted without its directory.
RemovalKeepingFiles(j) == FollowUp(j, "no")

\* The job by which removeOldCert removes what j has replaced.
RemovalOf(j) == FollowUp(j, IF jobs[j].old \in Within THEN "asked" ELSE "no")

\* Mutant: the status of the re-issue is not looked at.
OwesRemovalAnyway(job) == job.old # NoDir /\ CN[job.old] \notin Refused

\* What a re-issue has replaced goes after its success, if its name can be given to
\* acme.sh.
OwesRemoval(job) == job.ok /\ job.old # NoDir /\ CN[job.old] \notin Refused

\* The job is over and its purge, if any, is done.  The record of a follow-up may fail
\* to be written, and then there is none.
Ends(j) ==
  /\ jobs[j].st = "ran"
  /\ ~(jobs[j].ok /\ jobs[j].purge = "asked")
  /\ \/ ~OwesRemoval(jobs[j]) /\ jobs' = [jobs EXCEPT ![j].st = "done"]
     \/ OwesRemoval(jobs[j]) /\ jobs' = Append([jobs EXCEPT ![j].st = "done"], RemovalOf(j))
     \/ OwesRemoval(jobs[j]) /\ jobs' = [jobs EXCEPT ![j].st = "done", ![j].left = TRUE]

\* Mutant: the list is left to expire.
OnDoneKeepingList(j) == Ends(j) /\ UNCHANGED <<home, list, look, deaths, removed>>

\* OnDone: drop the list, and see to what the job replaced.
OnDone(j) == Ends(j) /\ list' = NoList /\ UNCHANGED <<home, look, deaths, removed>>

-----------------------------------------------------------------------------
(* The world.                                                              *)

CronWrites == serial - 1 - Cardinality({j \in Ids : jobs[j].made > 0})

\* The renewal cron job of acme.sh, which the server does not hear of.
Cron ==
  /\ CronWrites < MaxCron
  /\ \E d \in managed : Write({d})
  /\ UNCHANGED <<list, look, jobs, deaths, removed>>

\* The server stops and starts again: its requests, what it had queued and what it would
\* have done after an acme.sh that is still running are lost.
Restart ==
  /\ deaths < MaxDeaths
  /\ deaths' = deaths + 1
  /\ list' = NoList
  /\ look' = [r \in Readers |-> Idle]
  /\ \E running \in SUBSET {j \in Ids : jobs[j].st = "queued"} :
       jobs' = [j \in Ids |-> [jobs[j] EXCEPT
                  !.st = IF j \in running THEN "orphan"
                         ELSE IF @ \in {"queued", "ran"} THEN "done" ELSE @]]
  /\ UNCHANGED <<home, removed>>

LookStep(r) ==
  \/ Cached(r) \/ BeginScan(r) \/ ReadChanged(r)
  \/ Store(r) \/ ScanFails(r) \/ Answer(r)

FoundStep(r) == \E meant \in Dirs, d \in Dirs :
  RenewCert(r, meant, d) \/ DeleteCert(r, meant, d) \/ ReissueCert(r, meant, d)

JobStep(j) == Succeed(j) \/ Fail(j) \/ Purge(j) \/ OnDone(j)

Next ==
  \/ \E r \in Readers : LookStep(r) \/ FoundStep(r)
  \/ \E d \in Dirs : IssueCert(d)
  \/ RenewAll
  \/ \E j \in Ids : JobStep(j)
  \/ Cron \/ Expire \/ Restart

Spec == Init /\ [][Next]_vars

-----------------------------------------------------------------------------
TypeOK ==
  /\ gen \in Content
  /\ managed \subseteq {d \in Dirs : gen[d] > 0}
  /\ serial \in 1..MaxSerial
  /\ list \in List \cup {NoList}
  /\ look \in [Readers -> Lookup \cup {Idle}]
  /\ jobs \in Seq(Job) /\ Len(jobs) <= 2 * MaxRequests
  /\ deaths \in 0..MaxDeaths
  /\ removed \subseteq [dir : Dirs, gen : 1..MaxSerial, job : Ids]

\* The removal of which r is the result, and the request it goes back to.
Root(r) == IF jobs[r.job].by = 0 THEN r.job ELSE jobs[r.job].by

\* A certificate goes because the operator deleted it with its files, or after its
\* replacement was there, which is of another name unless the request had a blank
\* around its main domain: a re-issue that fails, or that is cut off by a restart,
\* takes nothing away (certs.go:159-167).
NothingLostToFailure ==
  \A r \in removed : LET q == jobs[Root(r)] IN
    \/ q.type = "remove"
    \/ q.type = "issue" /\ q.ok /\ q.made > 0 /\ (CN[r.dir] # q.dir[1] \/ q.blank)

\* What a re-issue made is not what its own clean-up removes, whatever the key
\* types, the cached list and other jobs are (certs.go:160), except for a blank in
\* its request and for a directory whose certificates are of another name.
OwnResultSurvives ==
  \A r \in removed : LET q == jobs[Root(r)] IN
    r.gen = q.made => q.blank \/ CN[r.dir] # r.dir[1]

\* The jobs that were pending at some time together with the request of r or with
\* its follow-up, and those that ran beside the scan on which the request relied.
Overlaps(r, w) ==
  \/ w \in jobs[Root(r)].scan
  \/ \E j \in {Root(r), r.job} : w \in jobs[j].beside \/ (j < w /\ j \in jobs[w].beside)

\* A certificate newer than the one the request saw, and not its own result, is
\* removed only if a job that ran beside the request, its follow-up or the scan behind
\* its list wrote it, or cron did: with one job and one request at a time nothing is
\* lost that the operator did not see (api.go:80-118, certs.go:161).
NewerLostByOverlapOnly ==
  \A r \in removed, w \in Ids :
    w # Root(r) /\ jobs[w].made = r.gen /\ jobs[w].st # "unseen" /\ r.gen > jobs[Root(r)].saw =>
      Overlaps(r, w)

\* Once no job is pending, what a successful re-issue has replaced has had its
\* follow-up, and that has removed the old directory, unless acme.sh or the file system
\* refused, the server stopped, the name is no domain, the directory is not inside the
\* home, or the record of the follow-up could not be written (certs.go:159-189).
ReplacedGoes ==
  Pending = {} /\ deaths = 0 =>
    \A i \in Ids : jobs[i].ok /\ jobs[i].old # NoDir =>
      \/ CN[jobs[i].old] \in Refused \/ jobs[i].left
      \/ \E j \in Ids :
           /\ jobs[j].by = i /\ jobs[j].dir = jobs[i].old
           /\ jobs[j].ok => jobs[j].purge \in {"done", "failed"} \/ jobs[j].dir \notin Within
-----------------------------------------------------------------------------
\* certs.go:78-80: reissue_of names "the certificate this issue replaces", which is
\* removed when the main domain has changed.  Of two certificates of one name the
\* handlers take the first, whichever the operator opened.
RemovedIsMeant ==
  \A r \in removed : r.dir = jobs[r.job].meant
=============================================================================
