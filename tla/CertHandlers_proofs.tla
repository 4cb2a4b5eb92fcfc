------------------------- MODULE CertHandlers_proofs -------------------------
(***************************************************************************)
(* Proofs about CertHandlers, for any directories, any number of requests, *)
(* issuances, renewals by cron and restarts: what a removal may take away, *)
(* and that what a re-issue replaced goes.                                 *)
(*                                                                         *)
(* The invariant ties a removal that a re-issue has submitted to the job   *)
(* that submitted it, and says of a job which others it has run beside:    *)
(* an earlier one that was not pending when it was submitted is over for   *)
(* good.  What such a job has written, a request that came after it has    *)
(* seen in its list, or the job ran beside the scan the list comes from:   *)
(* a list that was there when the job ended was dropped, and a request     *)
(* that had one in its hands then, or a scan under way, ran beside it.     *)
(***************************************************************************)
EXTENDS CertHandlers, FiniteSetTheorems, SequenceTheorems, TLAPS

\* The job is over, whoever heard of it.
Closed(x) == x.st \in {"done", "unseen"}

\* What holds of each job when s certificates have been issued.
JobOK(x, s) ==
  /\ x.type \in {"issue", "remove"} => x.dir \in Dirs
  /\ x.old # NoDir => /\ x.type = "issue" /\ x.by = 0
                      /\ CN[x.old] # x.dir[1] \/ x.blank
  /\ x.purge # "no" => x.type = "remove"
  /\ x.ok \/ x.made > 0 => x.st \notin {"queued", "orphan"}
  /\ x.type = "issue" /\ x.ok => x.made > 0
  /\ x.type = "remove" => x.made = 0
  /\ x.made <= s

\* A follow-up removes what the job it follows has replaced, after that job's success,
\* with its directory if that may be purged, and was submitted when that job was
\* pending still.
FollowOK(js, k) ==
  LET i == js[k].by IN
  i # 0 =>
    /\ i \in 1..(k - 1) /\ js[k].type = "remove"
    /\ js[k].purge = "no" => js[k].dir \notin Within
    /\ js[i].st = "done" /\ js[i].ok /\ js[i].old = js[k].dir
    /\ \A w \in (i + 1)..(k - 1) : i \in js[w].beside

\* The earlier jobs beside which job k was not submitted are over.
BesideOK(js, k) == \A w \in 1..(k - 1) : w \in js[k].beside \/ Closed(js[w])

OneFollowUp(js) ==
  \A k, l \in DOMAIN js : js[k].by = js[l].by /\ js[k].by # 0 => k = l

RequestsOf(js) == {k \in DOMAIN js : js[k].by = 0}

JobsInv(js, s) ==
  /\ js \in Seq(Job)
  /\ Cardinality(RequestsOf(js)) <= MaxRequests
  /\ OneFollowUp(js)
  /\ \A k \in DOMAIN js : JobOK(js[k], s) /\ FollowOK(js, k) /\ BesideOK(js, k)

\* As long as the server has not died, every job is seen to its end.
SeenOK(js, k) ==
  /\ js[k].st \notin {"orphan", "unseen"}
  /\ js[k].st = "done" /\ js[k].ok =>
       /\ js[k].purge # "asked"
       /\ js[k].old # NoDir => \/ CN[js[k].old] \in Refused \/ js[k].left
                               \/ \E f \in DOMAIN js : js[f].by = k

\* What an issue has made is in its directory or nowhere.
WrittenOK(js, g) ==
  \A w \in DOMAIN js, d \in Dirs :
    js[w].type = "issue" /\ js[w].made > 0 /\ g[d] = js[w].made => d = js[w].dir

\* The certificates certs of a list are not behind what the jobs have made that are
\* done, but for those in except.
Knows(js, g, certs, except) ==
  \A w \in DOMAIN js, d \in Dirs :
    w \notin except /\ js[w].st = "done" /\ js[w].made > 0 /\ g[d] = js[w].made
      => js[w].made <= certs[d]

\* The cached list may lack what ran beside its scan.
ListOK(js, g, l) == l # NoList => Knows(js, g, l.certs, l.over)

\* The jobs pending at some time since request k came.
Window(js, k) == k.beside \cup (k.since + 1)..Len(js)

\* So may the one in the hands of a request, which besides may lack what has run since.
LookOK(js, g, k) ==
  k # Idle =>
    /\ k.since <= Len(js) /\ (k.at # "found" => k.over = {})
    /\ Knows(js, g, k.certs, Window(js, k) \cup k.over)
    /\ \A w \in DOMAIN js : w \in Window(js, k) \/ Closed(js[w])

\* The directory that a request is about to have removed.
Target(x) == IF x.type = "remove" THEN x.dir ELSE x.old

\* A request has seen what the earlier jobs have made that were over when it came, and
\* when the scan it relied on began.
SawOK(js, g) ==
  \A k \in DOMAIN js : \A w \in 1..(k - 1) :
    /\ js[k].by = 0 /\ Target(js[k]) \in Dirs
    /\ w \notin js[k].beside /\ w \notin js[k].scan /\ js[w].st # "unseen"
    /\ g[Target(js[k])] = js[w].made
    => js[w].made <= js[k].saw

RootIn(js, r) == IF js[r.job].by = 0 THEN r.job ELSE js[r.job].by

Meets(js, j, w) == w \in js[j].beside \/ (j < w /\ j \in js[w].beside)

\* What was removed, by which job, and whose work it may have been.
RemovedOK(js, r) ==
  /\ r.job \in DOMAIN js /\ js[r.job].type = "remove" /\ js[r.job].dir = r.dir
  /\ \A w \in DOMAIN js : js[w].made = r.gen =>
       /\ js[w].type = "issue" => js[w].dir = r.dir
       /\ w # RootIn(js, r) /\ js[w].st # "unseen" /\ r.gen > js[RootIn(js, r)].saw =>
            \/ Meets(js, r.job, w) \/ Meets(js, RootIn(js, r), w)
            \/ w \in js[RootIn(js, r)].scan

HomeOK ==
  /\ gen \in Content /\ serial \in 1..MaxSerial
  /\ managed \subseteq {d \in Dirs : gen[d] > 0}
  /\ \A d \in Dirs : gen[d] <= serial

\* Jobs js in a home g of which s certificates were issued, with a list l, and what
\* was removed from it.
Core(js, g, s, l, gone) ==
  /\ JobsInv(js, s) /\ WrittenOK(js, g) /\ ListOK(js, g, l) /\ SawOK(js, g)
  /\ gone \subseteq [dir : Dirs, gen : 1..MaxSerial, job : Nat]
  /\ \A r \in gone : r.gen <= s /\ RemovedOK(js, r)

HInv ==
  /\ HomeOK
  /\ list \in List \cup {NoList}
  /\ look \in [Readers -> Lookup \cup {Idle}]
  /\ deaths \in 0..MaxDeaths
  /\ Core(jobs, gen, serial, list, removed)
  /\ \A r \in Readers : LookOK(jobs, gen, look[r])
  /\ deaths = 0 => \A k \in Ids : SeenOK(jobs, k)

-----------------------------------------------------------------------------
(* The number of jobs.                                                     *)

\* Jobs of which each follows another that follows none, no two the same, are at most
\* twice as many as those that follow none.
LEMMA AtMostTwice ==
  ASSUME NEW n \in Nat, NEW m \in Nat, NEW by,
         \A k \in 1..n : by[k] # 0 => by[k] \in 1..n /\ by[by[k]] = 0,
         \A k, l \in 1..n : by[k] = by[l] /\ by[k] # 0 => k = l,
         Cardinality({k \in 1..n : by[k] = 0}) <= m
  PROVE  n <= 2 * m
<1> DEFINE Z == {k \in 1..n : by[k] = 0}
           F == {k \in 1..n : by[k] # 0}
           follows == [k \in F |-> by[k]]
<1>1. IsFiniteSet(1..n) /\ Cardinality(1..n) = n
  BY FS_Interval
<1>2. IsFiniteSet(Z) /\ IsFiniteSet(F) /\ Cardinality(Z) \in Nat /\ Cardinality(F) \in Nat
  BY <1>1, FS_Subset, FS_CardinalityType
<1>3. follows \in Injection(F, Z)
  <2>1. follows \in [F -> Z]
    OBVIOUS
  <2>2. \A k, l \in F : follows[k] = follows[l] => k = l
    OBVIOUS
  <2> QED
    BY <2>1, <2>2 DEF Injection, IsInjective
<1>4. Cardinality(F) <= Cardinality(Z)
  BY <1>2, <1>3, FS_Injection DEF ExistsInjection
<1>5. Z \cup F = 1..n /\ Z \cap F = {}
  OBVIOUS
<1>6. Cardinality(1..n) = Cardinality(Z) + Cardinality(F)
  <2> HIDE DEF Z, F
  <2>1. Cardinality(Z \cup F) = Cardinality(Z) + Cardinality(F) - Cardinality(Z \cap F)
    BY <1>2, FS_Union
  <2>2. Cardinality(Z \cap F) = 0
    BY <1>5, FS_EmptySet
  <2>3. Cardinality(1..n) = Cardinality(Z \cup F)
    BY <1>5
  <2> QED
    BY <1>2, <2>1, <2>2, <2>3
<1>7. Cardinality(Z) <= m
  OBVIOUS
<1> HIDE DEF Z, F
<1> QED
  BY <1>1, <1>2, <1>4, <1>6, <1>7

LEMMA LenBound ==
  ASSUME NEW s \in Nat, NEW js, JobsInv(js, s)
  PROVE  Len(js) \in 0..(2 * MaxRequests) /\ DOMAIN js = 1..Len(js)
<1> DEFINE by == [k \in 1..Len(js) |-> js[k].by]
<1>1. js \in Seq(Job) /\ Len(js) \in Nat /\ DOMAIN js = 1..Len(js)
  BY DEF JobsInv
<1>2. \A k \in 1..Len(js) : by[k] # 0 => by[k] \in 1..Len(js) /\ by[by[k]] = 0
  <2> SUFFICES ASSUME NEW k \in 1..Len(js), js[k].by # 0
               PROVE  js[k].by \in 1..Len(js) /\ js[js[k].by].by = 0
    BY <1>1
  <2>1. js[k].by \in 1..(k - 1) /\ js[js[k].by].old = js[k].dir /\ js[k].dir \in Dirs
    BY <1>1 DEF JobsInv, FollowOK, JobOK
  <2>2. js[k].by \in DOMAIN js
    BY <1>1, <2>1
  <2>3. js[k].dir # NoDir
    BY <2>1, HandlersAssumption DEF NoDir
  <2> QED
    BY <1>1, <2>1, <2>2, <2>3 DEF JobsInv, JobOK
<1>3. \A k, l \in 1..Len(js) : by[k] = by[l] /\ by[k] # 0 => k = l
  BY <1>1 DEF JobsInv, OneFollowUp
<1>4. {k \in 1..Len(js) : by[k] = 0} = RequestsOf(js)
  BY <1>1 DEF RequestsOf
<1>5. Cardinality({k \in 1..Len(js) : by[k] = 0}) <= MaxRequests
  BY <1>4 DEF JobsInv
<1> HIDE DEF by
<1>6. Len(js) <= 2 * MaxRequests
  BY <1>1, <1>2, <1>3, <1>5, AtMostTwice, HandlersAssumption
<1> QED
  BY <1>1, <1>6, HandlersAssumption

-----------------------------------------------------------------------------
(* Jobs that go on.                                                        *)

LEMMA JobNumbers ==
  \A x \in Job : x.made \in Nat /\ x.saw \in Nat /\ x.by \in Nat
  BY HandlersAssumption DEF Job

\* Job x has become y when s certificates had been issued: what was asked for stays,
\* what is over stays as it is, and what y has made is new.
Moved(x, y, s) ==
  /\ y.type = x.type /\ y.dir = x.dir /\ y.old = x.old /\ y.saw = x.saw
  /\ y.by = x.by /\ y.beside = x.beside /\ y.scan = x.scan
  /\ Closed(x) => y = x
  /\ x.purge # "no" => y.purge # "no"
  /\ y.made = x.made \/ y.made > s

LEMMA MovedJobs ==
  ASSUME NEW s \in Nat, NEW t \in Nat, NEW js, JobsInv(js, s), NEW ks \in Seq(Job),
         Len(ks) = Len(js),
         \A k \in DOMAIN js : Moved(js[k], ks[k], s) /\ JobOK(ks[k], t)
  PROVE  JobsInv(ks, t)
<1>1. js \in Seq(Job) /\ DOMAIN ks = DOMAIN js /\ DOMAIN js = 1..Len(js) /\ Len(js) \in Nat
  BY DEF JobsInv
<1>2. \A k \in DOMAIN js : ks[k].by = js[k].by
  BY DEF Moved
<1>3. Cardinality(RequestsOf(ks)) <= MaxRequests
  <2>1. RequestsOf(ks) = RequestsOf(js)
    BY <1>1, <1>2 DEF RequestsOf
  <2> QED
    BY <2>1 DEF JobsInv
<1>4. OneFollowUp(ks)
  BY <1>1, <1>2 DEF JobsInv, OneFollowUp
<1>5. ASSUME NEW k \in DOMAIN js PROVE FollowOK(ks, k)
  <2> SUFFICES ASSUME js[k].by # 0
               PROVE  /\ js[k].by \in 1..(k - 1) /\ ks[k].type = "remove"
                      /\ ks[k].purge = "no" => ks[k].dir \notin Within
                      /\ ks[js[k].by].st = "done" /\ ks[js[k].by].ok
                      /\ ks[js[k].by].old = ks[k].dir
                      /\ \A w \in (js[k].by + 1)..(k - 1) : js[k].by \in ks[w].beside
    BY <1>2, <1>5 DEF FollowOK
  <2>1. FollowOK(js, k) /\ Moved(js[k], ks[k], s)
    BY <1>5 DEF JobsInv
  <2>2. js[k].by \in DOMAIN js /\ Closed(js[js[k].by])
    BY <1>1, <2>1 DEF FollowOK, Closed
  <2>3. ks[js[k].by] = js[js[k].by]
    BY <2>2 DEF Moved
  <2>4. \A w \in (js[k].by + 1)..(k - 1) : ks[w].beside = js[w].beside
    BY <1>1, <2>2 DEF Moved
  <2> QED
    BY <2>1, <2>3, <2>4 DEF FollowOK, Moved
<1>6. ASSUME NEW k \in DOMAIN js PROVE BesideOK(ks, k)
  <2>1. BesideOK(js, k) /\ Moved(js[k], ks[k], s)
    BY <1>6 DEF JobsInv
  <2>2. \A w \in 1..(k - 1) : Closed(js[w]) => ks[w] = js[w]
    BY <1>1 DEF Moved
  <2> QED
    BY <2>1, <2>2 DEF BesideOK, Moved
<1> QED
  BY <1>1, <1>3, <1>4, <1>5, <1>6 DEF JobsInv

\* In the home, new certificates come and old ones go.
LEMMA MovedHome ==
  ASSUME NEW s \in Nat, NEW js, JobsInv(js, s), NEW ks \in Seq(Job), Len(ks) = Len(js),
         \A k \in DOMAIN js : Moved(js[k], ks[k], s),
         NEW g \in [Dirs -> Nat], NEW h \in [Dirs -> Nat],
         \A d \in Dirs : h[d] = g[d] \/ h[d] = 0 \/ h[d] > s,
         \A k \in DOMAIN js, d \in Dirs :
           ks[k].type = "issue" /\ ks[k].made > s /\ h[d] = ks[k].made => d = ks[k].dir,
         WrittenOK(js, g), SawOK(js, g)
  PROVE  /\ WrittenOK(ks, h) /\ SawOK(ks, h)
         /\ \A r : r.gen \in Nat /\ r.gen <= s /\ RemovedOK(js, r) => RemovedOK(ks, r)
<1>1. js \in Seq(Job) /\ DOMAIN ks = DOMAIN js /\ DOMAIN js = 1..Len(js) /\ Len(js) \in Nat
  BY DEF JobsInv
<1>2. \A k \in DOMAIN js : js[k].made \in Nat /\ ks[k].made \in Nat /\ js[k].made <= s
                           /\ js[k].saw \in Nat
  BY <1>1, JobNumbers DEF JobsInv, JobOK
<1>3. WrittenOK(ks, h)
  <2> SUFFICES ASSUME NEW w \in DOMAIN js, NEW d \in Dirs, ks[w].type = "issue", ks[w].made > 0,
                      h[d] = ks[w].made, ~(ks[w].made > s)
               PROVE  d = ks[w].dir
    BY <1>1 DEF WrittenOK
  <2>1. Moved(js[w], ks[w], s)
    OBVIOUS
  <2>2. ks[w].made = js[w].made /\ js[w].type = "issue" /\ ks[w].dir = js[w].dir
    BY <2>1 DEF Moved
  <2>3. g[d] = js[w].made
    BY <1>2, <2>2
  <2> QED
    BY <2>2, <2>3 DEF WrittenOK
<1>4. SawOK(ks, h)
  <2> SUFFICES ASSUME NEW k \in DOMAIN js, NEW w \in 1..(k - 1),
                      ks[k].by = 0, Target(ks[k]) \in Dirs, w \notin ks[k].beside,
                      w \notin ks[k].scan, ks[w].st # "unseen", h[Target(ks[k])] = ks[w].made
               PROVE  ks[w].made <= ks[k].saw
    BY <1>1 DEF SawOK
  <2>1. w \in DOMAIN js
    BY <1>1
  <2>2. Moved(js[k], ks[k], s) /\ Moved(js[w], ks[w], s) /\ BesideOK(js, k)
    BY <2>1 DEF JobsInv
  <2>3. /\ js[k].by = 0 /\ Target(js[k]) = Target(ks[k]) /\ w \notin js[k].beside
        /\ w \notin js[k].scan /\ ks[k].saw = js[k].saw
    BY <2>2 DEF Moved, Target
  <2>4. Closed(js[w]) /\ ks[w] = js[w]
    BY <2>2, <2>3 DEF BesideOK, Moved
  <2>5. CASE js[w].made = 0
    BY <1>2, <2>1, <2>3, <2>4, <2>5
  <2>6. CASE js[w].made # 0
    <3>1. g[Target(js[k])] = js[w].made
      BY <1>2, <2>1, <2>3, <2>4, <2>6
    <3> QED
      BY <2>3, <2>4, <3>1 DEF SawOK
  <2> QED
    BY <2>5, <2>6
<1>5. ASSUME NEW r, r.gen \in Nat, r.gen <= s, RemovedOK(js, r)
      PROVE  RemovedOK(ks, r)
  <2>1. r.job \in DOMAIN js /\ RootIn(js, r) \in DOMAIN js
    BY <1>1, <1>5 DEF RemovedOK, RootIn, JobsInv, FollowOK
  <2>2. /\ RootIn(ks, r) = RootIn(js, r) /\ ks[RootIn(js, r)].saw = js[RootIn(js, r)].saw
        /\ ks[RootIn(js, r)].scan = js[RootIn(js, r)].scan
    BY <2>1 DEF RootIn, Moved
  <2>3. ASSUME NEW w \in DOMAIN js, ks[w].made = r.gen
        PROVE  /\ js[w].made = r.gen /\ (js[w].st = "unseen" => ks[w].st = "unseen")
               /\ ks[w].type = js[w].type /\ ks[w].dir = js[w].dir
               /\ \A j \in DOMAIN js : Meets(js, j, w) => Meets(ks, j, w)
    <3>1. Moved(js[w], ks[w], s)
      OBVIOUS
    <3>2. js[w].made = r.gen
      BY <1>2, <1>5, <2>3, <3>1 DEF Moved
    <3>3. \A j \in DOMAIN js : ks[j].beside = js[j].beside
      BY DEF Moved
    <3> QED
      BY <3>1, <3>2, <3>3 DEF Moved, Closed, Meets
  <2>4. ks[r.job].type = "remove" /\ ks[r.job].dir = r.dir
    BY <1>5, <2>1 DEF RemovedOK, Moved
  <2> QED
    BY <1>1, <1>5, <2>1, <2>2, <2>3, <2>4 DEF RemovedOK
<1> QED
  BY <1>3, <1>4, <1>5

\* A request that reads the list goes on knowing what it should.
LEMMA LookGoesOn ==
  ASSUME NEW s \in Nat, NEW js, JobsInv(js, s), NEW ks \in Seq(Job), Len(ks) = Len(js),
         \A k \in DOMAIN js : Moved(js[k], ks[k], s),
         NEW g \in [Dirs -> Nat], NEW h \in [Dirs -> Nat],
         \A d \in Dirs : h[d] = g[d] \/ h[d] = 0 \/ h[d] > s,
         NEW k, LookOK(js, g, k)
  PROVE  LookOK(ks, h, k)
<1> SUFFICES ASSUME k # Idle PROVE LookOK(ks, h, k)
  BY DEF LookOK
<1>1. /\ js \in Seq(Job) /\ DOMAIN ks = DOMAIN js /\ \A w \in DOMAIN js : js[w] \in Job
      /\ Window(ks, k) = Window(js, k) /\ k.since <= Len(ks)
  BY DEF JobsInv, Window, LookOK
<1>2. \A w \in DOMAIN js : w \in Window(js, k) \/ (Closed(js[w]) /\ ks[w] = js[w])
  BY DEF LookOK, Moved
<1>3. Knows(ks, h, k.certs, Window(js, k) \cup k.over)
  <2> SUFFICES ASSUME NEW w \in DOMAIN js, NEW d \in Dirs, w \notin Window(js, k) \cup k.over,
                      ks[w].st = "done", ks[w].made > 0, h[d] = ks[w].made
               PROVE  ks[w].made <= k.certs[d]
    BY <1>1 DEF Knows
  <2>1. ks[w] = js[w] /\ js[w].made \in Nat /\ js[w].made <= s
    BY <1>1, <1>2, JobNumbers DEF JobsInv, JobOK
  <2>2. g[d] = js[w].made
    BY <2>1
  <2> QED
    BY <2>1, <2>2 DEF LookOK, Knows
<1> QED
  BY <1>1, <1>2, <1>3 DEF LookOK

\* Together.  A list that stays knows nothing of the jobs that have just ended.
LEMMA GoesOn ==
  ASSUME NEW s \in Nat, NEW t \in Nat, NEW js, NEW ks \in Seq(Job), Len(ks) = Len(js),
         NEW g \in [Dirs -> Nat], NEW h \in [Dirs -> Nat], NEW l, NEW gone,
         s <= t, Core(js, g, s, l, gone),
         \A k \in DOMAIN js : Moved(js[k], ks[k], s) /\ JobOK(ks[k], t),
         \A d \in Dirs : h[d] = g[d] \/ h[d] = 0 \/ h[d] > s,
         \A k \in DOMAIN js, d \in Dirs :
           ks[k].type = "issue" /\ ks[k].made > s /\ h[d] = ks[k].made => d = ks[k].dir
  PROVE  /\ Core(ks, h, t, NoList, gone)
         /\ (\A k \in DOMAIN js : ks[k].st = "done" => js[k].st = "done")
              => Core(ks, h, t, l, gone)
<1>1. JobsInv(ks, t)
  BY MovedJobs DEF Core
<1>2. /\ WrittenOK(ks, h) /\ SawOK(ks, h)
      /\ \A r : r.gen \in Nat /\ r.gen <= s /\ RemovedOK(js, r) => RemovedOK(ks, r)
  BY MovedHome, ZenonT(60) DEF Core
<1>3. \A r \in gone : r.gen <= t /\ RemovedOK(ks, r)
  <2> SUFFICES ASSUME NEW r \in gone PROVE r.gen <= t /\ RemovedOK(ks, r)
    OBVIOUS
  <2>1. r.gen \in Nat /\ r.gen <= s /\ RemovedOK(js, r)
    BY HandlersAssumption DEF Core
  <2> QED
    BY <1>2, <2>1
<1>4. ListOK(ks, h, NoList)
  BY DEF ListOK
<1>5. ASSUME \A k \in DOMAIN js : ks[k].st = "done" => js[k].st = "done"
      PROVE  ListOK(ks, h, l)
  <2>1. js \in Seq(Job) /\ DOMAIN ks = DOMAIN js /\ \A k \in DOMAIN js : js[k] \in Job
    BY DEF Core, JobsInv
  <2> SUFFICES ASSUME l # NoList, NEW w \in DOMAIN js, NEW d \in Dirs, w \notin l.over,
                      ks[w].st = "done", ks[w].made > 0, h[d] = ks[w].made
               PROVE  ks[w].made <= l.certs[d]
    BY <2>1 DEF ListOK, Knows
  <2>2. js[w].st = "done" /\ ks[w] = js[w]
    BY <1>5 DEF Moved, Closed
  <2>3. js[w].made \in Nat /\ js[w].made <= s
    BY <2>1, JobNumbers DEF Core, JobsInv, JobOK
  <2>4. g[d] = js[w].made
    BY <2>2, <2>3
  <2> QED
    BY <2>2, <2>4 DEF Core, ListOK, Knows
<1> QED
  BY <1>1, <1>2, <1>3, <1>4, <1>5 DEF Core

-----------------------------------------------------------------------------
(* A job that comes in.                                                    *)

\* What a request or an OnDone submits: a job that is queued, beside those that are
\* not over; a follow-up only once; and a request has seen what is there by then.
ComesIn(js, g, new) ==
  LET n == Len(js) + 1 IN
  /\ new.st = "queued" /\ ~new.ok /\ new.made = 0
  /\ \A w \in DOMAIN js : w \in new.beside \/ Closed(js[w])
  /\ new.by = 0 =>
       /\ Cardinality(RequestsOf(js)) < MaxRequests
       /\ \A w \in DOMAIN js :
            /\ Target(new) \in Dirs /\ w \notin new.beside \cup new.scan
            /\ js[w].st = "done" /\ js[w].made > 0 /\ g[Target(new)] = js[w].made
            => js[w].made <= new.saw
  /\ new.by # 0 =>
       /\ new.by \in DOMAIN js /\ new.type = "remove"
       /\ new.purge = "no" => new.dir \notin Within
       /\ js[new.by].st = "done" /\ js[new.by].ok /\ js[new.by].old = new.dir
       /\ \A w \in DOMAIN js : js[w].by # new.by /\ (new.by < w => new.by \in js[w].beside)

LEMMA Submitted ==
  ASSUME NEW s \in Nat, NEW js, NEW new \in Job, NEW g \in [Dirs -> Nat], NEW l, NEW gone,
         Core(js, g, s, l, gone), JobOK(new, s), ComesIn(js, g, new)
  PROVE  /\ Core(Append(js, new), g, s, l, gone)
         /\ (\A k \in DOMAIN js : SeenOK(js, k))
              => \A k \in DOMAIN Append(js, new) : SeenOK(Append(js, new), k)
         /\ \A k \in Lookup \cup {Idle} : LookOK(js, g, k) => LookOK(Append(js, new), g, k)
<1> DEFINE n == Len(js) + 1
           ks == Append(js, new)
<1>1. /\ js \in Seq(Job) /\ DOMAIN js = 1..Len(js) /\ Len(js) \in Nat
      /\ \A k \in DOMAIN js : js[k] \in Job
  BY DEF Core, JobsInv
<1>2. /\ ks \in Seq(Job) /\ DOMAIN ks = DOMAIN js \cup {n} /\ ks[n] = new
      /\ \A k \in DOMAIN js : ks[k] = js[k] /\ k < n
      /\ n \notin DOMAIN js /\ n \in Nat
  BY <1>1
<1>3. \A k \in DOMAIN ks : \A w \in 1..(k - 1) : w \in DOMAIN js /\ ks[w] = js[w]
  BY <1>1, <1>2
<1>4. new.made = 0 /\ new.st = "queued" /\ new.by \in Nat
  BY JobNumbers DEF ComesIn
<1> HIDE DEF n, ks
<1>5. JobsInv(ks, s)
  <2>1. Cardinality(RequestsOf(ks)) <= MaxRequests
    <3>1. CASE new.by # 0
      <4>1. RequestsOf(ks) = RequestsOf(js)
        BY <1>2, <3>1 DEF RequestsOf
      <4> QED
        BY <4>1 DEF Core, JobsInv
    <3>2. CASE new.by = 0
      <4>1. RequestsOf(ks) = RequestsOf(js) \cup {n} /\ n \notin RequestsOf(js)
        BY <1>2, <3>2 DEF RequestsOf
      <4>2. IsFiniteSet(DOMAIN js) /\ RequestsOf(js) \subseteq DOMAIN js
        BY <1>1, FS_Interval DEF RequestsOf
      <4>3. IsFiniteSet(RequestsOf(js)) /\ Cardinality(RequestsOf(js)) \in Nat
        BY <4>2, FS_Subset, FS_CardinalityType
      <4>4. Cardinality(RequestsOf(ks)) = Cardinality(RequestsOf(js)) + 1
        BY <4>1, <4>3, FS_AddElement
      <4>5. Cardinality(RequestsOf(js)) < MaxRequests
        BY <3>2 DEF ComesIn
      <4> QED
        BY <4>3, <4>4, <4>5, HandlersAssumption
    <3> QED
      BY <3>1, <3>2
  <2>2. OneFollowUp(ks)
    <3> SUFFICES ASSUME NEW k \in DOMAIN ks, NEW i \in DOMAIN ks, ks[k].by = ks[i].by, ks[k].by # 0
                 PROVE  k = i
      BY DEF OneFollowUp
    <3> QED
      BY <1>2 DEF Core, JobsInv, OneFollowUp, ComesIn
  <2>3. \A k \in DOMAIN ks : JobOK(ks[k], s)
    BY <1>2 DEF Core, JobsInv
  <2>4. ASSUME NEW k \in DOMAIN js PROVE FollowOK(ks, k) /\ BesideOK(ks, k)
    <3>1. FollowOK(js, k) /\ BesideOK(js, k) /\ ks[k] = js[k]
      BY <1>2, <2>4 DEF Core, JobsInv
    <3>2. \A w \in 1..(k - 1) : ks[w] = js[w]
      BY <1>2, <1>3, <2>4
    <3>3. BesideOK(ks, k)
      BY <3>1, <3>2 DEF BesideOK
    <3>4. FollowOK(ks, k)
      <4> SUFFICES ASSUME js[k].by # 0
                   PROVE  /\ js[k].by \in 1..(k - 1) /\ ks[k].type = "remove"
                          /\ ks[k].purge = "no" => ks[k].dir \notin Within
                          /\ ks[js[k].by].st = "done" /\ ks[js[k].by].ok
                          /\ ks[js[k].by].old = ks[k].dir
                          /\ \A w \in (js[k].by + 1)..(k - 1) : js[k].by \in ks[w].beside
        BY <3>1 DEF FollowOK
      <4>1. /\ js[k].by \in 1..(k - 1)
            /\ \A w \in (js[k].by + 1)..(k - 1) : js[k].by \in js[w].beside
        BY <3>1 DEF FollowOK
      <4>2. \A w \in (js[k].by + 1)..(k - 1) : ks[w] = js[w]
        BY <1>1, <3>2, <4>1
      <4> QED
        BY <3>1, <3>2, <4>1, <4>2 DEF FollowOK
    <3> QED
      BY <3>3, <3>4
  <2>5. BesideOK(ks, n)
    BY <1>2, <1>3 DEF BesideOK, ComesIn
  <2>6. FollowOK(ks, n)
    <3> SUFFICES ASSUME new.by # 0
                 PROVE  /\ new.by \in 1..(n - 1) /\ new.type = "remove"
                        /\ new.purge = "no" => new.dir \notin Within
                        /\ ks[new.by].st = "done" /\ ks[new.by].ok /\ ks[new.by].old = new.dir
                        /\ \A w \in (new.by + 1)..(n - 1) : new.by \in ks[w].beside
      BY <1>2 DEF FollowOK
    <3>1. n - 1 = Len(js)
      BY <1>1 DEF n
    <3>2. \A w \in (new.by + 1)..(n - 1) : new.by < w /\ w \in DOMAIN js
      BY <1>1, <1>4, <3>1
    <3> QED
      BY <1>1, <1>2, <3>1, <3>2 DEF ComesIn
  <2> QED
    BY <1>2, <2>1, <2>2, <2>3, <2>4, <2>5, <2>6 DEF JobsInv
<1>6. WrittenOK(ks, g)
  BY <1>2, <1>4 DEF Core, WrittenOK
<1>7. ListOK(ks, g, l)
  BY <1>2, <1>4 DEF Core, ListOK, Knows
<1>8. SawOK(ks, g)
  <2> SUFFICES ASSUME NEW k \in DOMAIN ks, NEW w \in 1..(k - 1),
                      ks[k].by = 0, Target(ks[k]) \in Dirs, w \notin ks[k].beside,
                      w \notin ks[k].scan, ks[w].st # "unseen", g[Target(ks[k])] = ks[w].made
               PROVE  ks[w].made <= ks[k].saw
    BY DEF SawOK
  <2>1. w \in DOMAIN js /\ ks[w] = js[w]
    BY <1>3
  <2>2. CASE k \in DOMAIN js
    BY <1>2, <2>1, <2>2 DEF Core, SawOK
  <2>3. CASE k = n
    <3>1. js[w].st = "done"
      BY <1>2, <2>1, <2>3 DEF ComesIn, Closed
    <3>2. js[w].made \in Nat /\ new.saw \in Nat
      BY <1>1, <2>1, JobNumbers
    <3>3. js[w].made > 0 => js[w].made <= new.saw
      BY <1>2, <2>1, <2>3, <3>1 DEF ComesIn
    <3> QED
      BY <1>2, <2>1, <2>3, <3>2, <3>3
  <2> QED
    BY <1>2, <2>2, <2>3
<1>9. ASSUME NEW r \in gone PROVE RemovedOK(ks, r)
  <2>1. r.gen \in 1..MaxSerial /\ RemovedOK(js, r) /\ r.job \in DOMAIN js
    BY DEF Core, RemovedOK
  <2>2. RootIn(js, r) \in DOMAIN js
    BY <1>1, <2>1 DEF RootIn, Core, JobsInv, FollowOK
  <2>3. RootIn(ks, r) = RootIn(js, r)
    BY <1>2, <2>1 DEF RootIn
  <2>4. ASSUME NEW w \in DOMAIN ks, ks[w].made = r.gen
        PROVE  /\ w \in DOMAIN js /\ ks[w] = js[w]
               /\ \A j \in DOMAIN js : Meets(js, j, w) => Meets(ks, j, w)
    <3>1. r.gen # 0
      BY <2>1, HandlersAssumption
    <3> QED
      BY <1>2, <1>4, <2>4, <3>1 DEF Meets
  <2> QED
    BY <1>2, <2>1, <2>2, <2>3, <2>4 DEF RemovedOK
<1>10. ASSUME \A k \in DOMAIN js : SeenOK(js, k), NEW k \in DOMAIN ks
       PROVE  SeenOK(ks, k)
  <2>1. CASE k = n
    BY <1>2, <1>4, <2>1 DEF SeenOK
  <2>2. CASE k \in DOMAIN js
    <3>1. SeenOK(js, k) /\ ks[k] = js[k]
      BY <1>2, <1>10, <2>2
    <3>2. (\E f \in DOMAIN js : js[f].by = k) => \E f \in DOMAIN ks : ks[f].by = k
      BY <1>2
    <3> QED
      BY <3>1, <3>2 DEF SeenOK
  <2> QED
    BY <1>2, <2>1, <2>2
<1>11. Core(ks, g, s, l, gone)
  BY <1>5, <1>6, <1>7, <1>8, <1>9 DEF Core
<1>12. ASSUME NEW k \in Lookup \cup {Idle}, LookOK(js, g, k)
       PROVE  LookOK(ks, g, k)
  <2> SUFFICES ASSUME k # Idle PROVE LookOK(ks, g, k)
    BY DEF LookOK
  <2>1. k.since \in Nat /\ k.since <= Len(js) /\ Len(ks) = n /\ n = Len(js) + 1
    BY <1>1, <1>12, HandlersAssumption DEF Lookup, LookOK, n, ks
  <2>2. Window(ks, k) = Window(js, k) \cup {n} /\ k.since <= Len(ks)
    BY <1>1, <2>1 DEF Window
  <2>3. \A w \in DOMAIN ks : w \in Window(ks, k) \/ Closed(ks[w])
    BY <1>2, <1>12, <2>2 DEF LookOK
  <2>4. Knows(ks, g, k.certs, Window(ks, k) \cup k.over)
    BY <1>2, <1>12, <2>2 DEF LookOK, Knows
  <2> QED
    BY <1>12, <2>2, <2>3, <2>4 DEF LookOK
<1> QED
  BY <1>10, <1>11, <1>12 DEF ks

-----------------------------------------------------------------------------
(* The steps.                                                              *)

LEMMA HInvFacts ==
  ASSUME HInv
  PROVE  /\ jobs \in Seq(Job) /\ Ids = 1..Len(jobs) /\ Len(jobs) \in 0..(2 * MaxRequests)
         /\ \A k \in Ids : jobs[k] \in Job /\ JobOK(jobs[k], serial)
         /\ serial \in 1..MaxSerial /\ serial \in Nat /\ gen \in [Dirs -> Nat]
         /\ \A d \in Dirs : gen[d] \in 0..MaxSerial /\ gen[d] <= serial
         /\ managed \subseteq Dirs
<1>1. serial \in Nat /\ serial \in 1..MaxSerial
  BY HandlersAssumption DEF HInv, HomeOK
<1>2. Len(jobs) \in 0..(2 * MaxRequests) /\ Ids = 1..Len(jobs)
  BY <1>1, LenBound DEF HInv, Core, Ids
<1>3. jobs \in Seq(Job) /\ \A k \in Ids : jobs[k] \in Job /\ JobOK(jobs[k], serial)
  BY DEF HInv, Core, JobsInv, Ids
<1>4. gen \in [Dirs -> 0..MaxSerial] /\ 0..MaxSerial \subseteq Nat
  BY HandlersAssumption DEF HInv, HomeOK, Content
<1>5. (\A d \in Dirs : gen[d] <= serial) /\ managed \subseteq Dirs
  BY DEF HInv, HomeOK
<1> QED
  BY <1>1, <1>2, <1>3, <1>4, <1>5

\* The jobs when job j has become y, and t certificates were issued by then.
NowAre(ks, j, y, t) ==
  /\ ks \in Seq(Job) /\ Len(ks) = Len(jobs) /\ DOMAIN ks = Ids
  /\ \A k \in Ids : /\ ks[k] = (IF k = j THEN y ELSE jobs[k])
                    /\ Moved(jobs[k], ks[k], serial) /\ JobOK(ks[k], t)
  /\ deaths = 0 /\ y.st \notin {"orphan", "unseen", "done"} =>
       \A k \in Ids : SeenOK(ks, k)

LEMMA OneMoved ==
  ASSUME HInv, NEW j \in Ids, NEW y \in Job, NEW t \in Nat, serial <= t,
         Moved(jobs[j], y, serial), JobOK(y, t),
         NEW ks, ks = [jobs EXCEPT ![j] = y]
  PROVE  NowAre(ks, j, y, t)
<1>1. /\ jobs \in Seq(Job) /\ Ids = DOMAIN jobs /\ serial \in Nat
      /\ \A k \in Ids : jobs[k] \in Job /\ JobOK(jobs[k], serial)
  BY HInvFacts DEF Ids
<1>2. /\ ks \in Seq(Job) /\ Len(ks) = Len(jobs) /\ DOMAIN ks = Ids
      /\ \A k \in Ids : ks[k] = (IF k = j THEN y ELSE jobs[k])
  BY <1>1
<1>3. ASSUME NEW k \in Ids PROVE Moved(jobs[k], ks[k], serial) /\ JobOK(ks[k], t)
  <2>1. CASE k = j
    BY <1>2, <2>1
  <2>2. CASE k # j
    <3>1. jobs[k].made \in Nat /\ jobs[k].made <= serial
      BY <1>1, JobNumbers DEF JobOK
    <3>2. jobs[k].made <= t
      BY <1>1, <3>1
    <3> QED
      BY <1>1, <1>2, <2>2, <3>2 DEF Moved, JobOK
  <2> QED
    BY <2>1, <2>2
<1>4. ASSUME deaths = 0, y.st \notin {"orphan", "unseen", "done"}, NEW k \in Ids
      PROVE  SeenOK(ks, k)
  <2>1. CASE k = j
    BY <1>2, <1>4, <2>1 DEF SeenOK
  <2>2. CASE k # j
    <3>1. SeenOK(jobs, k) /\ ks[k] = jobs[k]
      BY <1>2, <1>4, <2>2 DEF HInv
    <3>2. \A f \in Ids : ks[f].by = jobs[f].by
      BY <1>3 DEF Moved
    <3> QED
      BY <1>1, <1>2, <3>1, <3>2 DEF SeenOK
  <2> QED
    BY <2>1, <2>2
<1> QED
  BY <1>2, <1>3, <1>4 DEF NowAre

\* What acme.sh writes is newer than everything there is, and in the directories it is
\* written to only.
LEMMA WriteStep ==
  ASSUME HInv, NEW ds \in SUBSET Dirs, Write(ds)
  PROVE  /\ HomeOK' /\ serial' = serial + 1 /\ serial' \in Nat
         /\ gen' \in [Dirs -> Nat]
         /\ \A d \in Dirs : /\ gen'[d] = gen[d] \/ gen'[d] > serial
                            /\ gen'[d] > serial => d \in ds
<1>1. /\ serial \in 1..MaxSerial /\ serial \in Nat /\ gen \in [Dirs -> Nat]
      /\ \A d \in Dirs : gen[d] \in 0..MaxSerial /\ gen[d] <= serial
  BY HInvFacts
<1>2. /\ serial < MaxSerial /\ serial' = serial + 1 /\ managed' = managed \cup ds
      /\ gen' = [d \in Dirs |-> IF d \in ds THEN serial + 1 ELSE gen[d]]
  BY DEF Write
<1>3. serial' \in 1..MaxSerial /\ serial' \in Nat
  BY <1>1, <1>2, HandlersAssumption
<1>4. \A d \in Dirs : gen'[d] = IF d \in ds THEN serial + 1 ELSE gen[d]
  BY <1>2
<1>5. \A d \in Dirs : /\ gen'[d] \in 0..MaxSerial /\ gen'[d] <= serial'
                      /\ gen'[d] = gen[d] \/ gen'[d] > serial
                      /\ gen'[d] > serial => d \in ds
  BY <1>1, <1>2, <1>3, <1>4
<1>6. gen' \in [Dirs -> 0..MaxSerial] /\ gen' \in [Dirs -> Nat]
  BY <1>1, <1>2, <1>3, <1>5
<1>7. managed' \subseteq {d \in Dirs : gen'[d] > 0}
  <2>1. managed \subseteq {d \in Dirs : gen[d] > 0}
    BY DEF HInv, HomeOK
  <2> QED
    BY <1>1, <1>2, <1>4, <2>1
<1>8. HomeOK'
  <2>1. gen' \in Content
    BY <1>6 DEF Content
  <2>2. \A d \in Dirs : gen'[d] <= serial'
    BY <1>5
  <2> QED
    BY <1>3, <1>7, <2>1, <2>2 DEF HomeOK
<1> QED
  BY <1>2, <1>3, <1>5, <1>6, <1>8

\* The requests that read the list go on, too.
LEMMA LooksGoOn ==
  ASSUME HInv, NEW ks \in Seq(Job), Len(ks) = Len(jobs),
         \A k \in Ids : Moved(jobs[k], ks[k], serial),
         NEW h \in [Dirs -> Nat], \A d \in Dirs : h[d] = gen[d] \/ h[d] = 0 \/ h[d] > serial
  PROVE  \A r \in Readers : LookOK(ks, h, look[r])
<1>1. /\ serial \in Nat /\ gen \in [Dirs -> Nat] /\ JobsInv(jobs, serial) /\ Ids = DOMAIN jobs
      /\ \A r \in Readers : LookOK(jobs, gen, look[r])
  BY HInvFacts DEF HInv, Core, Ids
<1> QED
  BY <1>1, LookGoesOn

\* acme.sh ends.
LEMMA SucceedStep ==
  ASSUME HInv, NEW j \in Ids, Succeed(j)
  PROVE  HInv'
<1> DEFINE x == jobs[j]
           m == IF serial' > serial THEN serial' ELSE 0
           y == [x EXCEPT !.st = Over(j), !.ok = TRUE, !.made = m]
<1>0. /\ x \in Job /\ JobOK(x, serial) /\ x.st \in {"queued", "orphan"}
      /\ serial \in Nat /\ serial \in 1..MaxSerial /\ managed \subseteq Dirs
      /\ gen \in [Dirs -> Nat] /\ \A d \in Dirs : gen[d] <= serial
  BY HInvFacts DEF Succeed
<1>1. /\ HomeOK' /\ serial <= serial' /\ serial' \in 1..MaxSerial
      /\ gen' \in [Dirs -> Nat]
      /\ \A d \in Dirs : gen'[d] = gen[d] \/ gen'[d] > serial
      /\ x.type = "issue" => /\ serial' > serial
                             /\ \A d \in Dirs : gen'[d] > serial => d = x.dir
      /\ x.type = "remove" => serial' = serial
  <2>1. CASE x.type = "issue" /\ Write({x.dir})
    <3>1. {x.dir} \in SUBSET Dirs
      BY <1>0, <2>1 DEF JobOK
    <3>2. /\ HomeOK' /\ serial' = serial + 1 /\ gen' \in [Dirs -> Nat]
          /\ \A d \in Dirs : /\ gen'[d] = gen[d] \/ gen'[d] > serial
                             /\ gen'[d] > serial => d \in {x.dir}
      BY <2>1, <3>1, WriteStep
    <3>3. serial' \in 1..MaxSerial /\ serial <= serial' /\ serial' > serial
      BY <1>0, <3>2 DEF HomeOK
    <3> QED
      BY <2>1, <3>2, <3>3
  <2>2. CASE x.type \in {"renew", "renew-all"} /\ \E ds \in Renewable(x) : Write(ds)
    <3>1. Renewable(x) \subseteq SUBSET Dirs
      BY <1>0 DEF Renewable
    <3>2. PICK ds \in SUBSET Dirs : Write(ds)
      BY <2>2, <3>1
    <3>3. /\ HomeOK' /\ serial' = serial + 1 /\ gen' \in [Dirs -> Nat]
          /\ \A d \in Dirs : gen'[d] = gen[d] \/ gen'[d] > serial
      BY <3>2, WriteStep
    <3>4. serial' \in 1..MaxSerial /\ serial <= serial'
      BY <1>0, <3>3 DEF HomeOK
    <3> QED
      BY <2>2, <3>3, <3>4
  <2>3. CASE x.type = "remove" /\ managed' = managed \ {Named(x.dir)} /\ UNCHANGED <<gen, serial>>
    BY <1>0, <2>3 DEF HInv, HomeOK
  <2> QED
    BY <2>1, <2>2, <2>3 DEF Succeed
<1>2. serial' \in Nat /\ m \in 0..MaxSerial /\ m <= serial' /\ (m = 0 \/ m > serial)
      /\ (x.type = "issue" => m > 0) /\ (x.type = "remove" => m = 0)
  BY <1>0, <1>1, HandlersAssumption
<1>3. Over(j) \in {"ran", "unseen"} /\ (x.st = "queued" => Over(j) = "ran")
  BY DEF Over
<1> HIDE DEF m
<1>4. /\ y \in Job /\ y.type = x.type /\ y.dir = x.dir /\ y.old = x.old /\ y.saw = x.saw
      /\ y.by = x.by /\ y.beside = x.beside /\ y.scan = x.scan
      /\ y.blank = x.blank /\ y.purge = x.purge
      /\ y.st = Over(j) /\ y.ok = TRUE /\ y.made = m
  BY <1>0, <1>2, <1>3 DEF Job
<1>5. jobs' = [jobs EXCEPT ![j] = y] /\ UNCHANGED <<list, look, deaths, removed>>
  BY DEF Succeed, m
<1> HIDE DEF y
<1>6. x.made = 0
  BY <1>0, JobNumbers DEF JobOK
<1>7. Moved(x, y, serial)
  BY <1>0, <1>2, <1>4, <1>6 DEF Moved, Closed
<1>8. JobOK(y, serial')
  BY <1>0, <1>2, <1>3, <1>4 DEF JobOK
<1>9a. NowAre(jobs', j, y, serial')
  <2>1. serial <= serial' /\ serial' \in Nat /\ jobs' = [jobs EXCEPT ![j] = y] /\ y \in Job
    BY <1>1, <1>2, <1>4, <1>5
  <2> QED
    BY <1>7, <1>8, <2>1, OneMoved
<1>9. /\ jobs' \in Seq(Job) /\ Len(jobs') = Len(jobs) /\ DOMAIN jobs' = Ids
      /\ \A k \in Ids : /\ jobs'[k] = (IF k = j THEN y ELSE jobs[k])
                        /\ Moved(jobs[k], jobs'[k], serial) /\ JobOK(jobs'[k], serial')
      /\ deaths = 0 /\ y.st \notin {"orphan", "unseen", "done"} =>
           \A k \in Ids : SeenOK(jobs', k)
  BY <1>9a DEF NowAre
<1>10. ASSUME NEW k \in Ids, NEW d \in Dirs,
              jobs'[k].type = "issue", jobs'[k].made > serial, gen'[d] = jobs'[k].made
       PROVE  d = jobs'[k].dir
  <2>1. k = j
    <3> SUFFICES ASSUME k # j PROVE FALSE
      OBVIOUS
    <3>1. jobs'[k] = jobs[k] /\ jobs[k].made \in Nat /\ jobs[k].made <= serial
      BY <1>9, HInvFacts, JobNumbers DEF JobOK
    <3> QED
      BY <1>0, <1>10, <3>1
  <2>2. x.type = "issue" /\ gen'[d] > serial
    BY <1>4, <1>9, <1>10, <2>1
  <2> QED
    BY <1>1, <1>4, <1>9, <2>1, <2>2
<1>11. \A k \in Ids : jobs'[k].st = "done" => jobs[k].st = "done"
  BY <1>3, <1>4, <1>9
<1>12. Core(jobs', gen', serial', list, removed)
  <2>1. Core(jobs, gen, serial, list, removed) /\ Ids = DOMAIN jobs
    BY DEF HInv, Ids
  <2>2. \A d \in Dirs : gen'[d] = gen[d] \/ gen'[d] = 0 \/ gen'[d] > serial
    BY <1>1
  <2>3. \A k \in DOMAIN jobs, d \in Dirs :
          jobs'[k].type = "issue" /\ jobs'[k].made > serial /\ gen'[d] = jobs'[k].made
            => d = jobs'[k].dir
    BY <1>10, <2>1
  <2>4. \A k \in DOMAIN jobs : Moved(jobs[k], jobs'[k], serial) /\ JobOK(jobs'[k], serial')
    BY <1>9, <2>1
  <2>5. /\ jobs' \in Seq(Job) /\ Len(jobs') = Len(jobs) /\ serial \in Nat /\ serial' \in Nat
        /\ serial <= serial' /\ gen \in [Dirs -> Nat] /\ gen' \in [Dirs -> Nat]
    BY <1>0, <1>1, <1>2, <1>9
  <2>6. \A k \in DOMAIN jobs : jobs'[k].st = "done" => jobs[k].st = "done"
    BY <1>11, <2>1
  <2> QED
    BY <2>1, <2>2, <2>3, <2>4, <2>5, <2>6, GoesOn
<1>13. deaths = 0 => \A k \in Ids : SeenOK(jobs', k)
  <2> SUFFICES ASSUME deaths = 0 PROVE \A k \in Ids : SeenOK(jobs', k)
    OBVIOUS
  <2>1. x.st = "queued"
    BY <1>0 DEF HInv, SeenOK
  <2> QED
    BY <1>3, <1>4, <1>9, <2>1
<1>14. \A r \in Readers : LookOK(jobs', gen', look[r])
  <2>1. \A d \in Dirs : gen'[d] = gen[d] \/ gen'[d] = 0 \/ gen'[d] > serial
    BY <1>1
  <2> QED
    BY <1>1, <1>2, <1>9, <2>1, LooksGoOn
<1> QED
  BY <1>1, <1>5, <1>9, <1>12, <1>13, <1>14 DEF HInv, Ids

LEMMA FailStep ==
  ASSUME HInv, NEW j \in Ids, Fail(j)
  PROVE  HInv'
<1> DEFINE x == jobs[j]
           y == [x EXCEPT !.st = Over(j)]
<1>0. /\ x \in Job /\ JobOK(x, serial) /\ x.st \in {"queued", "orphan"}
      /\ serial \in Nat /\ gen \in [Dirs -> Nat]
  BY HInvFacts DEF Fail
<1>1. Over(j) \in {"ran", "unseen"} /\ (x.st = "queued" => Over(j) = "ran")
  BY DEF Over
<1>2. /\ y \in Job /\ y.type = x.type /\ y.dir = x.dir /\ y.old = x.old /\ y.saw = x.saw
      /\ y.by = x.by /\ y.beside = x.beside /\ y.scan = x.scan
      /\ y.blank = x.blank /\ y.purge = x.purge
      /\ y.st = Over(j) /\ y.ok = x.ok /\ y.made = x.made
  BY <1>0, <1>1 DEF Job
<1>3. /\ jobs' = [jobs EXCEPT ![j] = y]
      /\ UNCHANGED <<gen, managed, serial, list, look, deaths, removed>>
  BY DEF Fail, home
<1> HIDE DEF y
<1>4. Moved(x, y, serial) /\ JobOK(y, serial)
  BY <1>0, <1>1, <1>2 DEF Moved, Closed, JobOK
<1>5a. NowAre(jobs', j, y, serial)
  <2>1. serial <= serial /\ serial \in Nat /\ jobs' = [jobs EXCEPT ![j] = y] /\ y \in Job
    BY <1>0, <1>2, <1>3
  <2> QED
    BY <1>4, <2>1, OneMoved
<1>5. /\ jobs' \in Seq(Job) /\ Len(jobs') = Len(jobs) /\ DOMAIN jobs' = Ids
      /\ \A k \in Ids : /\ jobs'[k] = (IF k = j THEN y ELSE jobs[k])
                        /\ Moved(jobs[k], jobs'[k], serial) /\ JobOK(jobs'[k], serial)
      /\ deaths = 0 /\ y.st \notin {"orphan", "unseen", "done"} =>
           \A k \in Ids : SeenOK(jobs', k)
  BY <1>5a DEF NowAre
<1>6. \A k \in Ids : jobs'[k].made = jobs[k].made /\ ~(jobs[k].made > serial)
  <2>1. \A k \in Ids : jobs[k].made \in Nat /\ jobs[k].made <= serial
    BY HInvFacts, JobNumbers DEF JobOK
  <2> QED
    BY <1>0, <1>2, <1>5, <2>1
<1>7. \A k \in Ids : jobs'[k].st = "done" => jobs[k].st = "done"
  BY <1>1, <1>2, <1>5
<1>8. Core(jobs', gen, serial, list, removed)
  <2>1. Core(jobs, gen, serial, list, removed) /\ Ids = DOMAIN jobs
    BY DEF HInv, Ids
  <2>2. \A k \in DOMAIN jobs : ~(jobs'[k].made > serial)
    BY <1>6, <2>1
  <2>3. \A k \in DOMAIN jobs : Moved(jobs[k], jobs'[k], serial) /\ JobOK(jobs'[k], serial)
    BY <1>5, <2>1
  <2>4. /\ jobs' \in Seq(Job) /\ Len(jobs') = Len(jobs) /\ serial \in Nat
        /\ serial <= serial /\ gen \in [Dirs -> Nat]
    BY <1>0, <1>5
  <2>5. \A k \in DOMAIN jobs : jobs'[k].st = "done" => jobs[k].st = "done"
    BY <1>7, <2>1
  <2> QED
    BY <2>1, <2>2, <2>3, <2>4, <2>5, GoesOn
<1>9. deaths = 0 => \A k \in Ids : SeenOK(jobs', k)
  <2> SUFFICES ASSUME deaths = 0 PROVE \A k \in Ids : SeenOK(jobs', k)
    OBVIOUS
  <2>1. x.st = "queued"
    BY <1>0 DEF HInv, SeenOK
  <2> QED
    BY <1>1, <1>2, <1>5, <2>1
<1>10. \A r \in Readers : LookOK(jobs', gen, look[r])
  BY <1>0, <1>5, LooksGoOn
<1> QED
  BY <1>3, <1>5, <1>8, <1>9, <1>10 DEF HInv, HomeOK, Ids

\* If the request has not seen what a purge takes away, and has not made it, the job that
\* wrote it ran beside.
LEMMA PurgedOK ==
  ASSUME HInv, NEW j \in Ids, jobs[j].st = "ran", jobs[j].type = "remove",
         gen[jobs[j].dir] > 0,
         NEW r, r = [dir |-> jobs[j].dir, gen |-> gen[jobs[j].dir], job |-> j]
  PROVE  RemovedOK(jobs, r) /\ r \in [dir : Dirs, gen : 1..MaxSerial, job : Nat] /\ r.gen <= serial
<1>0. /\ jobs \in Seq(Job) /\ Ids = 1..Len(jobs) /\ Len(jobs) \in Nat /\ Ids = DOMAIN jobs
      /\ \A k \in Ids : jobs[k] \in Job /\ JobOK(jobs[k], serial)
      /\ \A k \in Ids : FollowOK(jobs, k) /\ BesideOK(jobs, k)
      /\ WrittenOK(jobs, gen) /\ SawOK(jobs, gen)
  BY HInvFacts DEF HInv, Core, JobsInv, Ids
<1> DEFINE d == jobs[j].dir
           i == RootIn(jobs, r)
<1>1. d \in Dirs /\ gen[d] \in 1..MaxSerial /\ gen[d] <= serial /\ gen[d] \in Nat
  BY <1>0, HInvFacts, HandlersAssumption DEF JobOK
<1>2. r.dir = d /\ r.gen = gen[d] /\ r.job = j
  OBVIOUS
<1>3. r \in [dir : Dirs, gen : 1..MaxSerial, job : Nat] /\ r.gen <= serial
  BY <1>0, <1>1, <1>2
<1>4. /\ i \in Ids /\ jobs[i].by = 0 /\ Target(jobs[i]) = d /\ (i = j \/ i < j)
      /\ i # j => /\ jobs[i].st = "done" /\ jobs[j].by = i
                  /\ \A w \in (i + 1)..(j - 1) : i \in jobs[w].beside
  <2>1. CASE jobs[j].by = 0
    BY <1>2, <2>1 DEF RootIn, Target
  <2>2. CASE jobs[j].by # 0
    <3>1. /\ i = jobs[j].by /\ i \in 1..(j - 1) /\ jobs[i].st = "done" /\ jobs[i].old = d
          /\ \A w \in (i + 1)..(j - 1) : i \in jobs[w].beside
      BY <1>0, <1>2, <2>2 DEF RootIn, FollowOK
    <3>2. i \in Ids /\ i < j
      BY <1>0, <3>1
    <3>3. jobs[i].old # NoDir
      BY <1>1, <3>1, HandlersAssumption DEF NoDir
    <3>4. jobs[i].type = "issue" /\ jobs[i].by = 0
      BY <1>0, <3>2, <3>3 DEF JobOK
    <3> QED
      BY <3>1, <3>2, <3>4 DEF Target
  <2> QED
    BY <2>1, <2>2
<1> HIDE DEF d, i
<1>5. ASSUME NEW w \in Ids, jobs[w].made = gen[d], jobs[w].type = "issue"
      PROVE  jobs[w].dir = d
  BY <1>0, <1>1, <1>5 DEF WrittenOK
<1>6. ASSUME NEW w \in Ids, jobs[w].made = gen[d], w # i, jobs[w].st # "unseen",
             gen[d] > jobs[i].saw
      PROVE  Meets(jobs, j, w) \/ Meets(jobs, i, w) \/ w \in jobs[i].scan
  <2>0. /\ w \in Nat /\ i \in Nat /\ j \in Nat /\ jobs[w].made # 0
        /\ jobs[i].saw \in Nat /\ jobs[w].made \in Nat
    BY <1>0, <1>1, <1>4, <1>6, JobNumbers
  <2>1. CASE w < i
    <3>1. w \in 1..(i - 1)
      BY <1>0, <2>0, <2>1
    <3>2. w \notin jobs[i].beside /\ w \notin jobs[i].scan => jobs[w].made <= jobs[i].saw
      BY <1>0, <1>1, <1>4, <1>6, <3>1 DEF SawOK
    <3> QED
      BY <1>6, <2>0, <3>2 DEF Meets
  <2>2. CASE j < w
    <3>1. j \in 1..(w - 1)
      BY <1>0, <2>0, <2>2
    <3>2. j \in jobs[w].beside \/ Closed(jobs[j])
      BY <1>0, <1>6, <3>1 DEF BesideOK
    <3> QED
      BY <2>2, <3>2 DEF Closed, Meets
  <2>3. CASE i < w /\ w < j
    <3>1. w \in (i + 1)..(j - 1)
      BY <2>0, <2>3
    <3>2. i \in jobs[w].beside
      BY <1>4, <2>0, <2>3, <3>1
    <3> QED
      BY <2>3, <3>2 DEF Meets
  <2>4. CASE w = j
    BY <1>0, <2>0, <2>4 DEF JobOK
  <2> QED
    BY <1>4, <1>6, <2>0, <2>1, <2>2, <2>3, <2>4
<1> QED
  BY <1>0, <1>2, <1>3, <1>5, <1>6 DEF RemovedOK, d, i

LEMMA PurgeStep ==
  ASSUME HInv, NEW j \in Ids, Purge(j)
  PROVE  HInv'
<1> DEFINE x == jobs[j]
<1>0. /\ x \in Job /\ JobOK(x, serial) /\ x.st = "ran" /\ x.purge = "asked"
      /\ serial \in Nat /\ gen \in [Dirs -> Nat] /\ Ids = DOMAIN jobs
  BY HInvFacts DEF Purge, Ids
<1>1. x.type = "remove" /\ x.dir \in Dirs
  BY <1>0 DEF JobOK
<1>2. PICK result \in {"done", "failed"} : jobs' = [jobs EXCEPT ![j].purge = result]
  BY DEF Purge
<1>3. PICK y \in Job :
      /\ y = [x EXCEPT !.purge = result] /\ y.type = x.type /\ y.dir = x.dir
      /\ y.old = x.old /\ y.saw = x.saw
      /\ y.by = x.by /\ y.beside = x.beside /\ y.scan = x.scan
      /\ y.blank = x.blank /\ y.purge = result
      /\ y.st = x.st /\ y.ok = x.ok /\ y.made = x.made
  <2>1. [x EXCEPT !.purge = result] \in Job
    BY <1>0 DEF Job
  <2> QED
    BY <1>0, <2>1 DEF Job
<1>4. jobs' = [jobs EXCEPT ![j] = y] /\ UNCHANGED <<serial, list, look, deaths>>
  BY <1>2, <1>3 DEF Purge
<1>5. Moved(x, y, serial) /\ JobOK(y, serial)
  BY <1>0, <1>1, <1>3 DEF Moved, Closed, JobOK
<1>6a. NowAre(jobs', j, y, serial)
  <2>1. serial <= serial /\ serial \in Nat /\ jobs' = [jobs EXCEPT ![j] = y] /\ y \in Job
    BY <1>0, <1>3, <1>4
  <2>2. Moved(jobs[j], y, serial) /\ JobOK(y, serial)
    BY <1>5
  <2> QED
    BY <2>1, <2>2, OneMoved
<1>6. /\ jobs' \in Seq(Job) /\ Len(jobs') = Len(jobs) /\ DOMAIN jobs' = Ids
      /\ \A k \in Ids : /\ jobs'[k] = (IF k = j THEN y ELSE jobs[k])
                        /\ Moved(jobs[k], jobs'[k], serial) /\ JobOK(jobs'[k], serial)
      /\ deaths = 0 /\ y.st \notin {"orphan", "unseen", "done"} =>
           \A k \in Ids : SeenOK(jobs', k)
  BY <1>6a DEF NowAre
<1>7. \A k \in Ids : /\ ~(jobs'[k].made > serial)
                     /\ jobs'[k].st = "done" => jobs[k].st = "done"
  <2>1. \A k \in Ids : jobs[k].made \in Nat /\ jobs[k].made <= serial
    BY HInvFacts, JobNumbers DEF JobOK
  <2>2. y.made = jobs[j].made /\ y.st = jobs[j].st
    BY <1>3
  <2> QED
    BY <1>0, <1>6, <2>1, <2>2
<1>8. /\ HomeOK' /\ gen' \in [Dirs -> Nat]
      /\ \A d \in Dirs : gen'[d] = gen[d] \/ gen'[d] = 0
  <2>1. CASE UNCHANGED <<gen, managed>>
    BY <1>0, <1>4, <2>1 DEF HInv, HomeOK
  <2>2. CASE Erase(x.dir)
    <3>1. /\ gen' = [gen EXCEPT ![x.dir] = 0] /\ managed' = managed \ {x.dir}
          /\ gen \in [Dirs -> 0..MaxSerial] /\ serial \in 1..MaxSerial
          /\ managed \subseteq {d \in Dirs : gen[d] > 0}
          /\ \A d \in Dirs : gen[d] <= serial
      BY <2>2 DEF Erase, HInv, HomeOK, Content
    <3>2. gen' \in [Dirs -> 0..MaxSerial] /\ gen' \in [Dirs -> Nat]
      <4>1. 0 \in 0..MaxSerial
        BY HandlersAssumption
      <4> QED
        BY <1>0, <3>1, <4>1
    <3>3. \A d \in Dirs : gen'[d] = (IF d = x.dir THEN 0 ELSE gen[d])
      BY <3>1
    <3>4. managed' \subseteq {d \in Dirs : gen'[d] > 0}
      BY <3>1, <3>3
    <3>5. \A d \in Dirs : gen'[d] <= serial
      BY <1>0, <3>1, <3>3
    <3> QED
      BY <1>4, <3>1, <3>2, <3>3, <3>4, <3>5 DEF HomeOK, Content
  <2> QED
    BY <2>1, <2>2 DEF Purge
<1>9. /\ removed' \subseteq [dir : Dirs, gen : 1..MaxSerial, job : Nat]
      /\ \A r \in removed' : r.gen <= serial /\ RemovedOK(jobs, r)
  <2>1. /\ removed \subseteq [dir : Dirs, gen : 1..MaxSerial, job : Nat]
        /\ \A r \in removed : r.gen <= serial /\ RemovedOK(jobs, r)
    BY DEF HInv, Core
  <2>2. CASE removed' = removed
    BY <2>1, <2>2
  <2>3. CASE /\ gen[x.dir] > 0
             /\ removed' = removed \cup {[dir |-> x.dir, gen |-> gen[x.dir], job |-> j]}
    <3> DEFINE r == [dir |-> x.dir, gen |-> gen[x.dir], job |-> j]
    <3>1. /\ RemovedOK(jobs, r) /\ r \in [dir : Dirs, gen : 1..MaxSerial, job : Nat]
          /\ r.gen <= serial
      BY <1>0, <1>1, <2>3, PurgedOK
    <3> HIDE DEF r
    <3>2. removed' = removed \cup {r}
      BY <2>3 DEF r
    <3> QED
      BY <2>1, <3>1, <3>2
  <2> QED
    BY <2>2, <2>3 DEF Purge
<1>10. Core(jobs', gen', serial, list, removed')
  <2>1. Core(jobs, gen, serial, list, removed')
    BY <1>9 DEF HInv, Core
  <2>2. \A d \in Dirs : gen'[d] = gen[d] \/ gen'[d] = 0 \/ gen'[d] > serial
    BY <1>8
  <2>3. \A k \in DOMAIN jobs : /\ ~(jobs'[k].made > serial)
                               /\ jobs'[k].st = "done" => jobs[k].st = "done"
    BY <1>0, <1>7
  <2>4. \A k \in DOMAIN jobs : Moved(jobs[k], jobs'[k], serial) /\ JobOK(jobs'[k], serial)
    BY <1>0, <1>6
  <2>5. /\ jobs' \in Seq(Job) /\ Len(jobs') = Len(jobs) /\ serial \in Nat
        /\ serial <= serial /\ gen \in [Dirs -> Nat] /\ gen' \in [Dirs -> Nat]
    BY <1>0, <1>6, <1>8
  <2> QED
    BY <2>1, <2>2, <2>3, <2>4, <2>5, GoesOn
<1>11. deaths = 0 => \A k \in Ids : SeenOK(jobs', k)
  BY <1>0, <1>3, <1>6
<1>12. \A r \in Readers : LookOK(jobs', gen', look[r])
  <2>1. \A d \in Dirs : gen'[d] = gen[d] \/ gen'[d] = 0 \/ gen'[d] > serial
    BY <1>8
  <2> QED
    BY <1>0, <1>6, <1>8, <2>1, LooksGoOn
<1> QED
  BY <1>4, <1>6, <1>8, <1>10, <1>11, <1>12 DEF HInv, Ids

\* A job as NewJob makes it.
IsNew(b, type, d) ==
  /\ b \in Job /\ b.type = type /\ b.dir = d /\ b.purge = "no" /\ b.old = NoDir
  /\ b.by = 0 /\ b.beside = Pending /\ b.made = 0 /\ b.ok = FALSE /\ b.st = "queued"

LEMMA NewJobIsNew ==
  ASSUME NEW type \in {"issue", "renew", "renew-all", "remove"},
         NEW d \in Dirs \cup {NoDir}, Pending \in SUBSET JobIds
  PROVE  IsNew(NewJob(type, d), type, d)
<1>1. 0 \in 0..MaxSerial /\ 0 \in 0..(2 * MaxRequests) /\ {} \in SUBSET JobIds
  BY HandlersAssumption
<1> QED
  BY <1>1 DEF NewJob, Job, IsNew

LEMMA RemovalIsJob ==
  ASSUME NEW b \in Job, NEW saw \in 0..MaxSerial, NEW by \in 0..(2 * MaxRequests),
         NEW beside \in SUBSET JobIds, NEW purge \in {"no", "asked"},
         NEW meant \in Dirs \cup {NoDir}
  PROVE  [b EXCEPT !.purge = purge, !.saw = saw, !.meant = meant, !.by = by,
                   !.beside = beside] \in Job
  BY DEF Job

\* OnDone: the job is done, and what it replaced gets its removal, unless that is
\* refused or cannot be recorded.  The list is dropped, so that whoever comes next sees
\* what the job has made.
LEMMA OnDoneStep ==
  ASSUME HInv, NEW j \in Ids, OnDone(j)
  PROVE  HInv'
<1> DEFINE x == jobs[j]
<1>0. /\ x \in Job /\ JobOK(x, serial) /\ x.st = "ran" /\ ~(x.ok /\ x.purge = "asked")
      /\ serial \in Nat /\ gen \in [Dirs -> Nat] /\ Ids = DOMAIN jobs
      /\ jobs \in Seq(Job) /\ Ids = 1..Len(jobs) /\ Len(jobs) \in 0..(2 * MaxRequests)
      /\ \A k \in Ids : jobs[k] \in Job
      /\ \A k \in Ids : FollowOK(jobs, k) /\ BesideOK(jobs, k)
  BY HInvFacts DEF OnDone, Ends, Ids, HInv, Core, JobsInv
<1>1. /\ list' = NoList /\ UNCHANGED <<gen, managed, serial, look, deaths, removed>>
      /\ \/ ~OwesRemoval(x) /\ jobs' = [jobs EXCEPT ![j].st = "done"]
         \/ OwesRemoval(x) /\ jobs' = Append([jobs EXCEPT ![j].st = "done"], RemovalOf(j))
         \/ OwesRemoval(x) /\ jobs' = [jobs EXCEPT ![j].st = "done", ![j].left = TRUE]
  BY DEF OnDone, Ends, home
<1>2. PICK y \in Job :
      /\ y.type = x.type /\ y.dir = x.dir /\ y.old = x.old /\ y.saw = x.saw
      /\ y.by = x.by /\ y.beside = x.beside /\ y.scan = x.scan /\ y.blank = x.blank
      /\ y.purge = x.purge /\ y.st = "done" /\ y.ok = x.ok /\ y.made = x.made
      /\ \/ jobs' = [jobs EXCEPT ![j] = y] /\ (OwesRemoval(x) => y.left)
         \/ OwesRemoval(x) /\ jobs' = Append([jobs EXCEPT ![j] = y], RemovalOf(j))
  <2> DEFINE y1 == [x EXCEPT !.st = "done"]
             y2 == [x EXCEPT !.st = "done", !.left = TRUE]
  <2>1. /\ y1 \in Job /\ y1.type = x.type /\ y1.dir = x.dir /\ y1.old = x.old
        /\ y1.saw = x.saw /\ y1.by = x.by /\ y1.beside = x.beside /\ y1.scan = x.scan
        /\ y1.blank = x.blank /\ y1.purge = x.purge /\ y1.st = "done" /\ y1.ok = x.ok
        /\ y1.made = x.made
    BY <1>0 DEF Job
  <2>2. /\ y2 \in Job /\ y2.type = x.type /\ y2.dir = x.dir /\ y2.old = x.old
        /\ y2.saw = x.saw /\ y2.by = x.by /\ y2.beside = x.beside /\ y2.scan = x.scan
        /\ y2.blank = x.blank /\ y2.purge = x.purge /\ y2.st = "done" /\ y2.ok = x.ok
        /\ y2.made = x.made /\ y2.left
    BY <1>0 DEF Job
  <2>3. [jobs EXCEPT ![j].st = "done"] = [jobs EXCEPT ![j] = y1]
    OBVIOUS
  <2>4. [jobs EXCEPT ![j].st = "done", ![j].left = TRUE] = [jobs EXCEPT ![j] = y2]
    OBVIOUS
  <2> HIDE DEF y1, y2
  <2>5. CASE OwesRemoval(x) /\ jobs' = [jobs EXCEPT ![j].st = "done", ![j].left = TRUE]
    BY <2>2, <2>4, <2>5
  <2>6. CASE jobs' = [jobs EXCEPT ![j].st = "done"] /\ ~OwesRemoval(x)
    BY <2>1, <2>3, <2>6
  <2>7. CASE OwesRemoval(x) /\ jobs' = Append([jobs EXCEPT ![j].st = "done"], RemovalOf(j))
    BY <2>1, <2>3, <2>7
  <2> QED
    BY <1>1, <2>5, <2>6, <2>7
<1> DEFINE mid == [jobs EXCEPT ![j] = y]
<1>4. Moved(x, y, serial) /\ JobOK(y, serial)
  BY <1>0, <1>2 DEF Moved, Closed, JobOK
<1>5. NowAre(mid, j, y, serial)
  <2>1. serial <= serial /\ serial \in Nat
    BY <1>0
  <2>2. Moved(jobs[j], y, serial) /\ JobOK(y, serial)
    BY <1>4
  <2> QED
    BY <2>1, <2>2, OneMoved
<1>2a. \/ jobs' = mid /\ (OwesRemoval(x) => y.left)
       \/ OwesRemoval(x) /\ jobs' = Append(mid, RemovalOf(j))
  BY <1>2
<1> HIDE DEF mid
<1>6. /\ mid \in Seq(Job) /\ Len(mid) = Len(jobs) /\ DOMAIN mid = Ids
      /\ \A k \in Ids : /\ mid[k] = (IF k = j THEN y ELSE jobs[k])
                        /\ Moved(jobs[k], mid[k], serial) /\ JobOK(mid[k], serial)
  BY <1>5 DEF NowAre
<1>7. Core(mid, gen, serial, NoList, removed)
  <2>1. \A k \in Ids : jobs[k].made \in Nat /\ jobs[k].made <= serial
    BY HInvFacts, JobNumbers DEF JobOK
  <2>2. y.made = jobs[j].made
    BY <1>2
  <2>3. \A k \in DOMAIN jobs : ~(mid[k].made > serial)
    BY <1>0, <1>6, <2>1, <2>2
  <2>4. Core(jobs, gen, serial, list, removed)
    BY DEF HInv
  <2>5. \A k \in DOMAIN jobs : Moved(jobs[k], mid[k], serial) /\ JobOK(mid[k], serial)
    BY <1>0, <1>6
  <2>6. /\ mid \in Seq(Job) /\ Len(mid) = Len(jobs) /\ serial \in Nat
        /\ serial <= serial /\ gen \in [Dirs -> Nat]
    BY <1>0, <1>6
  <2> QED
    BY <2>3, <2>4, <2>5, <2>6, GoesOn
<1>7a. \A r \in Readers : LookOK(mid, gen, look[r])
  BY <1>0, <1>6, LooksGoOn
<1>8. /\ HomeOK' /\ list' \in List \cup {NoList} /\ deaths' \in 0..MaxDeaths
      /\ Ids' = DOMAIN jobs' /\ look' \in [Readers -> Lookup \cup {Idle}]
  BY <1>1 DEF HInv, HomeOK, Ids
<1>9. ASSUME deaths = 0, NEW k \in Ids, k # j PROVE SeenOK(mid, k)
  <2>1. SeenOK(jobs, k) /\ mid[k] = jobs[k]
    BY <1>6, <1>9 DEF HInv
  <2>2. \A f \in Ids : mid[f].by = jobs[f].by
    BY <1>6 DEF Moved
  <2> QED
    BY <1>0, <1>6, <2>1, <2>2 DEF SeenOK
<1>10. CASE jobs' = mid /\ (OwesRemoval(x) => y.left)
  <2>1. deaths = 0 => \A k \in Ids : SeenOK(mid, k)
    <3>1. mid[j] = y
      BY <1>6
    <3>2. y.ok /\ y.old # NoDir => CN[y.old] \in Refused \/ y.left
      BY <1>2, <1>10 DEF OwesRemoval
    <3>3. y.st = "done" /\ ~(y.ok /\ y.purge = "asked")
      BY <1>0, <1>2
    <3>4. SeenOK(mid, j)
      BY <3>1, <3>2, <3>3 DEF SeenOK
    <3> QED
      BY <1>9, <3>4
  <2> QED
    BY <1>1, <1>6, <1>7, <1>7a, <1>8, <1>10, <2>1 DEF HInv
<1>11. CASE OwesRemoval(x) /\ jobs' = Append(mid, RemovalOf(j))
  <2> DEFINE new == RemovalOf(j)
             purge == IF x.old \in Within THEN "asked" ELSE "no"
  <2>1. jobs' = Append(mid, new)
    BY <1>11
  <2>2. /\ x.ok /\ x.old \in Dirs /\ x.type = "issue"
        /\ x.meant \in Dirs \cup {NoDir} /\ x.saw \in 0..MaxSerial
    BY <1>0, <1>11 DEF Job, JobOK, OwesRemoval
  <2>3. j \in 1..(2 * MaxRequests) /\ Pending \ {j} \in SUBSET JobIds /\ j \in Nat
    BY <1>0, HandlersAssumption DEF Pending, JobIds
  <2>4. j \in 0..(2 * MaxRequests) /\ Pending \in SUBSET JobIds
    BY <1>0, <2>3, HandlersAssumption DEF Pending, JobIds
  <2>5. PICK b \in Job :
        /\ b = NewJob("remove", x.old) /\ b.type = "remove" /\ b.dir = x.old
        /\ b.old = NoDir /\ b.made = 0 /\ b.ok = FALSE /\ b.st = "queued"
    <3>1. IsNew(NewJob("remove", x.old), "remove", x.old)
      BY <2>2, <2>4, NewJobIsNew
    <3> QED
      BY <3>1 DEF IsNew
  <2>6. new = [b EXCEPT !.purge = purge, !.saw = x.saw, !.meant = x.meant, !.by = j,
                        !.beside = Pending \ {j}]
    BY <2>5 DEF RemovalOf, FollowUp
  <2>7. purge \in {"no", "asked"} /\ (purge = "no" => x.old \notin Within)
    OBVIOUS
  <2> HIDE DEF new, purge
  <2>8. /\ new \in Job /\ new.type = "remove" /\ new.dir = x.old /\ new.old = NoDir
        /\ new.purge = purge /\ new.by = j /\ new.beside = Pending \ {j} /\ new.made = 0
        /\ new.ok = FALSE /\ new.st = "queued"
    <3>1. /\ new.type = b.type /\ new.dir = b.dir /\ new.old = b.old
          /\ new.purge = purge /\ new.by = j /\ new.beside = Pending \ {j}
          /\ new.made = b.made /\ new.ok = b.ok /\ new.st = b.st
      BY <2>6 DEF Job
    <3>2. x.saw \in 0..MaxSerial /\ x.meant \in Dirs \cup {NoDir}
      BY <2>2
    <3>3. Pending \ {j} \in SUBSET JobIds
      BY <2>3
    <3>4. new \in Job
      BY <2>4, <2>6, <2>7, <3>2, <3>3, RemovalIsJob, ZenonT(60)
    <3> QED
      BY <2>5, <3>1, <3>4
  <2>9. JobOK(new, serial)
    BY <1>0, <2>2, <2>8 DEF JobOK
  <2>10. ComesIn(mid, gen, new)
    <3>1. \A w \in Ids : w \in new.beside \/ Closed(mid[w])
      BY <1>2, <1>6, <2>8 DEF Pending, Closed
    <3>2. \A w \in Ids : mid[w].by = jobs[w].by /\ mid[w].beside = jobs[w].beside
      BY <1>6 DEF Moved
    <3>3. \A w \in Ids : jobs[w].by # j
      <4> SUFFICES ASSUME NEW w \in Ids, jobs[w].by = j PROVE FALSE
        OBVIOUS
      <4>1. j # 0
        BY <2>3
      <4>2. jobs[j].st = "done"
        BY <1>0, <4>1 DEF FollowOK
      <4> QED
        BY <1>0, <4>2
    <3>4. ASSUME NEW w \in Ids, j < w PROVE j \in jobs[w].beside
      <4>1. j \in 1..(w - 1) /\ BesideOK(jobs, w)
        BY <1>0, <2>3, <3>4
      <4> QED
        BY <1>0, <4>1 DEF BesideOK, Closed
    <3>5. mid[j].st = "done" /\ mid[j].ok /\ mid[j].old = new.dir /\ j # 0
      <4>1. mid[j] = y
        BY <1>6
      <4>2. y.st = "done" /\ y.ok = x.ok /\ y.old = x.old
        BY <1>2
      <4>3. new.dir = x.old /\ j # 0
        BY <2>3, <2>8
      <4>4. mid[j].ok = x.ok
        BY <4>1, <4>2
      <4> QED
        BY <2>2, <4>1, <4>2, <4>3, <4>4
    <3>6. new.purge = "no" => new.dir \notin Within
      BY <2>7, <2>8
    <3> QED
      BY <1>6, <2>8, <3>1, <3>2, <3>3, <3>4, <3>5, <3>6 DEF ComesIn
  <2>11. /\ Core(jobs', gen, serial, NoList, removed)
         /\ \A k \in Lookup \cup {Idle} : LookOK(mid, gen, k) => LookOK(jobs', gen, k)
    BY <1>0, <1>7, <2>1, <2>8, <2>9, <2>10, Submitted
  <2>12. \A r \in Readers : LookOK(jobs', gen, look[r])
    BY <1>7a, <2>11 DEF HInv
  <2>13. ASSUME deaths = 0, NEW k \in DOMAIN jobs' PROVE SeenOK(jobs', k)
    <3>1. /\ DOMAIN jobs' = Ids \cup {Len(jobs) + 1} /\ jobs'[Len(jobs) + 1] = new
          /\ \A w \in Ids : jobs'[w] = mid[w]
          /\ Len(jobs) + 1 \notin Ids
      <4>1. /\ Len(jobs) \in Nat /\ DOMAIN mid = 1..Len(jobs) /\ Len(mid) = Len(jobs)
            /\ Ids = 1..Len(jobs) /\ mid \in Seq(Job) /\ new \in Job
        BY <1>0, <1>6, <2>8
      <4> QED
        BY <2>1, <4>1, AppendProperties
    <3>2. CASE k = Len(jobs) + 1
      BY <2>8, <3>1, <3>2 DEF SeenOK
    <3>3. CASE k \in Ids /\ k # j
      <4>1. SeenOK(mid, k)
        BY <1>9, <2>13, <3>3
      <4> QED
        BY <1>6, <3>1, <3>3, <4>1 DEF SeenOK
    <3>4. CASE k = j
      <4>1. jobs'[j] = y /\ jobs'[Len(jobs) + 1].by = j /\ Len(jobs) + 1 \in DOMAIN jobs'
        BY <1>6, <2>8, <3>1
      <4> QED
        BY <1>0, <1>2, <3>4, <4>1 DEF SeenOK
    <3> QED
      BY <2>13, <3>1, <3>2, <3>3, <3>4
  <2> QED
    BY <1>1, <1>8, <2>11, <2>12, <2>13 DEF HInv
<1> QED
  BY <1>2a, <1>10, <1>11

\* The server starts again: what was queued or had run is nobody's any more.
LEMMA RestartStep ==
  ASSUME HInv, Restart
  PROVE  HInv'
<1>0. /\ jobs \in Seq(Job) /\ Ids = 1..Len(jobs) /\ Ids = DOMAIN jobs /\ Len(jobs) \in Nat
      /\ \A k \in Ids : jobs[k] \in Job /\ JobOK(jobs[k], serial)
      /\ serial \in Nat /\ gen \in [Dirs -> Nat]
  BY HInvFacts DEF Ids
<1>1. /\ deaths' \in 0..MaxDeaths /\ deaths' # 0 /\ list' = NoList
      /\ look' = [r \in Readers |-> Idle]
      /\ UNCHANGED <<gen, managed, serial, removed>>
  <2>1. deaths \in 0..MaxDeaths /\ deaths < MaxDeaths /\ deaths' = deaths + 1
    BY DEF HInv, Restart
  <2> QED
    BY <2>1, HandlersAssumption DEF Restart, home
<1>2. PICK running \in SUBSET {j \in Ids : jobs[j].st = "queued"} :
        jobs' = [j \in Ids |-> [jobs[j] EXCEPT
                   !.st = IF j \in running THEN "orphan"
                          ELSE IF @ \in {"queued", "ran"} THEN "done" ELSE @]]
  BY DEF Restart
<1> DEFINE status(k) == IF k \in running THEN "orphan"
                        ELSE IF jobs[k].st \in {"queued", "ran"} THEN "done" ELSE jobs[k].st
<1>3. ASSUME NEW k \in Ids
      PROVE  /\ jobs'[k] \in Job /\ Moved(jobs[k], jobs'[k], serial) /\ JobOK(jobs'[k], serial)
             /\ jobs'[k].made = jobs[k].made
  <2> DEFINE x == jobs[k]
             st == status(k)
  <2>1. x \in Job /\ JobOK(x, serial)
    BY <1>0
  <2>2. jobs'[k] = [x EXCEPT !.st = st]
    BY <1>2
  <2>3. /\ x.st \in {"queued", "ran", "orphan", "done", "unseen"}
        /\ st \in {"queued", "ran", "orphan", "done", "unseen"}
        /\ Closed(x) => st = x.st
        /\ st \in {"queued", "orphan"} => x.st \in {"queued", "orphan"}
    BY <2>1 DEF Closed, Job
  <2> HIDE DEF st, status
  <2>4. PICK y \in Job :
        /\ y = [x EXCEPT !.st = st] /\ y.type = x.type /\ y.dir = x.dir /\ y.old = x.old
        /\ y.saw = x.saw /\ y.by = x.by /\ y.beside = x.beside /\ y.scan = x.scan
        /\ y.blank = x.blank /\ y.purge = x.purge
        /\ y.st = st /\ y.ok = x.ok /\ y.made = x.made /\ (st = x.st => y = x)
    <3>1. [x EXCEPT !.st = st] \in Job
      BY <2>1, <2>3 DEF Job
    <3>2. st = x.st => [x EXCEPT !.st = st] = x
      BY <2>1 DEF Job
    <3> QED
      BY <2>1, <3>1, <3>2 DEF Job
  <2>5. Moved(x, y, serial)
    BY <2>3, <2>4 DEF Moved
  <2>6. JobOK(y, serial)
    BY <2>1, <2>3, <2>4 DEF JobOK
  <2> QED
    BY <2>2, <2>4, <2>5, <2>6
<1>4. DOMAIN jobs' = Ids
  BY <1>2
<1>5. jobs' \in Seq(Job) /\ Len(jobs') = Len(jobs)
  <2>1. jobs' = [k \in 1..Len(jobs) |-> jobs'[k]]
    BY <1>0, <1>2
  <2> QED
    BY <1>0, <1>3, <1>4, <2>1
<1>6. Core(jobs', gen, serial, NoList, removed)
  <2>1. \A k \in Ids : jobs[k].made \in Nat /\ jobs[k].made <= serial
    BY HInvFacts, JobNumbers DEF JobOK
  <2>2. \A k \in DOMAIN jobs : ~(jobs'[k].made > serial)
    BY <1>0, <1>3, <2>1
  <2>3. \A k \in DOMAIN jobs : Moved(jobs[k], jobs'[k], serial) /\ JobOK(jobs'[k], serial)
    BY <1>0, <1>3
  <2>4. Core(jobs, gen, serial, list, removed) /\ serial <= serial
    BY <1>0 DEF HInv
  <2> QED
    BY <1>0, <1>5, <2>2, <2>3, <2>4, GoesOn
<1>7. /\ look' \in [Readers -> Lookup \cup {Idle}]
      /\ \A r \in Readers : LookOK(jobs', gen, look'[r])
  BY <1>1 DEF LookOK
<1> QED
  BY <1>1, <1>6, <1>7 DEF HInv, HomeOK

LEMMA CronStep ==
  ASSUME HInv, Cron
  PROVE  HInv'
<1>0. /\ jobs \in Seq(Job) /\ Ids = DOMAIN jobs /\ managed \subseteq Dirs
      /\ \A k \in Ids : jobs[k] \in Job /\ JobOK(jobs[k], serial)
      /\ serial \in Nat /\ gen \in [Dirs -> Nat]
  BY HInvFacts DEF Ids
<1>1. PICK d \in managed : Write({d})
  BY DEF Cron
<1>2. {d} \in SUBSET Dirs /\ UNCHANGED <<list, look, jobs, deaths, removed>>
  BY <1>0 DEF Cron
<1>3. /\ HomeOK' /\ serial' = serial + 1 /\ serial' \in Nat /\ gen' \in [Dirs -> Nat]
      /\ \A e \in Dirs : gen'[e] = gen[e] \/ gen'[e] > serial
  BY <1>1, <1>2, WriteStep
<1>4. \A k \in Ids : jobs[k].made \in Nat /\ jobs[k].made <= serial
  BY <1>0, JobNumbers DEF JobOK
<1>5. \A k \in DOMAIN jobs : /\ Moved(jobs[k], jobs[k], serial) /\ JobOK(jobs[k], serial')
                             /\ ~(jobs[k].made > serial)
  <2> SUFFICES ASSUME NEW k \in Ids
               PROVE  /\ Moved(jobs[k], jobs[k], serial) /\ JobOK(jobs[k], serial')
                      /\ ~(jobs[k].made > serial)
    BY <1>0
  <2>1. jobs[k].made <= serial' /\ ~(jobs[k].made > serial)
    BY <1>0, <1>3, <1>4
  <2> QED
    BY <1>0, <2>1 DEF Moved, JobOK
<1>6. Core(jobs, gen', serial', list, removed)
  <2>1. Core(jobs, gen, serial, list, removed) /\ serial <= serial'
    BY <1>0, <1>3 DEF HInv
  <2> QED
    BY <1>0, <1>3, <1>5, <2>1, GoesOn
<1>7. \A r \in Readers : LookOK(jobs, gen', look[r])
  <2>1. \A e \in Dirs : gen'[e] = gen[e] \/ gen'[e] = 0 \/ gen'[e] > serial
    BY <1>3
  <2>2. jobs \in Seq(Job) /\ Len(jobs) = Len(jobs)
    BY <1>0
  <2>3. \A k \in Ids : Moved(jobs[k], jobs[k], serial)
    BY <1>0, <1>5
  <2> QED
    BY <1>3, <2>1, <2>2, <2>3, LooksGoOn
<1> QED
  BY <1>2, <1>3, <1>6, <1>7 DEF HInv, Ids

-----------------------------------------------------------------------------
(* Requests.                                                               *)

\* What the steps of a request rest on.
LEMMA LookFacts ==
  ASSUME HInv, NEW r \in Readers
  PROVE  /\ look \in [Readers -> Lookup \cup {Idle}] /\ look[r] \in Lookup \cup {Idle}
         /\ LookOK(jobs, gen, look[r]) /\ gen \in Content /\ list \in List \cup {NoList}
         /\ Pending \in SUBSET JobIds /\ Len(jobs) \in 0..(2 * MaxRequests)
         /\ \A w \in DOMAIN jobs : w \in Pending \/ Closed(jobs[w])
<1>1. Ids \subseteq JobIds /\ Len(jobs) \in 0..(2 * MaxRequests) /\ Ids = DOMAIN jobs
  BY HInvFacts, HandlersAssumption DEF JobIds, Ids
<1> QED
  BY <1>1 DEF HInv, HomeOK, Pending, Closed

\* A request r that comes, goes on or goes, and the list it may leave behind.
LEMMA LookChanges ==
  ASSUME HInv, NEW r \in Readers, NEW k \in Lookup \cup {Idle},
         look' = [look EXCEPT ![r] = k], LookOK(jobs, gen, k),
         list' \in List \cup {NoList}, ListOK(jobs, gen, list'),
         UNCHANGED <<home, jobs, deaths, removed>>
  PROVE  HInv'
<1>1. /\ look' \in [Readers -> Lookup \cup {Idle}]
      /\ \A q \in Readers : LookOK(jobs, gen, look'[q])
  BY DEF HInv
<1>2. Core(jobs, gen, serial, list', removed)
  BY DEF HInv, Core
<1> QED
  BY <1>1, <1>2 DEF HInv, HomeOK, Ids, home

LEMMA ComesStep ==
  ASSUME HInv, NEW r \in Readers, NEW at \in {"scanning", "refreshing", "found"},
         NEW certs \in Content, NEW over \in SUBSET JobIds,
         Knows(jobs, gen, certs, over), at # "found" => over = {},
         Comes(r, at, certs, over)
  PROVE  HInv'
<1> DEFINE k == [at |-> at, certs |-> certs, over |-> over, beside |-> Pending,
                 since |-> Len(jobs)]
<1>1. /\ k \in Lookup /\ k.at = at /\ k.certs = certs /\ k.over = over
      /\ k.beside = Pending /\ k.since = Len(jobs)
  BY LookFacts DEF Lookup
<1>2. look' = [look EXCEPT ![r] = k] /\ UNCHANGED <<home, list, jobs, deaths, removed>>
  BY DEF Comes
<1> HIDE DEF k
<1>3. LookOK(jobs, gen, k)
  <2>1. Pending \subseteq Window(jobs, k)
    BY <1>1 DEF Window
  <2>2. Knows(jobs, gen, certs, Window(jobs, k) \cup over)
    BY DEF Knows
  <2>3. k.since <= Len(jobs)
    BY <1>1, LookFacts, HandlersAssumption
  <2> QED
    BY <1>1, <2>1, <2>2, <2>3, LookFacts DEF LookOK
<1>4. ListOK(jobs, gen, list) /\ list \in List \cup {NoList}
  BY DEF HInv, Core
<1> QED
  BY <1>1, <1>2, <1>3, <1>4, LookChanges

\* What is in the home is never behind.
LEMMA GenKnows ==
  ASSUME HInv
  PROVE  Knows(jobs, gen, gen, {})
<1>1. \A w \in DOMAIN jobs : jobs[w].made \in Nat
  BY HInvFacts, JobNumbers DEF Ids
<1> QED
  BY <1>1 DEF Knows

LEMMA LookSteps ==
  ASSUME HInv, NEW r \in Readers, LookStep(r)
  PROVE  HInv'
<1> DEFINE k == look[r]
<1>0. /\ look \in [Readers -> Lookup \cup {Idle}] /\ k \in Lookup \cup {Idle}
      /\ LookOK(jobs, gen, k) /\ gen \in Content /\ list \in List \cup {NoList}
      /\ ListOK(jobs, gen, list)
  BY LookFacts DEF HInv, Core
<1>1. CASE Cached(r)
  <2>1. list # NoList /\ list \in List /\ Comes(r, "found", list.certs, list.over)
    BY <1>0, <1>1 DEF Cached, Fresh
  <2>2. list.certs \in Content /\ list.over \in SUBSET JobIds
    BY <2>1 DEF List
  <2>3. Knows(jobs, gen, list.certs, list.over)
    BY <1>0, <2>1 DEF ListOK
  <2> QED
    BY <2>1, <2>2, <2>3, ComesStep
<1>2. CASE BeginScan(r)
  <2>1. PICK at \in {"scanning", "refreshing"} : Comes(r, at, gen, {})
    BY <1>2 DEF BeginScan
  <2> QED
    BY <1>0, <2>1, GenKnows, ComesStep
<1>3. CASE ReadChanged(r)
  <2>1. /\ k \in Lookup /\ k.at \in {"scanning", "refreshing"}
        /\ UNCHANGED <<home, list, jobs, deaths, removed>>
    BY <1>0, <1>3 DEF ReadChanged, Scanning
  <2>2. PICK d \in Dirs : look' = [look EXCEPT ![r].certs[d] = gen[d]]
    BY <1>3 DEF ReadChanged
  <2> DEFINE certs == [k.certs EXCEPT ![d] = gen[d]]
             m == [k EXCEPT !.certs = certs]
  <2>3. look' = [look EXCEPT ![r] = m]
    BY <2>2
  <2>4. /\ certs \in Content /\ k.certs \in Content
        /\ \A e \in Dirs : certs[e] = IF e = d THEN gen[d] ELSE k.certs[e]
    BY <1>0, <2>1 DEF Lookup, Content
  <2> HIDE DEF certs
  <2>5. /\ m \in Lookup /\ m.at = k.at /\ m.certs = certs /\ m.over = k.over
        /\ m.beside = k.beside /\ m.since = k.since
    BY <2>1, <2>4 DEF Lookup
  <2> HIDE DEF m
  <2>6. k # Idle
    BY <1>3 DEF ReadChanged, Scanning
  <2>7. Window(jobs, m) = Window(jobs, k)
    BY <2>5 DEF Window
  <2>8. Knows(jobs, gen, certs, Window(jobs, k) \cup k.over)
    <3>1. Knows(jobs, gen, k.certs, Window(jobs, k) \cup k.over)
      BY <1>0, <2>6 DEF LookOK
    <3>2. \A w \in DOMAIN jobs : jobs[w].made \in Nat
      BY HInvFacts, JobNumbers DEF Ids
    <3> QED
      BY <2>4, <3>1, <3>2 DEF Knows
  <2>9. LookOK(jobs, gen, m)
    BY <1>0, <2>5, <2>6, <2>7, <2>8 DEF LookOK
  <2> QED
    BY <1>0, <2>1, <2>3, <2>5, <2>9, LookChanges
<1>4. CASE Store(r)
  <2>1. /\ k \in Lookup /\ k # Idle /\ k.at \in {"scanning", "refreshing"} /\ k.over = {}
        /\ UNCHANGED <<home, jobs, deaths, removed>>
    BY <1>0, <1>4 DEF Store, Scanning, LookOK
  <2>2. /\ list' = [certs |-> k.certs, over |-> During(k)]
        /\ look' = [look EXCEPT ![r] = IF k.at = "refreshing" THEN Idle
                                       ELSE [k EXCEPT !.at = "found", !.over = list'.over]]
    BY <1>4 DEF Store
  <2>3. During(k) = Window(jobs, k) /\ During(k) \in SUBSET JobIds /\ k.certs \in Content
    <3>1. k.beside \in SUBSET JobIds /\ k.since \in 0..(2 * MaxRequests) /\ k.certs \in Content
      BY <2>1 DEF Lookup
    <3>2. (k.since + 1)..Len(jobs) \subseteq JobIds
      BY <3>1, LookFacts, HandlersAssumption DEF JobIds
    <3> QED
      BY <3>1, <3>2 DEF During, Window
  <2>4. list' \in List /\ list'.certs = k.certs /\ list'.over = During(k)
    BY <2>2, <2>3 DEF List
  <2>5. Knows(jobs, gen, k.certs, During(k))
    <3>1. Knows(jobs, gen, k.certs, Window(jobs, k) \cup k.over)
      BY <1>0, <2>1 DEF LookOK
    <3> QED
      BY <2>1, <2>3, <3>1
  <2>6. ListOK(jobs, gen, list')
    BY <2>4, <2>5 DEF ListOK
  <2>7. CASE k.at = "refreshing"
    <3>1. look' = [look EXCEPT ![r] = Idle] /\ LookOK(jobs, gen, Idle)
      BY <2>2, <2>7 DEF LookOK
    <3> QED
      BY <2>1, <2>4, <2>6, <3>1, LookChanges
  <2>8. CASE k.at # "refreshing"
    <3> DEFINE m == [k EXCEPT !.at = "found", !.over = During(k)]
    <3>1. look' = [look EXCEPT ![r] = m]
      BY <2>2, <2>4, <2>8
    <3>2. /\ m \in Lookup /\ m.at = "found" /\ m.certs = k.certs /\ m.over = During(k)
          /\ m.beside = k.beside /\ m.since = k.since
      BY <2>1, <2>3 DEF Lookup
    <3> HIDE DEF m
    <3>3. Window(jobs, m) = Window(jobs, k)
      BY <3>2 DEF Window
    <3>4. Knows(jobs, gen, k.certs, Window(jobs, k) \cup During(k))
      BY <2>5 DEF Knows
    <3>5. LookOK(jobs, gen, m)
      BY <1>0, <2>1, <3>2, <3>3, <3>4 DEF LookOK
    <3> QED
      BY <2>1, <2>4, <2>6, <3>1, <3>2, <3>5, LookChanges
  <2> QED
    BY <2>7, <2>8
<1>5. CASE ScanFails(r) \/ Answer(r)
  <2>1. /\ look' = [look EXCEPT ![r] = Idle] /\ LookOK(jobs, gen, Idle)
        /\ UNCHANGED <<home, list, jobs, deaths, removed>>
    BY <1>5 DEF ScanFails, Answer, LookOK
  <2> QED
    BY <1>0, <2>1, LookChanges
<1> QED
  BY <1>1, <1>2, <1>3, <1>4, <1>5 DEF LookStep

\* A request that submits a job and has seen the target of it in some list.
LEMMA RequestStep ==
  ASSUME HInv, NEW new \in Job, Request(new), JobOK(new, serial),
         new.by = 0, new.st = "queued", ~new.ok, new.made = 0,
         \A w \in DOMAIN jobs : w \in new.beside \/ Closed(jobs[w]),
         NEW certs, Knows(jobs, gen, certs, new.beside \cup new.scan),
         Target(new) \in Dirs => new.saw = certs[Target(new)],
         look' \in [Readers -> Lookup \cup {Idle}],
         \A q \in Readers : look'[q] \in {look[q], Idle}
  PROVE  HInv'
<1>0. /\ jobs \in Seq(Job) /\ Ids = DOMAIN jobs /\ gen \in [Dirs -> Nat] /\ serial \in Nat
  BY HInvFacts DEF Ids
<1>1. /\ Cardinality(RequestsOf(jobs)) < MaxRequests /\ jobs' = Append(jobs, new)
      /\ UNCHANGED <<gen, managed, serial, list, deaths, removed>>
  BY DEF Request, MoreToCome, Requests, RequestsOf, Ids, home
<1>2. Core(jobs, gen, serial, list, removed)
  BY DEF HInv
<1>3. ComesIn(jobs, gen, new)
  <2>1. \A w \in DOMAIN jobs :
          /\ Target(new) \in Dirs /\ w \notin new.beside \cup new.scan
          /\ jobs[w].st = "done" /\ jobs[w].made > 0 /\ gen[Target(new)] = jobs[w].made
          => jobs[w].made <= new.saw
    BY DEF Knows
  <2> QED
    BY <1>1, <2>1 DEF ComesIn
<1>4. /\ Core(Append(jobs, new), gen, serial, list, removed)
      /\ (\A k \in DOMAIN jobs : SeenOK(jobs, k))
           => \A k \in DOMAIN Append(jobs, new) : SeenOK(Append(jobs, new), k)
      /\ \A k \in Lookup \cup {Idle} :
           LookOK(jobs, gen, k) => LookOK(Append(jobs, new), gen, k)
  BY <1>0, <1>2, <1>3, Submitted
<1>5. \A q \in Readers : LookOK(jobs', gen, look'[q])
  <2> SUFFICES ASSUME NEW q \in Readers PROVE LookOK(jobs', gen, look'[q])
    OBVIOUS
  <2>1. CASE look'[q] = Idle
    BY <2>1 DEF LookOK
  <2>2. CASE look'[q] = look[q]
    BY <1>1, <1>4, <2>2, LookFacts
  <2> QED
    BY <2>1, <2>2
<1> QED
  BY <1>0, <1>1, <1>4, <1>5 DEF HInv, HomeOK, Ids

\* One that has looked the target up.
LEMMA RequestOfStep ==
  ASSUME HInv, NEW r \in Readers, look[r] # Idle, NEW job \in Job, RequestOf(r, job),
         JobOK(job, serial), job.by = 0, job.st = "queued", ~job.ok, job.made = 0,
         Target(job) \in Dirs => job.saw = look[r].certs[Target(job)]
  PROVE  HInv'
<1> DEFINE k == look[r]
           new == [job EXCEPT !.beside = During(k), !.scan = k.over]
<1>1. /\ k \in Lookup /\ look \in [Readers -> Lookup \cup {Idle}]
      /\ Knows(jobs, gen, k.certs, Window(jobs, k) \cup k.over)
      /\ \A w \in DOMAIN jobs : w \in Window(jobs, k) \/ Closed(jobs[w])
  BY LookFacts DEF LookOK
<1>2. During(k) = Window(jobs, k) /\ During(k) \in SUBSET JobIds /\ k.over \in SUBSET JobIds
  <2>1. /\ k.beside \in SUBSET JobIds /\ k.since \in 0..(2 * MaxRequests)
        /\ k.over \in SUBSET JobIds
    BY <1>1 DEF Lookup
  <2>2. (k.since + 1)..Len(jobs) \subseteq JobIds
    BY <2>1, LookFacts, HandlersAssumption DEF JobIds
  <2> QED
    BY <2>1, <2>2 DEF During, Window
<1>3. Request(new) /\ look' = [look EXCEPT ![r] = Idle]
  BY DEF RequestOf
<1> HIDE DEF k
<1>4. /\ new \in Job /\ new.type = job.type /\ new.dir = job.dir /\ new.old = job.old
      /\ new.purge = job.purge /\ new.blank = job.blank /\ new.saw = job.saw /\ new.by = job.by
      /\ new.beside = During(k) /\ new.scan = k.over /\ new.made = job.made
      /\ new.ok = job.ok /\ new.st = job.st
  BY <1>2 DEF Job
<1> HIDE DEF new
<1>5. JobOK(new, serial) /\ Target(new) = Target(job)
  BY <1>4 DEF JobOK, Target
<1>6. /\ look' \in [Readers -> Lookup \cup {Idle}]
      /\ \A q \in Readers : look'[q] \in {look[q], Idle}
  BY <1>1, <1>3
<1>7. /\ \A w \in DOMAIN jobs : w \in new.beside \/ Closed(jobs[w])
      /\ Knows(jobs, gen, k.certs, new.beside \cup new.scan)
      /\ Target(new) \in Dirs => new.saw = k.certs[Target(new)]
  BY <1>1, <1>2, <1>4, <1>5 DEF k
<1>8. new.by = 0 /\ new.st = "queued" /\ ~new.ok /\ new.made = 0
  BY <1>4
<1> QED
  BY <1>3, <1>4, <1>5, <1>6, <1>7, <1>8, RequestStep

LEMMA FoundSteps ==
  ASSUME HInv, NEW r \in Readers, FoundStep(r)
  PROVE  HInv'
<1> DEFINE k == look[r]
<1>0. PICK meant \in Dirs, d \in Dirs :
        RenewCert(r, meant, d) \/ DeleteCert(r, meant, d) \/ ReissueCert(r, meant, d)
  BY DEF FoundStep
<1>1. /\ k # Idle /\ k \in Lookup /\ k.certs[d] \in 0..MaxSerial /\ NoDir \notin Dirs
      /\ serial \in Nat
  <2>1. k # Idle /\ k \in Lookup
    BY <1>0, LookFacts DEF RenewCert, DeleteCert, ReissueCert, Finds, Found
  <2>2. k.certs \in [Dirs -> 0..MaxSerial]
    BY <2>1 DEF Lookup, Content
  <2> QED
    BY <2>1, <2>2, HInvFacts, HandlersAssumption DEF NoDir
<1>2. ASSUME NEW type \in {"issue", "renew", "renew-all", "remove"}, NEW e \in Dirs
      PROVE  IsNew(NewJob(type, e), type, e)
  BY LookFacts, NewJobIsNew
<1>3. ASSUME NEW type \in {"issue", "renew"}, NEW e \in Dirs, RequestOf(r, NewJob(type, e))
      PROVE  HInv'
  <2> DEFINE b == NewJob(type, e)
  <2>1. /\ b \in Job /\ b.type = type /\ b.dir = e /\ b.purge = "no" /\ b.old = NoDir
        /\ b.by = 0 /\ b.made = 0 /\ b.ok = FALSE /\ b.st = "queued"
    <3>1. IsNew(b, type, e)
      BY <1>2
    <3> HIDE DEF b
    <3> QED
      BY <3>1 DEF IsNew
  <2>2. RequestOf(r, b)
    BY <1>3
  <2> HIDE DEF b
  <2>3. JobOK(b, serial) /\ Target(b) \notin Dirs
    BY <1>1, <1>3, <2>1 DEF JobOK, Target
  <2> QED
    BY <1>1, <2>1, <2>2, <2>3, RequestOfStep
<1>4. CASE RenewCert(r, meant, d)
  BY <1>3, <1>4 DEF RenewCert
<1>5. CASE DeleteCert(r, meant, d)
  <2> DEFINE b == NewJob("remove", d)
  <2>1. /\ b \in Job /\ b.type = "remove" /\ b.dir = d /\ b.old = NoDir
        /\ b.by = 0 /\ b.made = 0 /\ b.ok = FALSE /\ b.st = "queued"
    <3>1. IsNew(b, "remove", d)
      BY <1>2
    <3> HIDE DEF b
    <3> QED
      BY <3>1 DEF IsNew
  <2>2. PICK purge \in {"no", "asked"} :
          RequestOf(r, [b EXCEPT !.purge = purge, !.saw = k.certs[d], !.meant = meant])
    BY <1>5 DEF DeleteCert
  <2> HIDE DEF b
  <2> DEFINE new == [b EXCEPT !.purge = purge, !.saw = k.certs[d], !.meant = meant]
  <2>3. /\ new \in Job /\ new.type = "remove" /\ new.dir = d /\ new.old = NoDir
        /\ new.saw = k.certs[d] /\ new.by = 0 /\ new.made = 0 /\ new.ok = FALSE
        /\ new.st = "queued"
    BY <1>1, <2>1 DEF Job
  <2>4. RequestOf(r, new)
    BY <2>2
  <2> HIDE DEF new
  <2>5. JobOK(new, serial) /\ Target(new) = d
    BY <1>1, <2>3 DEF JobOK, Target
  <2> QED
    BY <1>1, <2>3, <2>4, <2>5, RequestOfStep
<1>6. CASE ReissueCert(r, meant, d)
  <2>1. PICK e \in Dirs, blank \in BOOLEAN :
          \/ RequestOf(r, NewJob("issue", e))
          \/ /\ Replaces(e, blank, d)
             /\ RequestOf(r, [NewJob("issue", e) EXCEPT
                                !.old = d, !.blank = blank /\ CN[d] = e[1],
                                !.saw = k.certs[d], !.meant = meant])
    BY <1>6 DEF ReissueCert
  <2>2. CASE RequestOf(r, NewJob("issue", e))
    BY <1>3, <2>2
  <2>3. CASE /\ Replaces(e, blank, d)
             /\ RequestOf(r, [NewJob("issue", e) EXCEPT
                                !.old = d, !.blank = blank /\ CN[d] = e[1],
                                !.saw = k.certs[d], !.meant = meant])
    <3> DEFINE b == NewJob("issue", e)
               same == blank /\ CN[d] = e[1]
               new == [b EXCEPT !.old = d, !.blank = same, !.saw = k.certs[d], !.meant = meant]
    <3>1. /\ b \in Job /\ b.type = "issue" /\ b.dir = e /\ b.purge = "no"
          /\ b.by = 0 /\ b.made = 0 /\ b.ok = FALSE /\ b.st = "queued"
      <4>1. IsNew(b, "issue", e)
        BY <1>2
      <4> HIDE DEF b
      <4> QED
        BY <4>1 DEF IsNew
    <3>2. RequestOf(r, new)
      BY <2>3
    <3>3. same \in BOOLEAN /\ (CN[d] # e[1] \/ same = TRUE)
      BY <2>3 DEF Replaces
    <3> HIDE DEF b, same
    <3>4. /\ new \in Job /\ new.type = "issue" /\ new.dir = e /\ new.purge = "no"
          /\ new.old = d /\ new.blank = same /\ new.saw = k.certs[d] /\ new.by = 0
          /\ new.made = 0 /\ new.ok = FALSE /\ new.st = "queued"
      BY <1>1, <3>1, <3>3 DEF Job
    <3> HIDE DEF new
    <3>5. JobOK(new, serial) /\ Target(new) = d
      BY <1>1, <3>3, <3>4 DEF JobOK, Target
    <3> QED
      BY <1>1, <3>2, <3>4, <3>5, RequestOfStep
  <2> QED
    BY <2>1, <2>2, <2>3
<1> QED
  BY <1>0, <1>4, <1>5, <1>6

\* A request that looks nothing up.
LEMMA BlindSteps ==
  ASSUME HInv, (\E d \in Dirs : IssueCert(d)) \/ RenewAll
  PROVE  HInv'
<1>1. PICK type \in {"issue", "renew-all"}, e \in Dirs \cup {NoDir} :
        /\ type = "issue" => e \in Dirs
        /\ Request(NewJob(type, e)) /\ look' = look
  BY DEF IssueCert, RenewAll
<1> DEFINE b == NewJob(type, e)
<1>2. /\ Pending \in SUBSET JobIds /\ NoDir \notin Dirs /\ serial \in Nat
      /\ \A w \in DOMAIN jobs : w \in Pending \/ Closed(jobs[w])
      /\ look \in [Readers -> Lookup \cup {Idle}]
  <2>1. Ids \subseteq JobIds /\ Ids = DOMAIN jobs
    BY HInvFacts, HandlersAssumption DEF JobIds, Ids
  <2> QED
    BY <2>1, HInvFacts, HandlersAssumption DEF HInv, Pending, Closed, NoDir
<1>3. /\ b \in Job /\ b.type = type /\ b.dir = e /\ b.purge = "no" /\ b.old = NoDir
      /\ b.by = 0 /\ b.beside = Pending /\ b.made = 0 /\ b.ok = FALSE /\ b.st = "queued"
  <2>1. IsNew(b, type, e)
    BY <1>2, NewJobIsNew
  <2> QED
    BY <2>1 DEF IsNew
<1>4. Request(b)
  BY <1>1
<1> HIDE DEF b
<1>5. JobOK(b, serial) /\ Target(b) \notin Dirs
  BY <1>1, <1>2, <1>3 DEF JobOK, Target
<1>6. Knows(jobs, gen, gen, b.beside \cup b.scan)
  BY GenKnows DEF Knows
<1>7. look' \in [Readers -> Lookup \cup {Idle}] /\ \A q \in Readers : look'[q] \in {look[q], Idle}
  BY <1>1, <1>2
<1>8. \A w \in DOMAIN jobs : w \in b.beside \/ Closed(jobs[w])
  BY <1>2, <1>3
<1> QED
  BY <1>3, <1>4, <1>5, <1>6, <1>7, <1>8, RequestStep

-----------------------------------------------------------------------------
LEMMA InitHInv == Init => HInv
<1> SUFFICES ASSUME Init PROVE HInv
  OBVIOUS
<1>1. /\ jobs = <<>> /\ removed = {} /\ list = NoList /\ deaths = 0 /\ serial = 1
      /\ managed \subseteq Dirs /\ gen = [d \in Dirs |-> IF d \in managed THEN 1 ELSE 0]
      /\ look = [r \in Readers |-> Idle]
  BY HandlersAssumption DEF Init
<1>2. HomeOK
  BY <1>1, HandlersAssumption DEF HomeOK, Content
<1>3. JobsInv(jobs, serial)
  <2>1. RequestsOf(jobs) = {} /\ DOMAIN jobs = {}
    BY <1>1 DEF RequestsOf
  <2>2. Cardinality(RequestsOf(jobs)) <= MaxRequests
    BY <2>1, FS_EmptySet, HandlersAssumption
  <2> QED
    BY <1>1, <2>1, <2>2 DEF JobsInv, OneFollowUp
<1>4. Core(jobs, gen, serial, list, removed)
  BY <1>1, <1>3 DEF Core, WrittenOK, ListOK, SawOK
<1>5. /\ look \in [Readers -> Lookup \cup {Idle}]
      /\ \A r \in Readers : LookOK(jobs, gen, look[r])
  BY <1>1 DEF LookOK
<1> QED
  BY <1>1, <1>2, <1>4, <1>5, HandlersAssumption DEF HInv, Ids

LEMMA NextHInv ==
  ASSUME HInv, [Next]_vars
  PROVE  HInv'
<1>1. ASSUME NEW r \in Readers, LookStep(r) \/ FoundStep(r) PROVE HInv'
  BY <1>1, LookSteps, FoundSteps
<1>2. CASE (\E d \in Dirs : IssueCert(d)) \/ RenewAll
  BY <1>2, BlindSteps
<1>3. ASSUME NEW j \in Ids, JobStep(j) PROVE HInv'
  BY <1>3, SucceedStep, FailStep, PurgeStep, OnDoneStep DEF JobStep
<1>4. CASE Cron \/ Restart
  BY <1>4, CronStep, RestartStep
<1>5. CASE Expire
  <2>1. /\ UNCHANGED <<gen, managed, serial, look, jobs, deaths, removed>> /\ list' = NoList
        /\ Core(jobs, gen, serial, NoList, removed)
    BY <1>5 DEF Expire, home, HInv, Core, ListOK
  <2> QED
    BY <2>1 DEF HInv, HomeOK, Ids
<1>6. CASE UNCHANGED vars
  BY <1>6 DEF vars, home, HInv, HomeOK, Ids
<1> QED
  BY <1>1, <1>2, <1>3, <1>4, <1>5, <1>6 DEF Next

\* The inductive invariant.
THEOREM Invariance == Spec => []HInv
  BY InitHInv, NextHInv, PTL DEF Spec

\* Every variable keeps its type; in particular there are never more than two jobs per
\* request.
THEOREM TypeCorrect == Spec => []TypeOK
<1>1. ASSUME HInv PROVE TypeOK
  <2>1. jobs \in Seq(Job) /\ Len(jobs) <= 2 * MaxRequests /\ Ids = DOMAIN jobs
    BY <1>1, HInvFacts, HandlersAssumption DEF Ids
  <2>2. removed \subseteq [dir : Dirs, gen : 1..MaxSerial, job : Ids]
    <3> SUFFICES ASSUME NEW r \in removed
                 PROVE  r \in [dir : Dirs, gen : 1..MaxSerial, job : Ids]
      OBVIOUS
    <3>1. r \in [dir : Dirs, gen : 1..MaxSerial, job : Nat] /\ r.job \in Ids
      BY <1>1 DEF HInv, Core, RemovedOK, Ids
    <3> QED
      BY <3>1
  <2> QED
    BY <1>1, <2>1, <2>2 DEF HInv, HomeOK, TypeOK
<1> QED
  BY Invariance, <1>1, PTL

\* What the request of a removed certificate was.
LEMMA RootFacts ==
  ASSUME HInv, NEW r \in removed
  PROVE  /\ Root(r) = RootIn(jobs, r) /\ r.job \in Ids /\ Root(r) \in Ids
         /\ r.gen \in 1..MaxSerial
         /\ \/ Root(r) = r.job /\ jobs[r.job].type = "remove" /\ jobs[r.job].made = 0
            \/ /\ jobs[Root(r)].type = "issue" /\ jobs[Root(r)].ok /\ jobs[Root(r)].made > 0
               /\ CN[r.dir] # jobs[Root(r)].dir[1] \/ jobs[Root(r)].blank
<1>0. /\ Ids = 1..Len(jobs) /\ Len(jobs) \in Nat /\ RemovedOK(jobs, r) /\ Ids = DOMAIN jobs
      /\ \A k \in Ids : JobOK(jobs[k], serial) /\ FollowOK(jobs, k) /\ jobs[k] \in Job
      /\ r.gen \in 1..MaxSerial /\ r.dir \in Dirs
  BY HInvFacts DEF HInv, Core, JobsInv, Ids
<1>1. r.job \in Ids /\ jobs[r.job].type = "remove" /\ jobs[r.job].dir = r.dir
      /\ jobs[r.job].made = 0 /\ Root(r) = RootIn(jobs, r)
  BY <1>0 DEF RemovedOK, JobOK, Root, RootIn
<1>2. CASE jobs[r.job].by = 0
  BY <1>0, <1>1, <1>2 DEF Root
<1>3. CASE jobs[r.job].by # 0
  <2> DEFINE i == jobs[r.job].by
  <2>1. Root(r) = i /\ i \in 1..(r.job - 1) /\ jobs[i].ok /\ jobs[i].old = r.dir
    BY <1>0, <1>1, <1>3 DEF Root, FollowOK
  <2>2. i \in Ids /\ r.dir # NoDir
    BY <1>0, <1>1, <2>1, HandlersAssumption DEF NoDir
  <2>3. /\ jobs[i].type = "issue" /\ jobs[i].made > 0
        /\ CN[r.dir] # jobs[i].dir[1] \/ jobs[i].blank
    BY <1>0, <2>1, <2>2 DEF JobOK
  <2> QED
    BY <1>0, <1>1, <2>1, <2>2, <2>3
<1> QED
  BY <1>2, <1>3

\* A certificate goes because the operator deleted it with its files, or after its
\* replacement was there, which is of another name unless the request had a blank
\* around its main domain (certs.go:159-167).
THEOREM NothingLost == Spec => []NothingLostToFailure
<1>1. HInv => NothingLostToFailure
  BY RootFacts DEF NothingLostToFailure
<1> QED
  BY Invariance, <1>1, PTL

\* What a re-issue made is not what its own clean-up removes, except for a blank in its
\* request and for a directory whose certificates are of another name (certs.go:160).
THEOREM OwnResultStays == Spec => []OwnResultSurvives
<1>1. ASSUME HInv, NEW r \in removed, r.gen = jobs[Root(r)].made
      PROVE  jobs[Root(r)].blank \/ CN[r.dir] # r.dir[1]
  <2>1. /\ jobs[Root(r)].type = "issue"
        /\ CN[r.dir] # jobs[Root(r)].dir[1] \/ jobs[Root(r)].blank
    BY <1>1, RootFacts, HandlersAssumption
  <2>2. jobs[Root(r)].dir = r.dir
    <3>1. /\ Root(r) \in DOMAIN jobs
          /\ \A w \in DOMAIN jobs : jobs[w].made = r.gen /\ jobs[w].type = "issue" =>
                jobs[w].dir = r.dir
      BY <1>1, RootFacts DEF HInv, Core, RemovedOK, Ids
    <3> QED
      BY <1>1, <2>1, <3>1
  <2> QED
    BY <2>1, <2>2
<1>2. HInv => OwnResultSurvives
  BY <1>1 DEF OwnResultSurvives
<1> QED
  BY Invariance, <1>2, PTL

\* A certificate that the request has not seen and not made is removed only if a job
\* that ran beside the request, its follow-up or the scan behind its list wrote it, or
\* cron did (api.go:80-118, certs.go:161).
THEOREM LostByOverlapOnly == Spec => []NewerLostByOverlapOnly
<1>1. ASSUME HInv, NEW r \in removed, NEW w \in Ids, w # Root(r), jobs[w].made = r.gen,
             jobs[w].st # "unseen", r.gen > jobs[Root(r)].saw
      PROVE  Overlaps(r, w)
  <2>1. Root(r) = RootIn(jobs, r) /\ w \in DOMAIN jobs /\ w <= Len(jobs)
    BY <1>1, HInvFacts, RootFacts DEF Ids
  <2>2. Meets(jobs, r.job, w) \/ Meets(jobs, Root(r), w) \/ w \in jobs[Root(r)].scan
    BY <1>1, <2>1 DEF HInv, Core, RemovedOK
  <2> QED
    BY <2>1, <2>2 DEF Meets, Overlaps
<1>2. HInv => NewerLostByOverlapOnly
  BY <1>1 DEF NewerLostByOverlapOnly
<1> QED
  BY Invariance, <1>2, PTL

\* Once no job is pending, what a re-issue replaced has had its removal, unless the
\* server stopped, the name is no domain, the directory is not inside the home or the
\* record of the removal could not be written (certs.go:159-189).
THEOREM ReplacedIsRemoved == Spec => []ReplacedGoes
<1>1. ASSUME HInv, Pending = {}, deaths = 0, NEW i \in Ids, jobs[i].ok, jobs[i].old # NoDir,
             CN[jobs[i].old] \notin Refused, ~jobs[i].left
      PROVE  \E j \in Ids :
               /\ jobs[j].by = i /\ jobs[j].dir = jobs[i].old
               /\ jobs[j].ok => jobs[j].purge \in {"done", "failed"} \/ jobs[j].dir \notin Within
  <2>0. /\ Ids = 1..Len(jobs) /\ Len(jobs) \in Nat /\ Ids = DOMAIN jobs
        /\ \A k \in Ids : jobs[k] \in Job /\ FollowOK(jobs, k) /\ SeenOK(jobs, k)
    BY <1>1, HInvFacts DEF HInv, Core, JobsInv, Ids
  <2>1. \A k \in Ids : jobs[k].st = "done"
    BY <1>1, <2>0 DEF Pending, SeenOK
  <2>2. PICK f \in Ids : jobs[f].by = i
    BY <1>1, <2>0, <2>1 DEF SeenOK
  <2>3. jobs[f].dir = jobs[i].old /\ (jobs[f].purge = "no" => jobs[f].dir \notin Within)
    BY <2>0, <2>2 DEF FollowOK
  <2>4. jobs[f].purge \in {"no", "asked", "done", "failed"}
    BY <2>0 DEF Job
  <2>5. jobs[f].ok => jobs[f].purge # "asked"
    BY <2>0, <2>1 DEF SeenOK
  <2> QED
    BY <2>2, <2>3, <2>4, <2>5
<1>2. HInv => ReplacedGoes
  BY <1>1 DEF ReplacedGoes
<1> QED
  BY Invariance, <1>2, PTL
=============================================================================
