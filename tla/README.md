# A formal model of acmesh-ui

acmesh-ui is a web interface for `acme.sh`: one Go process that serves an HTTP
API and a page, runs `acme.sh` as background jobs, shows what `acme.sh` left in
its home directory, and keeps job records and DNS credentials in a bbolt file.
This directory holds TLA+ modules for its core, the TLC configurations that
check them on small instances, and proofs that TLAPS checks for every instance.

`PROJECT.json` lists the components, runs, mutants, hazards, findings and
theorems, and maps every definition to the lines it is translated from.

## The system

| Component | State | Operations | What is hard |
|---|---|---|---|
| Job queue and runner, `internal/jobs` `queue.go`, `runner.go`, `store.go` | slot channel, map of running jobs, a context per job, records in bbolt | Submit, execute, runCommand, Cancel, Prune | one goroutine per job, HTTP handlers, timer, process tree, pruner and shutdown all interleave; write errors are ignored; the process may die |
| Live logs, `internal/jobs/logs.go`, `internal/api/jobs.go` | lines, subscribers' channels, the closed flag | Append, Snapshot, Subscribe, unsubscribe, Close, JobLogs | slow clients, clients that leave, a job that ends between two locks |
| Invocation, `internal/acme/client.go` | process, pipes, line buffers | Run, Check, VersionString | kill reaches the script only; pipes outlive it; unterminated last lines |
| Certificate cache, `internal/api/api.go` | list, time of the scan | certs, invalidateCerts, submitJob, findCert | scan without the lock; jobs and cron change the home under it |
| Scanner, `internal/acme/scanner.go`, `parser.go` | none | Scan, ParseDomainConf | a directory walk that is not atomic |
| Certificate handlers, `internal/api/certs.go` | none of their own | issue, renew, delete, re-issue with removal of the old certificate | cached look-up used when a later job is done; jobs on one domain are not serialised |
| Command builder and validation, `command_builder.go`, `internal/validate` | none | Issue, Renew, Remove, InstallCert, Deploy, ... | boundaries of the validated input |
| Install, deploy, settings, `internal/api/install.go`, `settings.go` | none | one job each | - |
| DNS providers, `internal/dnsproviders`, `internal/api/dns.go` | records in bbolt, secrets encrypted | Create, Update, Delete, DecryptedEnv, import | read-modify-write in separate transactions; an empty secret keeps the old one |
| Secrets, `internal/secrets` | key file, masked values | LoadOrCreateKey, Encrypt, Decrypt, Mask | a key file cut short by a crash |
| Storage, `internal/storage` | bbolt file | PutJSON, GetJSON, Delete, ForEach | closed while in use |
| Server, `internal/server`, `cmd/acmesh-ui` | listener, prune loop | New, Run, shutdown | does not wait for jobs, does not look at old records |
| Configuration, `internal/config` | none | Load, defaults, Validate | order of defaults and checks |
| Certificates, `internal/certs`, `internal/api/certfiles.go` | none | EvaluateStatus, hostBelongsToCert, downloads | truncation at day boundaries |
| Updater, `internal/updater`, `internal/api/update.go` | the executable, the cached check | Check, Apply, Restart | concurrent applies, restart during another request |
| Pages, `internal/ui/web` | one page's script state | job page, restart overlay, forms | asynchronous page loads that share a variable |

How they interact: the handlers build a command and **submit** it to the job
queue with a callback; the job's goroutine runs the **invocation**, which feeds
the **log buffer**; the buffer feeds the **SSE handlers** of the browsers; at the
end the goroutine stores the record and calls the callback, which drops the
**certificate cache** and may submit a follow-up job. The queue, the DNS store
and the pruner share the **bbolt** file, which the **server** opens at start and
closes at shutdown.

## What makes each component correct

* Queue: no more invocations than `max_parallel`; every submitted job ends and
  frees its slot; a record only moves forward and is never written after it was
  pruned; "cancelled" means an operator's cancellation came in time; a directory
  is purged after a success only; nobody is told that a job has ended before
  its record says so.
* Logs: what a client sees is in order, complete but for the lines its own slow
  channel refused, and the end of a stream means the record has the whole log unless
  its write failed, which the code ignores; no client can hold up or break a job.
* Cache: a list may be 30 seconds old, but not older than a job that has finished.
* Certificate handlers: what is removed is what the operator replaced or deleted, a
  failure takes nothing away, what a re-issue made survives its own clean-up, and what it
  replaced goes. A blank around the main domain and directories whose certificates have
  another name are exceptions, see below.
* Secret key and DNS store: what was encrypted can be decrypted after any restart, a
  secret is never stored in the clear, an edit changes what it names, a deleted
  provider stays deleted, an empty secret keeps the old one.
* Updater: the executable is always a complete release, an installed update comes to
  run, and the page reloads from the release it was promised.
* Configuration: nothing runs open to the network without authentication and without
  the opt-in, and what `init` writes can be started.
* Builder, scanner and wizard: a re-issue asks for the names, the challenge and the key of
  the certificate that was issued (the CA, staging, the choice among providers of one kind,
  and what an unreadable `.conf` said are not restored); the status agrees with the
  validity; the two purge checks agree unless the home ends in a backslash.

## Modules

| Module | Models | Role |
|---|---|---|
| `JobLifecycle` | - | what the queue promises: status, phase and accepted cancellations of each job |
| `JobManager` | `queue.go`, `runner.go`, `store.go`, `Client.Run`, server start, shutdown and crash | the queue in detail; implements `JobLifecycle` |
| `JobManager_proofs` | - | TLAPS proofs about `JobManager` |
| `JobLifecycle_proofs` | - | TLAPS proof that `JobManager` implements `JobLifecycle` |
| `LogStream` | `logs.go`, `JobLogs`, `lineWriter` | the log of one job and its readers |
| `CertCache` | `certs`, `invalidateCerts`, `submitJob`, `Scan` | the cached list while the home changes |
| `CertHandlers` | `certs.go`, `findCert`, `submitJob`, `purgeDir` | every request about a certificate, and the jobs, over the acme.sh home |
| `ServerStart` | `LoadOrCreateKey`, `storage.Open`, the start of `server.New` | the key file and the lock on the database, with several processes and crashes |
| `DNSProviders` | `internal/dnsproviders`, `dns.go`, the page's form | the provider store; extends `ServerStart`, whose key and lock it works with |
| `Updater` | `internal/updater`, `update.go`, `waitForRestart`, the update command | installation, restart, page and cached check |
| `LogStream_proofs`, `CertCache_proofs`, `CertHandlers_proofs`, `DNSProviders_proofs`, `Updater_proofs`, `Reissue_proofs` | - | TLAPS proofs about the module of that name |
| `Config` | `internal/config`, `init` | defaults, checks and what `init` writes, as operators |
| `CommandBuilder` | `Builder.Issue`, `validate.Domains` | from a request to a command, as operators |
| `Reissue` | `init`, `serve`, issue, scan, status, wizard, purge checks | the way round of one certificate; composes `Config` and `CommandBuilder` |
| `MC...` | - | instances for TLC |

### JobManager

A job's goroutine is a program counter `pc[j]`; each value is a point between
two effects that others can observe:

    new -> acquire -> register -> saveRunning -> start -> spawn -> wait -> classify
        -> (purge ->) saveFinal -> onDone -> closeLog -> unregister -> release -> done

`acquire` blocks on the slot channel (`queue.go:95`). `exec.Cmd.Run` (`client.go:107`) is
three steps: `Check` looks at the context, `Start` starts the process, and `wait` is the
rest; a `Cancel` that is answered between the first two still starts the command, which is
then killed. `classify` is the switch of `runner.go:30`, and the last
three are the deferred calls of `execute` in the order Go runs them. `job[j]` is
the goroutine's copy of the record and `store[j]` the persisted one; a record is
reduced to its status and whether it has an end time. `ctx[j]` says which of
Cancel, timeout and deferred `cancel()` reached the context first. `procs[j]`
has the script and at most one process it started, which inherits the output
pipes: `Return` needs both gone, `Kill` removes the script only. `CancelLookup`
and `CancelFire` are the two halves of `Cancel`, inside and outside the mutex;
`PruneCollect` and `PruneDelete` are the two phases of `prune`. `CloseStore`,
`Die` and `Restart` are shutdown, the end of the process at any moment, and
`server.New` on the same database. The acme.sh processes survive `Die`.

`answered`, `removed`, `notified` and `lost` are history variables.

### LogStream

One job, its two line writers and the requests that read its log. A line is its
position. `piped` has the streams with a line that is still in the pipe, so that the
command (`Emit`) and the goroutine that copies its output (`WriteLine`) are two;
`partial` has those whose last output lacks a newline. The buffer's mutex makes `Append`,
`Subscribe`, unsubscribe and `Close` atomic, but `Manager.Subscribe` takes the manager's
mutex first and the buffer's second (`Lookup`, `Subscribe`). A channel has a capacity;
`AppendLine` drops a line for a reader whose channel is full. A closed channel is drained
before the `end` event is sent. `Persist` may fail, of a disk error or because
`CloseStore` came first, and the log closes all the same (`runner.go:66`; `lost` remembers
it). `Fallback` answers from the record, or with 404 if that was pruned (`Prune`) or cannot
be read. The line that a purge adds to the stored log is left out.

### CertCache

A certificate directory is a version number. A handler decides under the read
lock (`Read`), lists the directories (`ListDirs`), reads them one by one
(`ReadDir`), and stores the list under the write lock (`Store`), while jobs and
the cron job of acme.sh change directories. `overtaken` and `suspect` record whether
a job ended during the scan behind the cached list; `due` and `finished` what the
jobs had done by then.

### CertHandlers

The home has a directory per name and kind of key; `gen[d]` is the serial number of
what is in it. `CN[d]` is the common name of the leaf in it, by which the handlers know a
certificate (`scanner.go:100`), as a rule the name of the directory. A request `r` that
needs a certificate goes through `certs()`: it is answered from the list (`Cached`), or it
scans without the lock (`BeginScan`, `ReadChanged` while jobs change what it has listed) and
stores what it found later (`Store`), perhaps after a job has dropped the list. Then it
decides by what it has in hand (`look[r]`): `ReissueCert`, `RenewCert`, `DeleteCert`, or
nothing (`Answer`, `ScanFails`). The order of reading matters to `CertCache`; here any
directory may be read again as long as the scan lasts.

`jobs[j].st` says whether a job is `queued`, has `ran` acme.sh, or is `done` (OnDone
called), and `purge` how far the removal of its directory is. `Succeed` and `Fail` are the
end of acme.sh, which does what its command says; `Purge` is `purgeDir`; `OnDone` drops the
list and, after a re-issue, submits the follow-up removal if one is owed (`OwesRemoval`: the
old name must be a domain) - with the directory only if that is inside the home (`Within`) -
or fails to write its record and gives up (`left`). `Replaces` compares the main domain as
the request has it with the old name, while the command has it trimmed: with a `blank`, a
re-issue of the same name passes for a change of name. `Restart` forgets what was queued and
what was to be done after; an acme.sh that was running goes on as an `orphan` whose end
nobody hears of. Cron renews behind the server's back. `saw`, `meant`, `by`, `beside`,
`scan` and `made` in a job are for the properties. Requests that no longer lead to a job are
left out (`MoreToCome`), and so are certificates whose leaf cannot be parsed.

### ServerStart and DNSProviders

`ServerStart` is `server.New` up to the open database: `ReadKey`, `CreateKey`, `WriteKey`
and `OpenStore` of each process, with `Die` between any two. The key file holds the
number of a key and how much of it was written; 16 bytes or more are accepted as a key
(of their own). `raced` records that two first starts overlapped. `DNSProviders` extends it:
whoever has the lock serves, and encrypts with its own key. `Create` and `Import` write,
`UpdateRead` reads and computes, `UpdateWrite` writes, `Delete` removes; two requests may
be at it at once. `Submit` is a client of the API, `PageEdit` the form of the page, which
shows secrets as empty fields and is not offered for a provider whose credentials acme.sh
keeps (`pages2.js:241`). `want` is what the requests asked for, in the order of
their writes.

### Updater

`apply[a]` is where each update - two handlers, one command - is between asking for the
latest release and the rename. `WriteTemp` may leave half a temporary file; `Rename` is
atomic. `Finish` answers the page and leaves the restart to a goroutine (`due`);
`Becomes` is a new process image, by execve, by the service manager or by the operator,
which ends all handlers and goroutines but not the command. `page[r]` waits two seconds
before it polls, and takes any answer: `Polls` says that the restart, 800 ms after the
answer, has come by then. `checking` and `cache` are the cached update check.

### Config, CommandBuilder and Reissue

`Config` and `CommandBuilder` are operators: what `Load`, `Validate`, `init` and
`Builder.Issue` return, with addresses, paths, names and credentials reduced to what decides.
`Reissue` takes one certificate through them: `CmdInit` or `Edit`, `Serve`, `IssueCert` (a
request with its CA, staging and credentials becomes a command by `CommandFor`; what acme.sh
notes of it in the `.conf` is `Stored`), `KeepProviders` (the providers change), `Tick`,
`Scan` (status, days, and a hint unless the `.conf` cannot be read), `ReissueCert` (the
wizard, opened, filled by `Prefilled` and submitted as it is: the first provider with the
code, no CA, no staging), and `DeleteCert` with the two path checks written out, one of the
handler (`DirWithin`) and one of the job (`PurgeDir`, which cuts slashes and backslashes off
the home with `TrimRight`). Paths are sequences of components, so that `Clean` and the prefix
tests are what they are in Go; of a component that ends in backslashes `Bare` knows what is
before them. `blind` remembers that a re-issue was made without a `.conf`.

## Runs

| Run | Instance | Question |
|---|---|---|
| `JobManager_safe` | 2 jobs that purge, `max_parallel` 0, any write may fail, one shutdown or crash | `BoundedParallelism`, `LogEndMeansFinal`, `CancelledIffInTime`, `PurgedMeansSuccess`, `OnDoneAfterSave`, `CancelPreventsStart`, and that the queue implements `JobLifecycle` |
| `JobManager_live` | 2 jobs, 1 slot, scripts may hang | `SubmittedEnds`, `CancelStopsInvocation` |
| `LogStream` | 2 readers, channel of 2, 3 lines, a save that may fail, pruning, a database that closes | `StreamInOrder`, `EndMeansComplete`, `FallbackIsComplete`, `ChannelsInMapAreOpen`, `CloseReachesReaders`, `StreamsEnd`, `JobEnds` |
| `CertCache` | 2 readers, 2 jobs, 1 directory, 2 changes | `ScanShowsFinishedJobs`, `StaleOnlyByOverlap`, `StaleListsRunOut`, `ServedEventually` |
| `CertHandlers` | a home with RSA and EC of one name, 2 requests with their follow-ups, 1 reader of the list, 3 serial numbers; the same with 1 restart or 1 renewal by cron, and homes with a directory outside the home or for no domain, with 1 request | `NothingLostToFailure`, `OwnResultSurvives`, `NewerLostByOverlapOnly`, `ReplacedGoes` |
| `DNSProviders` | 2 processes, 2 keys, 1 provider, 2 requests at once, a secret and a plain variable, 4 forms, 3 things to type | `SecretsReadable`, `NoSecretInClear`, `AsAsked`, `DeletedStaysDeleted` |
| `Updater` | 2 pages and the command, 2 updates, 3 releases, 2 checks, any number of crashes | `ExecutableIsWhole`, `OlderOnlyByOverlap`, `PageSeesUpdate`, `CachedCheckIsTrue`, `InstalledRuns` |
| `Reissue` | 17 requests under 3 configurations and 3 lists of providers; 1 request under 21 configurations and 18 answers to `init`, 2 names of the directory, 7 half days | `StartGate`, `StatusIsRight`, `PurgeChecksAgree`, `ReissueKeepsRequest` |

Every module with variables has a type invariant, except `Reissue`, whose states are records
of the values that are enumerated. Those of `JobManager`, `LogStream`, `CertCache` and
`CertHandlers` only give types and are proved; the others say more and are checked in the
runs too.

`CertHandlers` and `Reissue` each put two instances into one run. The CONSTRAINT `Scope` of
their MC modules keeps apart what has nothing to do with each other: the requests from the
life of a certificate and from what configurations there are, and two requests that
overlap from the odd homes, cron and restarts.

What some of the properties say, beyond their names:

* `CancelPreventsStart`: a cancellation that is answered before the job looks at its context
  for the last time keeps the command from ever running. One that comes between that look
  and the start of the process does not; `CancelStopsInvocation` says that it is killed.
* `EndMeansComplete`, `FallbackIsComplete`: complete unless the write of the record failed;
  the second speaks of the readers that are answered from the record, since others get a 404.
* `JobEnds`: whatever the clients do, the job goes on and ends. No handler is assumed to run.
* `StreamsEnd`: a client that takes what it is sent sees the end, whatever the others do.
* `StaleListsRunOut`: a list older than a finished job enters the cache only by the end of
  a scan that this job overtook, and there are no further scans of that kind.
* `CloseReachesReaders`: whoever streams a log when its buffer is closed has had its channel
  closed too, also a reader that had found the job and entered the map of the buffer late.
* `NothingLostToFailure`, `OwnResultSurvives`: except for a blank around the main domain;
  the second also not for a directory whose certificates are of another name.
* `NewerLostByOverlapOnly`: a certificate newer than the one that a deletion or re-issue
  had seen is removed only if another job ran beside the request, beside its follow-up, or
  beside the scan behind the list it relied on. That scan may have ended before the request
  came, and jobs of one domain are not ordered, so the exceptions are real.
* `ReplacedGoes`: once all is quiet and the server has not stopped, the replaced directory
  has had its removal, unless the old name is no domain, the record of the follow-up could
  not be written, or the directory is outside the home and only acme.sh was told.
* `PurgeChecksAgree`: what the handler lets pass the job refuses only if the configured home
  ends in a backslash.
* `SecretsReadable`: a crash at any point of the creation of the key leaves a file that
  is accepted or refused, never one under which something has been encrypted that
  another key is read for later. It holds unless two first starts overlap: then the second
  may replace the key of the first, and the database lock, taken later, does not help.
* `AsAsked`: what is stored is what the requests asked for in the order of their writes,
  unless an update was overlapped between its read and its write; it then writes back what
  it had read. `DeletedStaysDeleted` has the same exception.
* `OlderOnlyByOverlap`: nothing orders two updates, so the slower one may put an older
  release back; that is the only way.
* `PageSeesUpdate` holds although `pages2.js:575` takes any answer, because the first poll
  comes after the restart.
* `StartGate`: what `init` writes is accepted at the start unless the operator opened the
  address and did not answer yes.
* `ReissueKeepsRequest`: for what the wizard can express, a re-issue asks again for the
  names, challenge, webroot or provider code, and key type of the first request, round after
  round, as long as no `.conf` was unreadable; and it is the same command, up to a key type
  that was not given, if the first request had neither CA nor staging and no other provider
  has its code. For the rest see below.

Why these bounds are enough to be interesting. With two jobs and one slot a job
waits while the other holds the slot; `max_parallel` 0 exercises the lower bound
of `NewManager` (one slot). One death covers a stop at every point and a restart that
prunes what it finds. A channel of two with three lines fills, refuses one, and drains. The
cache's properties speak of one directory at a time, so one is enough; two changes by two
jobs make a list that is stale twice. Two requests are a re-issue and whatever
competes with it, and the follow-up makes a third job; three serial numbers are the old
certificate and the result of each. One reader suffices for a stale list, since it may
scan beside a job and come back for what it stored; the proof is for any number. What becomes
of the old certificate in an odd home takes one request. Two processes and two keys are what it takes to
replace a key; two handlers to overlap; the forms cover a value, an empty secret, an
omitted variable, a variable marked secret, and a change of the source. Two updates among
three actors overlap in every way two can, and three releases let each of them install
another than the one that runs. The requests and configurations of `Reissue` have one of
each kind that a branch of the code tells apart, accepted and refused; five half days of
life with a warning period of one or two days cross every boundary of the status.

Symmetry is used in `JobManager_safe` and in `DNSProviders`, where every property is an
invariant or an action property and jobs, processes and handlers are interchangeable. The
proofs below remove the bounds for every safety property.

Deadlock is checked in every run but those of `Reissue`, where time and the life of the one
certificate end, and of `CertHandlers`, whose server is idle when no more requests come. The
queue and the stream have an explicit action (`Idle`, `Finished`)
for the end of their bounded world.

### Disagreements with what the repository says

Each of these runs is expected to find a violation:

| Run | The repository says | The code does |
|---|---|---|
| `JobManager_timeout_pipes` | `config.go:55`: the timeout bounds an invocation | `Run` waits for whoever holds the pipes |
| `CertHandlers_wrong_directory` | `cert.go:19`, `certs.go:78`: the id is stable and names the certificate to replace | of an RSA and an EC certificate of one name the RSA one is removed, whichever was opened |
| `DNSProviders_blank_secret` | `docs/troubleshooting.md:39`: a secret left empty keeps its value | the page does not send it and the store drops it |
| `Reissue_prefill` | `scanner.go:122`: the original parameters are derived | manual DNS, key types that are not offered, wildcards of other names and wildcard main domains come back as something else or are refused |

Others that the models contain and no run singles out: jobs queued when the server stops
stay `queued`; a `Cancel` that finds its job after the outcome was decided, or between the
look at its context and the start of its process, answers true all the same; a last line
without newline is lost; a scan under way stores its old list after the cache was dropped;
a record whose write failed stays as it was, and its log is lost; a re-issue does not
restore CA and staging, takes the first of several providers of a kind, and falls back to DNS
without a `.conf`; a home that ends in a backslash passes the handler's check of a purge and
not the job's. `certs.go:78` says that the old certificate is removed when the main domain has
changed: the comparison is with the request as it came (`certs.go:145`), the command is
trimmed (`command_builder.go:106`), so a request with a blank around the same name removes
the certificate it has just made; the page trims, so only a client of the API gets there.

Not in the models: a job page drawn from a job that is queued, or that ends between the
reading of its record and the opening of its stream, is not drawn again until it is refreshed
(`pages2.js:407-414`).

## Fairness

* `JobManager`: weak fairness of each goroutine (the Go scheduler; senders blocked
  on a channel are served in order, and as a slot once free is taken by one of
  finitely many waiting jobs, weak fairness suffices in the bounded world), of
  the timer, and of the kill that `exec.CommandContext` performs. Nothing makes
  the script end by itself, so it may hang until its timeout. `FairSpec` adds that
  what the script started ends; without that, `HangingChildSpec` shows what
  happens to the timeout.
* `LogStream`: the job's goroutine and the copiers of its output run; nobody has to write,
  to request a log or to disconnect. A handler may be stuck for ever in a write to its
  client, since the server sets no deadline for a stream; `StreamsEnd` says of which it
  assumes otherwise.
* `CertCache`: a stored list expires unless another replaces it before, and a scan
  that has begun ends. Jobs need not end, and nobody has to read.
* `Updater`: a handler that has installed answers, its goroutine wakes up, and the service
  manager starts a server that has ended (`Restart=on-failure` in the unit). Nothing makes a
  download end or the server crash or stay up.

The other runs check safety only. No run assumes that an operator submits, cancels, reads,
polls or stops anything.

## Proofs

Each theorem below holds for every value of the constants that the assumptions of its module
allow: any number of jobs, readers, requests, processes, crashes, and so on, where the runs
have two or three. The fairness that some specifications contain is not used. Every
inductive invariant was checked by TLC on the run of its module before it was proved.

| Module | Theorem | Statement, after `Spec =>` |
|---|---|---|
| `JobManager_proofs` | `TypeCorrect` | `[]TypeOK` |
| | `Invariance` | `[]IInv` |
| | `ParallelismBounded` | `[]BoundedParallelism` |
| | `LogEndFinal` | `[]LogEndMeansFinal` |
| | `CancelledExactly` | `[]CancelledIffInTime` |
| | `PurgeOnlyOnSuccess` | `[]PurgedMeansSuccess` |
| | `NotifiedAfterSave` | `[]OnDoneAfterSave` |
| | `NoStartAfterCancel` | `CancelPreventsStart`, an action property |
| `JobLifecycle_proofs` | `LifecycleInvariance` | `[]LInv` |
| | `Implements` | `ImplementsLifecycle`, the refinement |
| | `RecordsForward` | a stored record changes only from queued to running to one final status to pruned, where it may skip running |
| `LogStream_proofs` | `Invariance`, `TypeCorrect` | `[]SInv`, `[]TypeOK` |
| | `OpenChannels` | `[]ChannelsInMapAreOpen` |
| | `InOrder` | `[]StreamInOrder` |
| | `CompleteAtEnd` | `[]EndMeansComplete` |
| | `WholeLogOnFallback` | `[]FallbackIsComplete` |
| | `NobodyWaits` | `[]CloseReachesReaders` |
| `CertCache_proofs` | `Invariance`, `TypeCorrect` | `[]CInv`, `[]TypeOK` |
| | `ScanShows` | `[]ScanShowsFinishedJobs` |
| | `StaleByOverlap` | `[]StaleOnlyByOverlap` |
| | `StaleRunsOut` | `StaleListsRunOut`, an action property |
| `CertHandlers_proofs` | `Invariance`, `TypeCorrect` | `[]HInv`, `[]TypeOK` |
| | `NothingLost` | `[]NothingLostToFailure` |
| | `OwnResultStays` | `[]OwnResultSurvives` |
| | `LostByOverlapOnly` | `[]NewerLostByOverlapOnly` |
| | `ReplacedIsRemoved` | `[]ReplacedGoes` |
| `DNSProviders_proofs` | `Invariance`, `TypeCorrect` | `[]DInv`, `[]TypeOK` |
| | `NothingInClear` | `[]NoSecretInClear` |
| | `HoldsWhatWasAsked` | `[]AsAsked` |
| | `Readable` | `[]SecretsReadable` |
| | `StaysDeleted` | `DeletedStaysDeleted`, an action property |
| `Updater_proofs` | `UpdaterTypeCorrect` | `[]TypeOK` |
| | `ExecutableWhole` | `[]ExecutableIsWhole` |
| | `OlderByOverlapOnly` | `OlderOnlyByOverlap`, an action property |
| | `PageReloads` | `[]PageSeesUpdate` |
| | `CacheIsTrue` | `[]CachedCheckIsTrue` |
| `Reissue_proofs` | `Invariance` | `[]RInv` |
| | `Gated` | `[]StartGate` |
| | `StatusRight` | `[]StatusIsRight` |
| | `KeepsRequest` | `ReissueKeepsRequest`, an action property |
| | `PassedTwice` | `[]PurgeChecksAgree` |
| | `CleanTwice` | not of `Spec`: `Clean(Clean(p)) = Clean(p)` for every path |

### Assumptions

Sets of actors - jobs, readers, handlers, requests, processes, checks - and the set of
directories are finite, as they are in any one execution; bounds are natural numbers. Beyond
that:

* `JobManager`: `PurgeJobs` are among `Jobs`, `MaxParallel` is an integer (any: the code
  raises it to one), `DiskErrors` a Boolean.
* `LogStream`: a channel holds one line at least (the code gives it 256).
* `CertHandlers`: a directory is a name and a kind of key, and has a place in the order of
  the listing; serial numbers begin with one. Leaf names, refused names and what is inside
  the home are arbitrary.
* `DNSProviders` and `ServerStart`: the values that mark an absence (`"none"`, `"nobody"`,
  `""`, `"omitted"`) name no provider, process or value; what is typed is a variable and a
  value or nothing.
* `Updater`: the command is none of the requests, and there is a first release.
* `Reissue`: a configuration has the fields of the defaults, a path for its home - the
  default home is one too, a fact about two strings that the provers do not know - and numbers
  where Go has an `int`; what a directory lists is never called "", "." or ".."; `Bare` takes
  all the backslashes off a component at once; the domains of a request are a sequence of
  names; the ids of providers differ; a provider code is not one of the words acme.sh notes
  for the other challenges, since it begins with `dns_` (`validate.go:165`).

### Arguments

`JobManager`. None of the properties is inductive: that a live process belongs to a job that
holds a slot, for instance, only follows from where its goroutine is. `IInv`
adds, per job, what the position of the goroutine says about the slot, the map,
the log, the processes (`ControlInv`), the records (`RecordInv`), the context
and the answer to Cancel (`CancelInv`) and the purge (`PurgeInv`), and the
cardinality bound on the slots (`SlotInv`). One lemma per conjunct shows that it
is preserved (`ControlStep`, `RecordStep`, ...), each with a step per action.
`NoStartAfterCancel` rests on the part of `CancelInv` that says that the context of a job
whose cancellation was answered is done until its outcome is decided, since `Check` needs a
live one, and only `Check` leads to `Start`.
`BoundedParallelism` then follows because the invocations are a subset of the
slot holders and cardinality is monotone on finite sets.

`JobLifecycle`. A step of the queue concerns one job and maps to one step of the lifecycle
or to none; `Die` maps to the abandonment of all. That the mapped step is enabled needs what
is stored of a job at each position, which `IInv` leaves out: nothing before `Submit`, no
final record before the outcome has been written, a final one for what is pruned
(`StoreInv`). Failed writes are the reason why the record is not simply a function of the
position. `RecordsForward` is read off the lifecycle: each of its actions moves a record
forward (`LifecycleForward`), and every step of the queue is one of them or leaves the records
alone.

`LogStream`. `SInv` ties both sides to the close of the buffer: a reader that has left the
map with its stream, that the buffer refuses, or that finds the job gone knows that the job
has closed its buffer, and by then no line can be added, none is left in a pipe, and the record
has been stored or its write has failed (`JobInv`, `ReaderInv`). What a reader has got and
what waits in its channel is, together, an increasing sequence of the lines it has not been refused (`LogInv`). That nobody is left
waiting follows from the close, which shuts the channels of all that are in the map and is
known to those that come later.

`CertCache`. What a scan has read of a directory is at least what was there when the names
were listed, which is at least what the jobs had done that had finished by then; only a job
that finishes after the listing, and so overtakes the scan, can have done more. Turned round,
a scan that begins when a job is over reads a disk at least as new as what the job did
(`DiskIsDone`), so it is no laggard (`NoNewLaggard`), and only a laggard's end makes the cache
stale (`NewStaleList`).

`CertHandlers`. `HInv` follows the jobs, the requests that look something up, and the list.
What a job of each kind looks like on its way, who submitted it, that a success has at most
one follow-up and which jobs ran beside it (`JobsInv`); what an issue has made is in its own
directory or nowhere (`WrittenOK`). What a list or a scan knows is tied to the jobs that were not
beside it (`Knows`, `ListOK`, `LookOK`): whatever a job has made that was over when the scan
began, and is not in its `Window`, the scan has seen or it is gone. So is what a request saw
(`SawOK`), which keeps the jobs beside its scan with those beside itself; that is what makes
an overlap the only way to lose something newer. `RemovedOK`: what was removed,
for whom, and what the request had seen. `AtMostTwice` bounds the jobs by twice the requests, by
an injection of the follow-ups into the jobs that submitted them. `ReplacedGoes` needs in
addition that no follow-up is lost unless it was `left` (`SeenOK`), which holds until the first restart.

`DNSProviders`. What holds of a stored record holds of one that an update has computed from
it, so a record is followed from the read to the write (`StoredInv`, `UpdateInv`); `AsAsked`
and `StaysDeleted` depend on an update that was not overlapped still seeing what it had read.
The key is followed from its creation (`StartInv`): without a race one process at a time
creates it, before any process has come up and any secret is stored, and whoever comes up
has read what the file holds.

`Updater`. That the executable is whole is not inductive, since a rename puts in place
whatever the update has in its temporary file. `UInv` follows each update: what it has
downloaded is the release it was told (`InHand`), whole once it is verified, and the temporary
file equals it once it is written; and as long as no other update was completed since it
asked, nothing newer than its release is in place (`NotBehind`). The latter needs that nothing
newer than the latest release ever is, which is also part of `UInv`. `StepIsSound` shows that
each step of an update makes a record of this kind, `RenameStep` that the rename keeps the
records of all the others so, because it takes `alone` from those who have asked. `PInv` adds,
per request, that its release is the executable from the rename until another is installed,
and the one that runs from its restart on (`Followed`). `AInv` adds that an answer, cached or
on its way, is of the release that serves (`True`), and that a check nobody has overtaken
knows nothing older than the cache.

`Reissue`. `RInv` follows a request as long as every `.conf` was readable: what acme.sh has
noted, and what the scanner has read of it, name the certificate that was asked for, up to the
key type acme.sh picks itself (`IsFor`); of CA, staging and provider they say nothing.
`WizardLists` shows that the wizard lists the names of such an entry, each once - `SetToSeq`
lists a finite set without repetition - `AcceptsList` that the builder takes a list like that,
and `RoundTrip` that the certificate is the same. As that holds for the command of the re-issue
too, the property holds for any number of rounds. That the command is the same when the
credentials are the only ones with their code (`OnlyCredentials`) follows from the choice of
the provider, which has that code and so those credentials. `OnlyTheGate` shows that of what `init`
writes only the gate can be refused.

What `Clean` makes of a path of any length is a fact about a recursive function, and the
induction theorems of the library take an operator, which the provers cannot instantiate. The
least element of a set of numbers needs none, so `Induct` is induction in the form "a set that
has 0 and the successors of its members has every number", from the well-foundedness of < on
the naturals. With it, what `Clean` leaves is tidy - ".." only in front, and not at all under a
root - a tidy path stays as it is (`CleanTwice`), and a name appended to a clean path is below
that path unless the path is empty or goes up. So the handler refuses nothing else than what
`PurgeChecksAgree` allows. What `TrimRight` cuts off a home that does not end in a backslash
are empty components (`OnlyBlanksGo`), which lead nowhere (`BlanksStay`), so the trimmed home
is the same when it is clean (`CleanOfTrimmed`); hence what the handler lets pass the job lets
pass, whose test of the home is implied, since a path without components has none when it is
clean (`BothPass`).

### What is only model-checked

* Liveness (`SubmittedEnds`, `CancelStopsInvocation`, `StreamsEnd`, `JobEnds`,
  `ServedEventually`, `InstalledRuns`): the prover has no rules for fairness. What `StreamsEnd` and
  `ServedEventually` rest on is proved: `NobodyWaits` and `StaleRunsOut`.
* The type of the variables of `Reissue`, which has no type invariant; `RInv` has as much of
  it as the proofs need.

## Plan

Done: `JobLifecycle`, `JobManager`, `LogStream`, `CertCache`, `CertHandlers`, `ServerStart`,
`DNSProviders`, `Updater`, `Config`, `CommandBuilder`, `Reissue`; proofs about all the modules
with variables (`ServerStart` with `DNSProviders`).

Next theorem: that a provider is read back as it was written, from `Encoded`, for the
specification below.

Next modules: `JobPage` (GetJob's two reads, the page's asynchronous loads, the shared
stream); `InstallCert` and `Deploy` with their path checks; `hostBelongsToCert`; an abstract
key-value specification that `DNSProviders` implements up to overlapping updates.

## Not modelled

The job page; certificates whose leaf cannot be parsed; the environment of the invocation
beyond the credentials; InstallCert, Deploy and the settings handlers (validation and one job each);
the character classes of validation, the parsing of certificates, `.conf` files and `--list`,
masking, AES-GCM, the TLS check and its host names, downloads, dashboards, routes,
middleware, the listener, packaging and the installer: pure functions, or input and output
without state that others share. The texts of summaries and logs, clocks and durations are
abstracted: a timeout, a retention period or the lifetime of a cache may elapse at any
moment, except where an order of durations is what the code relies on (800 ms before the
restart, two seconds before the first poll).

## Running

    tlc -config JobManager_safe.cfg MCJobManager.tla
    for m in *_proofs.tla; do tlapm $m; done
