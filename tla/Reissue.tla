------------------------------- MODULE Reissue -------------------------------
(***************************************************************************)
(* A certificate's way round: a configured server, a request to issue, the *)
(* command it becomes, what acme.sh leaves on disk, what the scanner reads *)
(* from it as time goes by, the wizard that is filled with it again, and   *)
(* the removal of its directory.                                           *)
(*                                                                         *)
(* Time is counted in half days.                                           *)
(***************************************************************************)
EXTENDS Config, CommandBuilder, FiniteSets

CONSTANTS Files,     \* what operators make of config.yaml
          Answers,   \* what they answer or give as flags to init
          Requests,  \* what they ask for
          Providers, \* lists of DNS providers, in the order of their names
          DirNames,  \* how the directory of a certificate may be named
          Dotted,    \* components of paths that have ".." in them
          Bare,      \* of components that end in backslashes, what is before these
          Lifetime,  \* half days a certificate is valid
          MaxTime    \* bound: half days

\* Components that filepath.Clean drops, and the one that leads up.
Skipped == {"", "."}
Up      == ".."

\* What acme.sh notes of a challenge without a provider.
Notes == {"path", "no", "manual"}

\* A provider code begins with "dns_", which tells it from the other notes of acme.sh;
\* the id of a provider is its own; what a directory lists is a name.  (That the default
\* home is a path is a fact of its two strings, which no prover knows to be in STRING.)
ASSUME ReissueAssumption ==
  /\ Default.home \in Paths
  /\ \A f \in Files : DOMAIN f = DOMAIN Default /\ f.days \in Int /\ f.home \in Paths
  /\ \A a \in Answers : a.port \in Int
  /\ \A r \in Requests :
       r.domains \in Seq(Domain) /\ r.code \notin Notes /\ r.staging \in BOOLEAN
  /\ \A l \in Providers :
       /\ l \in Seq([id : STRING, code : STRING \ ({""} \cup Notes), env : STRING])
       /\ \A i, j \in DOMAIN l : l[i].id = l[j].id => i = j
  /\ DirNames \subseteq Component \ (Skipped \cup {Up})
  /\ Bare \in [DOMAIN Bare -> Component]
  /\ \A c \in DOMAIN Bare : c \in Component \ (Skipped \cup {Up}) /\ Bare[c] \notin DOMAIN Bare
  /\ Up \in Dotted
  /\ Lifetime \in Nat \ {0} /\ MaxTime \in Nat

VARIABLES
  file,     \* config.yaml
  fromInit, \* whether it is as init has written it
  cfg,      \* the configuration of the running server
  providers,\* the DNS providers in its store
  now,      \* the time
  cert,     \* what acme.sh has on disk
  entry,    \* what the scanner made of it last
  asked,    \* history: the command of the operator's own request
  again,    \* the command of the re-issue the wizard was filled for
  blind,    \* history: a re-issue since was submitted that knew no .conf
  purge     \* what became of the request to purge

vars == <<file, fromInit, cfg, providers, now, cert, entry, asked, again, blind, purge>>

Stopped == [stopped |-> TRUE]
None    == [none |-> TRUE]

Init ==
  /\ file = None /\ fromInit = FALSE
  /\ cfg = Stopped /\ providers = <<>>
  /\ now = 0
  /\ cert = None /\ entry = None
  /\ asked = None /\ again = None /\ blind = FALSE
  /\ purge = "no"

-----------------------------------------------------------------------------
(* Configuration.                                                          *)

\* Mutant: a port given as a flag is not checked.
AnyPort(c) == TRUE

InitAccepts(c) == PortInRange(c)

\* acmesh-ui init, with --force if there is a file.
CmdInit(flags, interactive, answers) ==
  LET c == Written(flags, interactive, answers) IN
  /\ cfg = Stopped
  /\ 0 <= answers.port /\ answers.port <= 65535
  /\ InitAccepts(c)
  /\ file' = c
  /\ fromInit' = TRUE
  /\ UNCHANGED <<cfg, providers, now, cert, entry, asked, again, blind, purge>>

Edit(c) ==
  /\ cfg = Stopped
  /\ file' = c
  /\ fromInit' = FALSE
  /\ UNCHANGED <<cfg, providers, now, cert, entry, asked, again, blind, purge>>

\* acmesh-ui serve
Serve ==
  /\ cfg = Stopped /\ file # None
  /\ Loads(file)
  /\ cfg' = Derived(file)
  /\ UNCHANGED <<file, fromInit, providers, now, cert, entry, asked, again, blind, purge>>

-----------------------------------------------------------------------------
(* Issue.                                                                  *)

\* acme.sh: its own default for the key type, and how it notes the challenge.
Noted(command) ==
  CASE command.challenge = "webroot"    -> "path"
    [] command.challenge = "dns"        -> command.code
    [] command.challenge = "dns-manual" -> "manual"
    [] OTHER                            -> "no"

Stored(command, dir) ==
  [dir       |-> dir,
   names     |-> command.others \cup {command.main},
   main      |-> command.main,
   leWebroot |-> Noted(command),
   leKey     |-> IF command.keyType = "" THEN "ec-256" ELSE command.keyType,
   notAfter  |-> now + Lifetime]

\* The credentials of a request: saved ones by their code, or those of a provider that
\* is in the store; none if it is not.
Credentials(body) ==
  IF body.challenge # "dns" THEN {[code |-> "", env |-> ""]}
  ELSE IF body.saved THEN {[code |-> body.code, env |-> ""]}
  ELSE {[code |-> p.code, env |-> p.env] : p \in {q \in Range(providers) : q.id = body.provider}}

SpecOf(body, credentials) ==
  [domains |-> body.domains, challenge |-> body.challenge, webroot |-> body.webroot,
   code |-> credentials.code, env |-> credentials.env,
   keyType |-> body.keyType, ca |-> body.ca, staging |-> body.staging]

\* POST /api/certs up to the job.
CommandFor(body) ==
  IF Credentials(body) = {} THEN Refused
  ELSE Issue(SpecOf(body, CHOOSE c \in Credentials(body) : TRUE), cfg.keyType)

\* A request that is accepted, and an acme.sh that succeeds.
IssueCert(body, dir) ==
  /\ cfg # Stopped /\ cert = None
  /\ asked' = CommandFor(body)
  /\ asked' # Refused
  /\ cert' = Stored(asked', dir)
  /\ again' = None /\ blind' = FALSE
  /\ UNCHANGED <<file, fromInit, cfg, providers, now, entry, purge>>

\* Providers are added, changed and deleted.
KeepProviders(list) ==
  /\ cfg # Stopped
  /\ providers' = list
  /\ UNCHANGED <<file, fromInit, cfg, now, cert, entry, asked, again, blind, purge>>

-----------------------------------------------------------------------------
(* Scan.                                                                   *)

\* Mutant: days are rounded up.
DaysUp(halfDays) == (halfDays + 1) \div 2

\* Division of Go, towards zero, by the two half days of a day.
Days(halfDays) == IF halfDays >= 0 THEN halfDays \div 2 ELSE -((-halfDays) \div 2)

DaysRemaining(notAfter) == Days(notAfter - now)

\* EvaluateStatus
EvaluateStatus(notAfter) ==
  IF notAfter <= now THEN "expired"
  ELSE IF DaysRemaining(notAfter) <= cfg.days THEN "expiring"
  ELSE "valid"

\* reissueFromConf
Challenge(leWebroot) ==
  CASE leWebroot = "path"           -> "webroot"
    [] leWebroot \in {"no", "manual"} -> "standalone"
    [] OTHER                        -> "dns"

Hint(c) ==
  [challenge |-> Challenge(c.leWebroot),
   webroot   |-> IF Challenge(c.leWebroot) = "webroot" THEN "absolute" ELSE "",
   code      |-> IF Challenge(c.leWebroot) = "dns" THEN c.leWebroot ELSE "",
   keyType   |-> c.leKey]

\* KeyTypeOf names the keys of the leaf as acme.sh does but for those of RSA.
KeyTypeOf(leKey) == IF leKey \in {"2048", "3072", "4096"} THEN "RSA" ELSE leKey

\* scanDomainDir, with a .conf that can be read or not; a home that is not configured
\* cannot be read.
Scan ==
  /\ cfg # Stopped /\ cert # None /\ cfg.home # Unset
  /\ \E hint \in {Hint(cert), None} :
     entry' = [main |-> cert.main, sans |-> cert.names, hint |-> hint,
               keyType |-> KeyTypeOf(cert.leKey), status |-> EvaluateStatus(cert.notAfter),
               days |-> DaysRemaining(cert.notAfter), at |-> now, notAfter |-> cert.notAfter]
  /\ UNCHANGED <<file, fromInit, cfg, providers, now, cert, asked, again, blind, purge>>

Tick ==
  /\ now < MaxTime /\ cert # None
  /\ now' = now + 1
  /\ UNCHANGED <<file, fromInit, cfg, providers, cert, entry, asked, again, blind, purge>>

-----------------------------------------------------------------------------
(* Re-issue.                                                               *)

\* The key types the wizard offers; another one selects nothing.
Offered == {"ec-256", "ec-384", "2048", "4096"}

\* Mutant: the wildcard names are taken over like the others, and the box is ticked too.
PlainNamesAll(e) == e.sans \ {e.main}

PlainNames(e) == {d \in e.sans \ {e.main} : ~IsWild(d)}

\* What the page falls back to for a certificate whose .conf could not be read.
HintOf(e) ==
  IF e.hint # None THEN e.hint
  ELSE [challenge |-> "dns", webroot |-> "", code |-> "", keyType |-> e.keyType]

Coded(code) == {i \in DOMAIN providers : providers[i].code = code}

\* The provider that is selected: the first with the code, or the first of all.
Selected(code) ==
  IF Coded(code) # {}
  THEN providers[CHOOSE i \in Coded(code) : \A j \in Coded(code) : i <= j].id
  ELSE IF providers # <<>> THEN providers[1].id ELSE ""

\* reissue fills the wizard, and collectIssue reads it; the CA and the staging box are
\* as they were never touched.
Prefilled(e) ==
  [domains   |-> <<e.main>> \o SetToSeq(PlainNames(e))
                 \o IF \E d \in e.sans : IsWild(d) THEN <<Star(e.main)>> ELSE <<>>,
   challenge |-> HintOf(e).challenge,
   webroot   |-> HintOf(e).webroot,
   saved     |-> HintOf(e).code # "" /\ Coded(HintOf(e).code) = {},
   code      |-> HintOf(e).code,
   provider  |-> Selected(HintOf(e).code),
   keyType   |-> IF HintOf(e).keyType \in Offered THEN HintOf(e).keyType ELSE "",
   ca        |-> "",
   staging   |-> FALSE]

\* The operator opens the wizard from the list and submits it as it is.
ReissueCert ==
  /\ entry # None /\ cert # None
  /\ again' = CommandFor(Prefilled(entry))
  /\ cert' = IF again' = Refused THEN cert ELSE Stored(again', cert.dir)
  /\ blind' = (blind \/ entry.hint = None)
  /\ UNCHANGED <<file, fromInit, cfg, providers, now, entry, asked, purge>>

-----------------------------------------------------------------------------
(* Delete.                                                                 *)

\* filepath.Clean takes one component after the other: ".." takes the last away, but
\* not from another "..", and of an absolute path it goes.
Descend(abs, parts, c) ==
  IF c \in Skipped THEN parts
  ELSE IF c # Up THEN Append(parts, c)
  ELSE IF parts # <<>> /\ Last(parts) # Up THEN Front(parts)
  ELSE IF abs THEN parts ELSE Append(parts, c)

\* What the first components of a path come to.
Descent(p) ==
  LET to[n \in 0..Len(p.parts)] ==
        IF n = 0 THEN <<>> ELSE Descend(p.abs, to[n - 1], p.parts[n])
  IN  to

Clean(p) == Path(p.abs, Descent(p)[Len(p.parts)])

\* filepath.Join(home, name)
DomainDir == Clean(Path(cfg.home.abs, Append(cfg.home.parts, cert.dir)))

\* strings.HasPrefix(dir, base + "/") of clean paths: "/" and "." end no prefix.
Below(dir, base) ==
  /\ dir.abs = base.abs
  /\ base.parts # <<>>
  /\ IsStrictPrefix(base.parts, dir.parts)

\* strings.Contains(dir, "..")
HasDots(dir) == \E i \in DOMAIN dir.parts : dir.parts[i] \in Dotted

\* Mutant: the handler compares the paths as they are configured.
WithinUncleaned(dir, base) == Below(dir, base) /\ ~HasDots(dir) /\ base # Unset

DirWithin(dir, base) == Below(Clean(dir), Clean(base)) /\ ~HasDots(dir) /\ base # Unset

\* strings.TrimRight(home, "/\\"): empty components go, and backslashes.
Stem(c) == IF c \in DOMAIN Bare THEN Bare[c] ELSE c

Left(parts) ==
  CHOOSE n \in 0..Len(parts) :
    /\ n > 0 => Stem(parts[n]) # ""
    /\ \A i \in DOMAIN parts : i > n => Stem(parts[i]) = ""

TrimRight(p) ==
  LET n == Left(p.parts) IN
  Path(p.abs, [i \in 1..n |-> IF i = n THEN Stem(p.parts[i]) ELSE p.parts[i]])

\* purgeDir
PurgeDir(dir) ==
  LET home == TrimRight(cfg.home) IN
  /\ home.parts # <<>>
  /\ Below(Clean(dir), Clean(home))
  /\ ~HasDots(dir)

\* DELETE /api/certs/{id}?purge=1: Builder.Remove, the handler's check, and a job
\* whose acme.sh succeeds.
DeleteCert ==
  /\ entry # None /\ purge = "no" /\ cert # None
  /\ ValidDomain(entry.main)
  /\ \/ ~DirWithin(DomainDir, cfg.home) /\ purge' = "refused" /\ UNCHANGED <<cert, entry>>
     \/ /\ DirWithin(DomainDir, cfg.home) /\ ~PurgeDir(DomainDir)
        /\ purge' = "failed" /\ UNCHANGED <<cert, entry>>
     \/ /\ DirWithin(DomainDir, cfg.home) /\ PurgeDir(DomainDir)
        /\ purge' = "done" /\ cert' = None /\ entry' = None
  /\ UNCHANGED <<file, fromInit, cfg, providers, now, asked, again, blind>>

-----------------------------------------------------------------------------
Next ==
  \/ \E flags, answers \in Answers, interactive \in BOOLEAN : CmdInit(flags, interactive, answers)
  \/ \E c \in Files : Edit(c)
  \/ Serve
  \/ \E list \in Providers : KeepProviders(list)
  \/ \E body \in Requests, dir \in DirNames : IssueCert(body, dir)
  \/ Scan \/ Tick \/ ReissueCert \/ DeleteCert

Spec == Init /\ [][Next]_vars

-----------------------------------------------------------------------------
\* No server runs on a configuration that opens it to the network without
\* authentication and without the opt-in; and what init has written is accepted at
\* the start unless the operator left just that opt-in out (main.go:115-149,
\* loader.go:14-27, validate.go:23-28).
StartGate ==
  /\ cfg # Stopped => (IsOpenBind(cfg) /\ AuthDisabled(cfg) => cfg.allow)
  /\ fromInit => Loads(file) \/ (IsOpenBind(file) /\ ~file.allow)

\* The status agrees with the certificate's validity at the time of the scan:
\* expired from the very end on, valid while more whole days are left than the
\* warning period has; the days shown never go below what is left nor, before the
\* end, above it (cert.go:77-91).
StatusIsRight ==
  entry # None => LET left == entry.notAfter - entry.at IN
    /\ entry.status = "expired" <=> left <= 0
    /\ entry.status = "valid" <=> left >= 2 * (cfg.days + 1)
    /\ left >= 0 => 2 * entry.days \in {left, left - 1}
    /\ left < 0 => 2 * entry.days \in {left, left + 1}

EndsInBackslash(p) ==
  \E i \in DOMAIN p.parts :
    /\ p.parts[i] \in DOMAIN Bare
    /\ \A k \in DOMAIN p.parts : k > i => p.parts[k] = ""

\* The handler's check of a directory and the job's are of one mind, unless the home is
\* configured with a backslash at its end, which the job cuts off; and what they refuse
\* is a path with ".." left in it or a home that is the root or the working directory.
\* Else a certificate that the page lets the operator delete with its files would be
\* left behind by the second check (certs.go:264-274, runner.go:77-93).
PurgeChecksAgree ==
  /\ purge = "failed" => EndsInBackslash(cfg.home)
  /\ purge = "refused" /\ cert # None =>
       HasDots(DomainDir) \/ Clean(cfg.home).parts = <<>>

\* A command as acme.sh takes it: it picks a key type if it is given none.
Sought(command) ==
  [command EXCEPT !.keyType = IF @ = "" THEN "ec-256" ELSE @]

\* The certificate a command asks for, whoever issues it and by whose credentials.
Certificate(command) ==
  [main |-> command.main, others |-> command.others, challenge |-> command.challenge,
   webroot |-> command.webroot, code |-> command.code, keyType |-> Sought(command).keyType]

\* What the wizard can be filled with: no manual DNS, a key type it offers, and no other
\* wildcard than the one of the main domain.
Expressible(command) ==
  /\ command.challenge # "dns-manual"
  /\ command.keyType \in Offered \cup {""}
  /\ \A d \in command.others \cup {command.main} : IsWild(d) => d = Star(command.main)

\* The credentials of a command are those of every provider with its code, and there is
\* such a provider unless they are the ones acme.sh has saved.
OnlyCredentials(command) ==
  /\ \A i \in Coded(command.code) : providers[i].env = command.env
  /\ command.env # "" => Coded(command.code) # {}

\* A re-issue that is submitted as the wizard was filled asks for the certificate that
\* was issued - names, challenge, provider code or webroot, key type - through the
\* command line, the .conf, the scanner and the form and back, as long as no .conf was
\* unreadable; and for just the same of acme.sh, if the CA was the default one, without
\* staging, and the credentials are the only ones with that code: these three are not
\* restored (certs.go:85-131, command_builder.go:92-151, scanner.go:106-144,
\* pages.js:253-270, pages2.js:127-170).
ReissueKeepsRequest ==
  [][ReissueCert /\ ~blind' /\ Expressible(asked) =>
       /\ again' # Refused
       /\ Certificate(again') = Certificate(asked)
       /\ asked.ca = "" /\ ~asked.staging /\ OnlyCredentials(asked)
            => again' = Sought(asked)]_vars

-----------------------------------------------------------------------------
\* scanner.go:122-123: reissueFromConf "derives the original issuance parameters used
\* to pre-fill the re-issue wizard".  Manual DNS comes back as standalone, a key type
\* that is not offered as the default, "*.api.x" as "*.x", and a wildcard main domain
\* as a request that is refused.
ReissueIsOriginal ==
  again # None /\ ~blind => again # Refused /\ Certificate(again) = Certificate(asked)
=============================================================================
