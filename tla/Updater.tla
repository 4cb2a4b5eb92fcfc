------------------------------- MODULE Updater -------------------------------
(***************************************************************************)
(* Self-update: the server's update handlers and the update command, each  *)
(* of which asks for the latest release, downloads and verifies it and     *)
(* renames it over the executable; the restart that follows an update from *)
(* the page, the page that waits for it, and the cached update check.      *)
(*                                                                         *)
(* A release is a number.  The server may end at any time, and its service *)
(* manager starts it again from the executable that is there.              *)
(***************************************************************************)
EXTENDS Integers, FiniteSets

CONSTANTS Requests,   \* update handlers, each with the page that called it
          Checks,     \* update check handlers
          Cli,        \* the update command, a process of its own
          MaxTag,     \* bound: releases
          MaxApplies  \* bound: updates begun

ASSUME UpdaterAssumption ==
  /\ IsFiniteSet(Requests \cup Checks)
  /\ Cli \notin Requests
  /\ MaxTag \in Nat \ {0} /\ MaxApplies \in Nat

VARIABLES
  latest,   \* the latest release
  exe,      \* the executable on disk
  running,  \* the release that serves, or Down
  apply,    \* how far each update is
  applies,  \* updates begun
  due,      \* requests whose restart is about to come
  page,     \* what the page of each request waits for, or has got
  cache,    \* updCache, and whether it is younger than five minutes
  checking, \* what each check has been answered and not stored yet
  behind    \* history: requests after whose installation there was another

server == <<running, due, cache, checking>>
vars   == <<latest, exe, apply, applies, page, behind, server>>

Actors == Requests \cup {Cli}
Tags   == 1..MaxTag
Down   == 0
Image  == [tag : Tags, whole : BOOLEAN]
None   == [tag |-> 0, whole |-> FALSE]
Update == [at : {"idle", "download", "verify", "write", "rename", "installed"},
           tag : Tags \cup {0}, data : Image \cup {None}, temp : Image \cup {None},
           alone : BOOLEAN]
Idle   == [at |-> "idle", tag |-> 0, data |-> None, temp |-> None, alone |-> TRUE]
Answer == [latest : Tags, current : Tags, fresh : BOOLEAN, alone : BOOLEAN]
NoAnswer == [latest |-> 0, current |-> 0, fresh |-> FALSE, alone |-> TRUE]
NoPage == [at |-> "none", tag |-> 0]

Init ==
  /\ latest \in Tags
  /\ exe = [tag |-> 1, whole |-> TRUE]
  /\ running = 1
  /\ apply = [a \in Actors |-> Idle]
  /\ applies = 0
  /\ due = {}
  /\ page = [r \in Requests |-> NoPage]
  /\ cache = NoAnswer
  /\ checking = [c \in Checks |-> NoAnswer]
  /\ behind = {}

-----------------------------------------------------------------------------
(* Apply.                                                                  *)

\* Mutant: a handler outlives its process.
Detached(a) == TRUE

Alive(a) == a = Cli \/ running # Down

Step(a, from, to) ==
  /\ Alive(a) /\ apply[a].at = from
  /\ apply' = [apply EXCEPT ![a] = to]

\* The Check of the command that was started from the executable.
UpdateAvailable == exe.tag # latest

\* The command goes on if there is anything to install, the page's operator when the
\* last update of that page is over.
Asks(a) == IF a = Cli THEN UpdateAvailable ELSE page[a] = NoPage

\* Mutant: the page's update installs the release that the check had found.
AskCached(a) ==
  /\ applies < MaxApplies
  /\ Asks(a) /\ (a # Cli => cache # NoAnswer)
  /\ Step(a, "idle", [Idle EXCEPT !.at = "download",
                                 !.tag = IF a = Cli THEN latest ELSE cache.latest])
  /\ applies' = applies + 1
  /\ UNCHANGED <<latest, exe, page, behind, server>>

\* LatestTag
Ask(a) ==
  /\ applies < MaxApplies
  /\ Asks(a)
  /\ Step(a, "idle", [Idle EXCEPT !.at = "download", !.tag = latest])
  /\ applies' = applies + 1
  /\ UNCHANGED <<latest, exe, page, behind, server>>

\* The asset may come damaged, cut off or replaced.
Download(a) ==
  /\ \E whole \in BOOLEAN :
       Step(a, "download", [apply[a] EXCEPT !.at = "verify",
                                            !.data = [tag |-> apply[a].tag, whole |-> whole]])
  /\ UNCHANGED <<latest, exe, applies, page, behind, server>>

\* The checksum of the asset is the one SHA256SUMS names.
Verified(a) == apply[a].data.whole

Verify(a) ==
  /\ Verified(a)
  /\ Step(a, "verify", [apply[a] EXCEPT !.at = "write"])
  /\ UNCHANGED <<latest, exe, applies, page, behind, server>>

\* Mutant: the executable itself is written.
WriteInPlace(a) ==
  /\ \/ /\ Step(a, "write", [apply[a] EXCEPT !.temp = [apply[a].data EXCEPT !.whole = FALSE]])
        /\ exe' = [apply[a].data EXCEPT !.whole = FALSE]
     \/ /\ Step(a, "write", [apply[a] EXCEPT !.at = "rename", !.temp = apply[a].data])
        /\ UNCHANGED exe
  /\ UNCHANGED <<latest, applies, page, behind, server>>

\* replaceExecutable: a temporary file beside the executable, written piece by
\* piece.
WriteTemp(a) ==
  /\ \/ Step(a, "write", [apply[a] EXCEPT !.temp = [apply[a].data EXCEPT !.whole = FALSE]])
     \/ Step(a, "write", [apply[a] EXCEPT !.at = "rename", !.temp = apply[a].data])
  /\ UNCHANGED <<latest, exe, applies, page, behind, server>>

\* The rename: for the updates that have asked already, another release is in place.
Rename(a) ==
  /\ Alive(a) /\ apply[a].at = "rename"
  /\ exe' = apply[a].temp
  /\ apply' = [b \in Actors |->
       IF b = a THEN [apply[a] EXCEPT !.at = "installed", !.temp = None]
       ELSE [apply[b] EXCEPT !.alone = (apply[b] = Idle)]]
  /\ behind' = (behind \ {a})
       \cup {r \in Requests \ {a} : apply[r].at = "installed" \/ page[r].at = "wait"}
  /\ UNCHANGED <<latest, applies, page, server>>

\* Any step may fail: the temporary file is removed and the error reported.
Fail(a) ==
  /\ apply[a].at \in {"download", "verify", "write", "rename"}
  /\ Step(a, apply[a].at, Idle)
  /\ UNCHANGED <<latest, exe, applies, page, behind, server>>

\* Mutant: the answer promises a restart that nobody schedules.
FinishOnly(r) ==
  /\ Step(r, "installed", Idle)
  /\ page' = [page EXCEPT ![r] = [at |-> "wait", tag |-> apply[r].tag]]
  /\ UNCHANGED <<latest, exe, applies, behind, server>>

\* UpdateApply answers with the tag, then leaves the restart to a goroutine.
Finish(r) ==
  /\ Step(r, "installed", Idle)
  /\ page' = [page EXCEPT ![r] = [at |-> "wait", tag |-> apply[r].tag]]
  /\ due' = due \cup {r}
  /\ UNCHANGED <<latest, exe, applies, behind, running, cache, checking>>

\* The command tells the operator to restart the service.
CliEnds ==
  /\ Step(Cli, "installed", Idle)
  /\ UNCHANGED <<latest, exe, applies, page, behind, server>>

-----------------------------------------------------------------------------
(* Restart.                                                                *)

\* Mutant: the process that is replaced hands its cache over.
BecomesWithCache(release) ==
  /\ running' = release
  /\ apply' = [a \in Actors |-> IF a = Cli THEN apply[a] ELSE Idle]
  /\ due' = {}
  /\ checking' = [c \in Checks |-> NoAnswer]
  /\ UNCHANGED <<latest, exe, applies, page, behind, cache>>

\* Another image: handlers, goroutines and the cache are gone; a temporary file
\* that was being written stays behind.
Becomes(release) ==
  /\ running' = release
  /\ apply' = [a \in Actors |-> IF a = Cli THEN apply[a] ELSE Idle]
  /\ due' = {}
  /\ cache' = NoAnswer
  /\ checking' = [c \in Checks |-> NoAnswer]
  /\ UNCHANGED <<latest, exe, applies, page, behind>>

\* execve, 800 ms after the answer; if it fails, the process exits.
Restart(r) == r \in due /\ (Becomes(exe.tag) \/ Becomes(Down))

Crash == running # Down /\ Becomes(Down)

\* The service manager starts what is there.
ManagerStarts == running = Down /\ exe.whole /\ Becomes(exe.tag)

\* systemctl restart
OperatorRestarts == running # Down /\ running # exe.tag /\ exe.whole /\ Becomes(exe.tag)

-----------------------------------------------------------------------------
(* The page.                                                               *)

\* Mutant: the first poll goes out with the answer.
PollsAtOnce(r) == page[r].at = "wait"

\* waitForRestart begins to poll after two seconds, when the restart it waits for has
\* come - or that of another request, which took this one's goroutine with it.
Polls(r) == page[r].at = "wait" /\ r \notin due

\* Any answer of /api/status will do.
Poll(r) ==
  /\ Polls(r)
  /\ running # Down
  /\ page' = [page EXCEPT ![r] = [at |-> "reload", tag |-> @.tag]]
  /\ UNCHANGED <<latest, exe, apply, applies, behind, server>>

\* It has been reloaded, or it gives up after two minutes.
PageEnds(r) ==
  /\ page[r].at = "reload" \/ (Polls(r) /\ running = Down)
  /\ page' = [page EXCEPT ![r] = NoPage]
  /\ behind' = behind \ {r}
  /\ UNCHANGED <<latest, exe, apply, applies, server>>

-----------------------------------------------------------------------------
(* The check.                                                              *)

Publish ==
  /\ latest < MaxTag
  /\ latest' = latest + 1
  /\ UNCHANGED <<exe, apply, applies, page, behind, server>>

\* UpdateCheck finds no answer younger than five minutes and asks.
AskLatest(c) ==
  /\ running # Down
  /\ checking[c] = NoAnswer
  /\ ~cache.fresh
  /\ checking' = [checking EXCEPT ![c] =
       [latest |-> latest, current |-> running, fresh |-> TRUE, alone |-> TRUE]]
  /\ UNCHANGED <<latest, exe, apply, applies, page, behind, running, due, cache>>

\* It stores and returns what it was answered, whatever has been stored meanwhile.
StoreCheck(c) ==
  /\ checking[c] # NoAnswer
  /\ cache' = checking[c]
  /\ checking' = [d \in Checks |->
       IF d = c \/ checking[d] = NoAnswer THEN NoAnswer ELSE [checking[d] EXCEPT !.alone = FALSE]]
  /\ UNCHANGED <<latest, exe, apply, applies, page, behind, running, due>>

Expire ==
  /\ cache.fresh
  /\ cache' = [cache EXCEPT !.fresh = FALSE]
  /\ UNCHANGED <<latest, exe, apply, applies, page, behind, running, due, checking>>

-----------------------------------------------------------------------------
Next ==
  \/ \E a \in Actors :
       Ask(a) \/ Download(a) \/ Verify(a) \/ WriteTemp(a) \/ Rename(a) \/ Fail(a)
  \/ \E r \in Requests : Finish(r) \/ Restart(r) \/ Poll(r) \/ PageEnds(r)
  \/ \E c \in Checks : AskLatest(c) \/ StoreCheck(c)
  \/ CliEnds \/ Crash \/ ManagerStarts \/ OperatorRestarts \/ Publish \/ Expire

\* A handler that has installed goes on, its goroutine wakes up, and the service
\* manager restarts what has ended (Restart=on-failure).
Spec ==
  /\ Init /\ [][Next]_vars
  /\ \A r \in Requests : WF_vars(Finish(r)) /\ WF_vars(Restart(r))
  /\ WF_vars(ManagerStarts)

-----------------------------------------------------------------------------
TypeOK ==
  /\ latest \in Tags
  /\ exe \in Image
  /\ running \in Tags \cup {Down}
  /\ apply \in [Actors -> Update]
  /\ applies \in 0..MaxApplies
  /\ due \subseteq Requests /\ (running = Down => due = {})
  /\ page \in [Requests -> [at : {"none", "wait", "reload"}, tag : Tags \cup {0}]]
  /\ cache \in Answer \cup {NoAnswer}
  /\ checking \in [Checks -> Answer \cup {NoAnswer}]
  /\ behind \subseteq Requests

\* Wherever an update fails or dies, and whatever other update runs beside it, the
\* executable is one release, complete and verified: what starts next can start
\* (updater.go:96-196).
ExecutableIsWhole == exe.whole

\* An update puts an older release in place of a newer one only if another update
\* was completed between its asking for the latest release and its rename: nothing
\* orders the server's updates among themselves or with the command's
\* (updater.go:103, 192; update.go:63).
OlderOnlyByOverlap ==
  [][exe'.tag < exe.tag =>
       \E a \in Actors : apply[a].at = "rename" /\ ~apply[a].alone]_vars

\* The page reloads from the release it was told, unless a later installation has
\* replaced that release, although any answer makes it reload: the restart has come
\* before the first poll (update.go:84-86; pages2.js:574-585).
PageSeesUpdate ==
  \A r \in Requests :
    Polls(r) /\ running # Down => running = page[r].tag \/ r \in behind

\* What a check returns from the cache compares the release that serves, not one
\* that was replaced, with one that was the latest, and goes back to an older one
\* only if two checks overlapped (update.go:28-54).
CachedCheckIsTrue ==
  /\ cache # NoAnswer => cache.current = running
  /\ \A c \in Checks : checking[c].latest < cache.latest /\ checking[c].latest # 0
       => ~checking[c].alone

\* What an update from the page has installed comes to run, whatever happens to the
\* server in between (update.go:84-93).
InstalledRuns ==
  \A r \in Requests : apply[r].at = "installed" ~> running = exe.tag
=============================================================================
