--------------------------- MODULE Updater_proofs ---------------------------
(***************************************************************************)
(* Proofs about Updater, for any number of handlers, releases and updates: *)
(* the executable is always one complete release, an older one comes in    *)
(* place of a newer one by overlapping updates only, the page reloads from *)
(* the release it was told, and the cached check is about the one that     *)
(* serves.                                                                 *)
(*                                                                         *)
(* The invariant follows an update from the release it was told to the     *)
(* file it renames: what is in hand is that release, verified before it is *)
(* written; and as long as no other update has been completed, nothing     *)
(* newer than that release is in place, because nothing newer than the     *)
(* latest release ever is.  Two invariants stand on it: PInv follows the   *)
(* release of a request from the rename to the page that waits for it,     *)
(* AInv the answers of the check into the cache.                           *)
(***************************************************************************)
EXTENDS Updater, TLAPS

\* What an update u has in hand at each of its steps, when l is the latest release.
InHand(u, l) ==
  /\ u.at # "idle" => u.tag \in Tags /\ u.tag <= l
  /\ u.at \in {"verify", "write", "rename"} => u.data \in Image /\ u.data.tag = u.tag
  /\ u.at \in {"write", "rename"} => u.data.whole
  /\ u.at = "rename" => u.temp = u.data

\* As long as no other update was completed since it asked, u installs nothing older
\* than the release e that is in place.
NotBehind(u, e) ==
  u.at \in {"download", "verify", "write", "rename"} /\ u.alone => e <= u.tag

Sound(u, l, e) == u \in Update /\ InHand(u, l) /\ NotBehind(u, e)

UInv ==
  /\ TypeOK
  /\ exe.whole
  /\ exe.tag <= latest
  /\ \A a \in Actors : Sound(apply[a], latest, exe.tag)

-----------------------------------------------------------------------------
LEMMA InitUInv == Init => UInv
<1> SUFFICES ASSUME Init PROVE UInv
  OBVIOUS
<1> USE UpdaterAssumption DEF Init, Tags, Image, None, Idle, Answer, NoAnswer, NoPage, Down
<1>1. Idle \in Update
  BY DEF Update
<1>2. TypeOK
  BY <1>1 DEF TypeOK
<1>3. exe.whole /\ exe.tag <= latest
  OBVIOUS
<1>4. \A a \in Actors : Sound(apply[a], latest, exe.tag)
  BY <1>1 DEF Sound, InHand, NotBehind
<1> QED
  BY <1>2, <1>3, <1>4 DEF UInv

\* A step that changes the record of one update only.
LEMMA OneStep ==
  ASSUME UInv, NEW a \in Actors, NEW u, Sound(u, latest, exe.tag),
         apply' = [apply EXCEPT ![a] = u], UNCHANGED <<latest, exe>>
  PROVE  /\ apply' \in [Actors -> Update]
         /\ \A b \in Actors : Sound(apply'[b], latest', exe'.tag)
<1>1. apply \in [Actors -> Update]
  BY DEF UInv, TypeOK
<1>2. u \in Update
  BY DEF Sound
<1>3. \A b \in Actors : apply'[b] = IF b = a THEN u ELSE apply[b]
  BY <1>1
<1>4. \A b \in Actors : Sound(apply'[b], latest, exe.tag)
  BY <1>3 DEF UInv
<1> QED
  BY <1>1, <1>2, <1>4 DEF Sound, InHand, NotBehind

\* Each of these steps puts a sound record in place of the one before.
LEMMA StepIsSound ==
  ASSUME UInv, NEW a \in Actors,
         \/ Ask(a) \/ Download(a) \/ Verify(a) \/ WriteTemp(a) \/ Fail(a)
         \/ a \in Requests /\ Finish(a)
         \/ a = Cli /\ CliEnds
  PROVE  \E u : /\ Sound(u, latest, exe.tag) /\ apply' = [apply EXCEPT ![a] = u]
                /\ UNCHANGED <<latest, exe>>
<1> DEFINE now == apply[a]
<1>0. /\ now \in Update /\ InHand(now, latest) /\ NotBehind(now, exe.tag)
      /\ latest \in Tags /\ exe.tag \in Tags /\ exe.tag <= latest
  BY DEF UInv, TypeOK, Sound, Image
<1>1. Idle \in Update /\ Sound(Idle, latest, exe.tag)
  BY DEF Update, Idle, Image, None, Sound, InHand, NotBehind
<1>2. CASE Ask(a)
  <2> DEFINE u == [Idle EXCEPT !.at = "download", !.tag = latest]
  <2>1. u \in Update /\ u.at = "download" /\ u.tag = latest
    BY <1>0, <1>1 DEF Update
  <2>2. latest <= latest
    BY <1>0 DEF Tags
  <2> HIDE DEF u
  <2>3. Sound(u, latest, exe.tag)
    BY <1>0, <2>1, <2>2 DEF Sound, InHand, NotBehind
  <2> QED
    BY <1>2, <2>3 DEF u, Ask, Step, server
<1>3. CASE Download(a)
  <2>1. PICK whole \in BOOLEAN :
          Step(a, "download", [now EXCEPT !.at = "verify",
                                          !.data = [tag |-> now.tag, whole |-> whole]])
    BY <1>3 DEF Download
  <2> DEFINE u == [now EXCEPT !.at = "verify", !.data = [tag |-> now.tag, whole |-> whole]]
  <2>2. now.tag \in Tags /\ now.tag <= latest /\ (now.alone => exe.tag <= now.tag)
    BY <1>0, <2>1 DEF Step, InHand, NotBehind
  <2>3. /\ u \in Update /\ u.at = "verify" /\ u.tag = now.tag /\ u.alone = now.alone
        /\ u.data = [tag |-> now.tag, whole |-> whole] /\ u.data \in Image
    BY <1>0, <2>2 DEF Update, Image
  <2> HIDE DEF u
  <2>4. Sound(u, latest, exe.tag)
    BY <2>2, <2>3 DEF Sound, InHand, NotBehind
  <2> QED
    BY <1>3, <2>1, <2>4 DEF u, Download, Step
<1>4. CASE Verify(a)
  <2> DEFINE u == [now EXCEPT !.at = "write"]
  <2>1. now.at = "verify" /\ now.data.whole
    BY <1>4 DEF Verify, Verified, Step
  <2>2. /\ u \in Update /\ u.at = "write" /\ u.tag = now.tag /\ u.alone = now.alone
        /\ u.data = now.data
    BY <1>0 DEF Update
  <2> HIDE DEF u
  <2>3. Sound(u, latest, exe.tag)
    BY <1>0, <2>1, <2>2 DEF Sound, InHand, NotBehind
  <2> QED
    BY <1>4, <2>3 DEF u, Verify, Step
<1>5. CASE WriteTemp(a)
  <2> DEFINE u == [now EXCEPT !.temp = [now.data EXCEPT !.whole = FALSE]]
             v == [now EXCEPT !.at = "rename", !.temp = now.data]
  <2>1. now.at = "write" /\ now.data \in Image /\ now.data.whole
    BY <1>0, <1>5 DEF WriteTemp, Step, InHand
  <2>2. [now.data EXCEPT !.whole = FALSE] \in Image
    BY <2>1 DEF Image
  <2>3. /\ u \in Update /\ u.at = now.at /\ u.tag = now.tag /\ u.alone = now.alone
        /\ u.data = now.data
    BY <1>0, <2>2 DEF Update
  <2>4. /\ v \in Update /\ v.at = "rename" /\ v.tag = now.tag /\ v.alone = now.alone
        /\ v.data = now.data /\ v.temp = now.data
    BY <1>0, <2>1 DEF Update
  <2> HIDE DEF u, v
  <2>5. Sound(u, latest, exe.tag)
    BY <1>0, <2>1, <2>3 DEF Sound, InHand, NotBehind
  <2>6. Sound(v, latest, exe.tag)
    BY <1>0, <2>1, <2>4 DEF Sound, InHand, NotBehind
  <2> QED
    BY <1>5, <2>5, <2>6 DEF u, v, WriteTemp, Step
<1>6. CASE Fail(a) \/ (a \in Requests /\ Finish(a)) \/ (a = Cli /\ CliEnds)
  BY <1>1, <1>6 DEF Fail, Finish, CliEnds, Step
<1> QED
  BY <1>2, <1>3, <1>4, <1>5, <1>6

\* The steps of an update up to the rename, and its end.
LEMMA UpdateStep ==
  ASSUME UInv, NEW a \in Actors,
         \/ Ask(a) \/ Download(a) \/ Verify(a) \/ WriteTemp(a) \/ Fail(a)
         \/ a \in Requests /\ Finish(a)
         \/ a = Cli /\ CliEnds
  PROVE  UInv'
<1>1. /\ apply' \in [Actors -> Update]
      /\ \A b \in Actors : Sound(apply'[b], latest', exe'.tag)
      /\ UNCHANGED <<latest, exe>>
  BY StepIsSound, OneStep
<1>2. /\ UNCHANGED <<running, cache, checking>>
      /\ applies' \in 0..MaxApplies
      /\ due' \subseteq Requests /\ (running' = Down => due' = {})
      /\ page' \in [Requests -> [at : {"none", "wait", "reload"}, tag : Tags \cup {0}]]
      /\ behind' \subseteq Requests
  <2>1. CASE Ask(a)
    BY <2>1, UpdaterAssumption DEF Ask, server, UInv, TypeOK
  <2>2. CASE Download(a) \/ Verify(a) \/ WriteTemp(a) \/ Fail(a) \/ (a = Cli /\ CliEnds)
    BY <2>2 DEF Download, Verify, WriteTemp, Fail, CliEnds, server, UInv, TypeOK
  <2>3. CASE a \in Requests /\ Finish(a)
    <3>1. apply[a].tag \in Tags \cup {0}
      BY DEF UInv, TypeOK, Update
    <3>2. running # Down
      BY <2>3, UpdaterAssumption DEF Finish, Step, Alive
    <3>3. [at |-> "wait", tag |-> apply[a].tag]
            \in [at : {"none", "wait", "reload"}, tag : Tags \cup {0}]
      BY <3>1
    <3> QED
      BY <2>3, <3>2, <3>3 DEF Finish, UInv, TypeOK
  <2> QED
    BY <2>1, <2>2, <2>3
<1> QED
  BY <1>1, <1>2 DEF UInv, TypeOK

\* The rename: what it puts in place is whole, and is no newer than the latest release;
\* whoever has asked already is not alone any more.
LEMMA RenameStep ==
  ASSUME UInv, NEW a \in Actors, Rename(a)
  PROVE  /\ UInv'
         /\ exe'.tag < exe.tag => apply[a].at = "rename" /\ ~apply[a].alone
<1> DEFINE mine == [apply[a] EXCEPT !.at = "installed", !.temp = None]
           other(b) == [apply[b] EXCEPT !.alone = (apply[b] = Idle)]
<1>1. /\ apply[a].at = "rename" /\ exe' = apply[a].temp /\ latest' = latest
      /\ apply' = [b \in Actors |-> IF b = a THEN mine ELSE other(b)]
  BY DEF Rename
<1>2. \A b \in Actors : /\ apply[b] \in Update
                        /\ InHand(apply[b], latest) /\ NotBehind(apply[b], exe.tag)
  BY DEF UInv, Sound
<1>3. exe' \in Image /\ exe'.whole /\ exe'.tag = apply[a].tag /\ exe'.tag <= latest
  BY <1>1, <1>2 DEF InHand
<1>4. Sound(mine, latest, exe'.tag)
  <2>1. mine \in Update /\ mine.at = "installed" /\ mine.tag = apply[a].tag
    BY <1>2 DEF Update
  <2>2. apply[a].tag \in Tags /\ apply[a].tag <= latest
    BY <1>1, <1>2 DEF InHand
  <2> HIDE DEF mine
  <2> QED
    BY <2>1, <2>2 DEF Sound, InHand, NotBehind
<1>5. ASSUME NEW b \in Actors PROVE Sound(other(b), latest, exe'.tag)
  <2> DEFINE u == other(b)
  <2>1. apply[b].at # "idle" => apply[b] # Idle
    BY DEF Idle
  <2>2. /\ u \in Update /\ u.at = apply[b].at /\ u.tag = apply[b].tag
        /\ u.data = apply[b].data /\ u.temp = apply[b].temp
        /\ u.alone = (apply[b] = Idle)
    BY <1>2 DEF Update
  <2> HIDE DEF other
  <2>3. InHand(u, latest)
    BY <1>2, <2>2 DEF InHand
  <2>4. NotBehind(u, exe'.tag)
    BY <2>1, <2>2 DEF NotBehind
  <2> QED
    BY <2>2, <2>3, <2>4 DEF Sound
<1>6. \A b \in Actors : Sound(apply'[b], latest', exe'.tag)
  <2> HIDE DEF mine, other
  <2> QED
    BY <1>1, <1>4, <1>5
<1>7. apply' \in [Actors -> Update]
  <2> HIDE DEF mine, other
  <2> QED
    BY <1>1, <1>4, <1>5 DEF Sound
<1>8. behind' \subseteq Requests /\ UNCHANGED <<latest, applies, page, running, due, cache, checking>>
  BY DEF Rename, server, UInv, TypeOK
<1>9. UInv'
  BY <1>3, <1>6, <1>7, <1>8 DEF UInv, TypeOK
<1>10. exe'.tag < exe.tag => ~apply[a].alone
  <2>1. exe.tag \in Int /\ exe'.tag \in Int
    BY <1>3, UpdaterAssumption DEF UInv, TypeOK, Image, Tags
  <2>2. apply[a].alone => exe.tag <= exe'.tag
    BY <1>1, <1>2, <1>3 DEF NotBehind
  <2> QED
    BY <2>1, <2>2
<1> QED
  BY <1>1, <1>9, <1>10

-----------------------------------------------------------------------------
\* Another process image.
LEMMA BecomesStep ==
  ASSUME UInv, NEW release \in Tags \cup {Down}, Becomes(release)
  PROVE  UInv'
<1>1. UNCHANGED <<latest, exe, applies, page, behind>> /\ running' = release /\ due' = {}
      /\ cache' = NoAnswer /\ checking' = [c \in Checks |-> NoAnswer]
      /\ apply' = [a \in Actors |-> IF a = Cli THEN apply[a] ELSE Idle]
  BY DEF Becomes
<1>2. Sound(Idle, latest, exe.tag)
  BY DEF Update, Idle, Image, None, Sound, InHand, NotBehind
<1>3. \A b \in Actors : Sound(apply'[b], latest', exe'.tag)
  BY <1>1, <1>2 DEF UInv
<1>4. TypeOK'
  BY <1>1, <1>3 DEF UInv, TypeOK, Sound
<1> QED
  BY <1>1, <1>3, <1>4 DEF UInv

\* The other steps leave the updates alone.
LEMMA OtherStep ==
  ASSUME UInv, UNCHANGED apply,
         \/ \E r \in Requests : Poll(r) \/ PageEnds(r)
         \/ \E c \in Checks : AskLatest(c) \/ StoreCheck(c)
         \/ Publish \/ Expire \/ UNCHANGED vars
  PROVE  UInv'
<1> USE UpdaterAssumption DEF Down, Answer, NoAnswer, NoPage
<1>0. latest \in Tags /\ exe.tag \in Tags /\ Tags \subseteq Int
  BY DEF UInv, TypeOK, Image, Tags
<1>1. exe' = exe /\ latest' \in Tags /\ latest <= latest'
  BY <1>0 DEF Poll, PageEnds, AskLatest, StoreCheck, Publish, Expire, vars, Tags
<1>2. \A t \in Tags : t <= latest => t <= latest'
  <2> SUFFICES ASSUME NEW t \in Tags, t <= latest PROVE t <= latest'
    OBVIOUS
  <2>1. t \in Int /\ latest \in Int /\ latest' \in Int
    BY <1>0, <1>1
  <2> QED
    BY <1>1, <2>1
<1>3. \A a \in Actors : Sound(apply'[a], latest', exe'.tag)
  <2>1. ASSUME NEW a \in Actors PROVE Sound(apply[a], latest', exe.tag)
    <3>1. Sound(apply[a], latest, exe.tag)
      BY DEF UInv
    <3>2. InHand(apply[a], latest')
      BY <3>1, <1>2 DEF Sound, InHand
    <3> QED
      BY <3>1, <3>2 DEF Sound
  <2> QED
    BY <1>1, <2>1
<1>4. TypeOK'
  <2>1. CASE \E r \in Requests : Poll(r) \/ PageEnds(r)
    BY <1>1, <2>1 DEF Poll, PageEnds, server, UInv, TypeOK
  <2>2. ASSUME NEW c \in Checks, AskLatest(c) PROVE TypeOK'
    <3>1. [latest |-> latest, current |-> running, fresh |-> TRUE, alone |-> TRUE] \in Answer
      BY <2>2 DEF AskLatest, UInv, TypeOK
    <3> QED
      BY <1>1, <2>2, <3>1 DEF AskLatest, UInv, TypeOK
  <2>3. ASSUME NEW c \in Checks, StoreCheck(c) PROVE TypeOK'
    <3>1. \A d \in Checks : checking[d] # NoAnswer =>
            checking[d] \in Answer /\ [checking[d] EXCEPT !.alone = FALSE] \in Answer
      BY DEF UInv, TypeOK
    <3> QED
      BY <1>1, <2>3, <3>1 DEF StoreCheck, UInv, TypeOK
  <2>4. CASE Expire
    <3>1. cache \in Answer
      BY <2>4 DEF Expire, UInv, TypeOK
    <3>2. [cache EXCEPT !.fresh = FALSE] \in Answer
      BY <3>1
    <3> QED
      BY <1>1, <2>4, <3>2 DEF Expire, UInv, TypeOK
  <2>5. CASE Publish \/ UNCHANGED vars
    BY <1>1, <2>5 DEF Publish, server, vars, UInv, TypeOK
  <2> QED
    BY <2>1, <2>2, <2>3, <2>4, <2>5
<1>5. exe'.tag <= latest'
  BY <1>0, <1>1, <1>2 DEF UInv
<1> QED
  BY <1>1, <1>3, <1>4, <1>5 DEF UInv

\* One step of the system: the invariant, and who may go back to an older release.
LEMMA NextUInv ==
  ASSUME UInv, [Next]_vars
  PROVE  /\ UInv'
         /\ exe'.tag < exe.tag => \E a \in Actors : apply[a].at = "rename" /\ ~apply[a].alone
<1>0. exe.tag \in Tags /\ running \in Tags \cup {Down}
  BY DEF UInv, TypeOK, Image
<1>1. ASSUME NEW a \in Actors, Rename(a)
      PROVE  UInv' /\ (exe'.tag < exe.tag => apply[a].at = "rename" /\ ~apply[a].alone)
  BY <1>1, RenameStep
<1>2. ASSUME NEW a \in Actors,
             Ask(a) \/ Download(a) \/ Verify(a) \/ WriteTemp(a) \/ Fail(a)
      PROVE  UInv' /\ exe' = exe
  BY <1>2, UpdateStep DEF Ask, Download, Verify, WriteTemp, Fail
<1>3. ASSUME NEW r \in Requests, Finish(r) PROVE UInv' /\ exe' = exe
  BY <1>3, UpdateStep DEF Actors, Finish
<1>4. CASE CliEnds
  BY <1>0, <1>4, UpdateStep DEF Actors, CliEnds, Tags, UpdaterAssumption
<1>5. ASSUME (\E r \in Requests : Restart(r)) \/ Crash \/ ManagerStarts \/ OperatorRestarts
      PROVE  UInv' /\ exe' = exe
  <2>1. PICK release \in Tags \cup {Down} : Becomes(release)
    BY <1>0, <1>5 DEF Restart, Crash, ManagerStarts, OperatorRestarts
  <2> QED
    BY <2>1, BecomesStep DEF Becomes
<1>6. ASSUME \/ \E r \in Requests : Poll(r) \/ PageEnds(r)
             \/ \E c \in Checks : AskLatest(c) \/ StoreCheck(c)
             \/ Publish \/ Expire \/ UNCHANGED vars
      PROVE  UInv' /\ exe' = exe
  <2>1. UNCHANGED <<apply, exe>>
    BY <1>6 DEF Poll, PageEnds, AskLatest, StoreCheck, Publish, Expire, vars
  <2> QED
    BY <1>6, <2>1, OtherStep
<1>7. exe' = exe => ~(exe'.tag < exe.tag)
  BY <1>0 DEF Tags
<1> QED
  BY <1>1, <1>2, <1>3, <1>4, <1>5, <1>6, <1>7 DEF Next

-----------------------------------------------------------------------------
\* Every variable of the updater keeps its type.
THEOREM UpdaterTypeCorrect == Spec => []TypeOK
<1>1. UInv => TypeOK
  BY DEF UInv
<1> QED
  BY InitUInv, NextUInv, <1>1, PTL DEF Spec

\* Wherever an update fails or dies, and whatever runs beside it, the executable is one
\* release, complete and verified (updater.go:96-196).
THEOREM ExecutableWhole == Spec => []ExecutableIsWhole
<1>1. UInv => ExecutableIsWhole
  BY DEF UInv, ExecutableIsWhole
<1> QED
  BY InitUInv, NextUInv, <1>1, PTL DEF Spec

\* An older release replaces a newer one only by an update that another overtook
\* (updater.go:103, 192).
THEOREM OlderByOverlapOnly == Spec => OlderOnlyByOverlap
<1>1. UInv /\ [Next]_vars =>
        [exe'.tag < exe.tag => \E a \in Actors : apply[a].at = "rename" /\ ~apply[a].alone]_vars
  BY NextUInv
<1> QED
  BY InitUInv, NextUInv, <1>1, PTL DEF Spec, OlderOnlyByOverlap

-----------------------------------------------------------------------------
(* The page.                                                               *)

\* As long as nothing else was installed after it, what request r installed is the
\* executable that is there, and runs once its restart has come.
Followed(r) ==
  /\ apply[r].at # "idle" => page[r] = NoPage
  /\ r \in due => page[r].at = "wait"
  /\ apply[r].at = "installed" /\ r \notin behind => exe.tag = apply[r].tag
  /\ page[r].at = "wait" /\ r \notin behind => exe.tag = page[r].tag
  /\ page[r].at = "wait" /\ r \notin behind /\ r \notin due /\ running # Down
       => running = page[r].tag

PInv == UInv /\ \A r \in Requests : Followed(r)

\* The steps of request r itself, up to the answer.
LEMMA OwnStepFollowed ==
  ASSUME PInv, NEW r \in Requests,
         Ask(r) \/ Download(r) \/ Verify(r) \/ WriteTemp(r) \/ Rename(r) \/ Fail(r) \/ Finish(r)
  PROVE  Followed(r)'
<1>0. Followed(r) /\ r \in Actors /\ r # Cli /\ apply \in [Actors -> Update]
      /\ page \in [Requests -> [at : {"none", "wait", "reload"}, tag : Tags \cup {0}]]
  BY UpdaterAssumption DEF PInv, UInv, TypeOK, Actors
<1>1. apply[r] \in Update /\ InHand(apply[r], latest)
  BY <1>0 DEF PInv, UInv, Sound
<1>2. NoPage.at = "none"
  BY DEF NoPage
<1>3. CASE Ask(r) \/ Download(r) \/ Verify(r) \/ WriteTemp(r) \/ Fail(r)
  <2>1. page' = page /\ due' = due /\ behind' = behind /\ exe' = exe /\ running' = running
    BY <1>3 DEF Ask, Download, Verify, WriteTemp, Fail, server
  <2>2. apply'[r].at # "installed"
    <3>1. CASE Ask(r)
      BY <1>0, <1>1, <3>1 DEF Ask, Step, Idle
    <3>2. CASE Download(r)
      BY <1>0, <1>1, <3>2, ZenonT(60) DEF Download, Step, Update
    <3>3. CASE Verify(r)
      BY <1>0, <1>1, <3>3 DEF Verify, Step, Update
    <3>4. CASE WriteTemp(r)
      BY <1>0, <1>1, <3>4, ZenonT(60) DEF WriteTemp, Step, Update
    <3>5. CASE Fail(r)
      BY <1>0, <1>1, <3>5 DEF Fail, Step, Idle
    <3> QED
      BY <1>3, <3>1, <3>2, <3>3, <3>4, <3>5
  <2>3. page[r] = NoPage
    BY <1>0, <1>3 DEF Ask, Asks, Download, Verify, WriteTemp, Fail, Step, Followed
  <2> QED
    BY <1>0, <1>2, <2>1, <2>2, <2>3 DEF Followed
<1>4. CASE Rename(r)
  <2>1. /\ apply[r].at = "rename" /\ exe' = apply[r].temp /\ r \notin behind'
        /\ apply'[r] = [apply[r] EXCEPT !.at = "installed", !.temp = None]
        /\ UNCHANGED <<page, due>>
    BY <1>0, <1>4 DEF Rename, server
  <2>2. apply'[r].at = "installed" /\ apply'[r].tag = apply[r].tag
    BY <1>1, <2>1 DEF Update
  <2>3. exe'.tag = apply[r].tag
    BY <1>1, <2>1 DEF InHand
  <2>4. page[r] = NoPage
    BY <1>0, <2>1 DEF Followed
  <2> QED
    BY <1>0, <1>2, <2>1, <2>2, <2>3, <2>4 DEF Followed
<1>5. CASE Finish(r)
  <2>1. /\ apply[r].at = "installed" /\ apply'[r] = Idle
        /\ page'[r] = [at |-> "wait", tag |-> apply[r].tag] /\ r \in due'
        /\ UNCHANGED <<exe, behind, running>>
    BY <1>0, <1>5 DEF Finish, Step
  <2>2. Idle.at = "idle"
    BY DEF Idle
  <2>3. r \notin behind => exe.tag = apply[r].tag
    BY <1>0, <2>1 DEF Followed
  <2>4. page'[r].at = "wait" /\ page'[r].tag = apply[r].tag
    BY <2>1
  <2> QED
    BY <2>1, <2>2, <2>3, <2>4 DEF Followed
<1> QED
  BY <1>3, <1>4, <1>5

\* The steps of another update.  Its rename puts r behind.
LEMMA OtherUpdateFollowed ==
  ASSUME PInv, NEW r \in Requests, NEW a \in Actors, a # r,
         \/ Ask(a) \/ Download(a) \/ Verify(a) \/ WriteTemp(a) \/ Rename(a) \/ Fail(a)
         \/ a \in Requests /\ Finish(a)
         \/ a = Cli /\ CliEnds
  PROVE  Followed(r)'
<1>0. Followed(r) /\ r \in Actors /\ apply \in [Actors -> Update]
      /\ page \in [Requests -> [at : {"none", "wait", "reload"}, tag : Tags \cup {0}]]
  BY DEF PInv, UInv, TypeOK, Actors
<1>1. CASE Rename(a)
  <2>1. /\ apply'[r] = [apply[r] EXCEPT !.alone = (apply[r] = Idle)]
        /\ UNCHANGED <<page, due, running>>
        /\ apply[r].at = "installed" \/ page[r].at = "wait" => r \in behind'
    BY <1>0, <1>1 DEF Rename, server
  <2>2. apply'[r].at = apply[r].at
    BY <1>0, <2>1 DEF Update
  <2> QED
    BY <1>0, <2>1, <2>2 DEF Followed
<1>2. CASE \/ Ask(a) \/ Download(a) \/ Verify(a) \/ WriteTemp(a) \/ Fail(a)
           \/ a \in Requests /\ Finish(a)
           \/ a = Cli /\ CliEnds
  <2>1. /\ apply'[r] = apply[r] /\ page'[r] = page[r] /\ (r \in due' <=> r \in due)
        /\ UNCHANGED <<exe, behind, running>>
    <3>1. CASE Ask(a)
      BY <1>0, <3>1 DEF Ask, Step, server
    <3>2. CASE Download(a) \/ Verify(a)
      BY <1>0, <3>2 DEF Download, Verify, Step, server
    <3>3. CASE WriteTemp(a) \/ Fail(a) \/ (a = Cli /\ CliEnds)
      BY <1>0, <3>3 DEF WriteTemp, Fail, CliEnds, Step, server
    <3>4. CASE a \in Requests /\ Finish(a)
      BY <1>0, <3>4 DEF Finish, Step
    <3> QED
      BY <1>2, <3>1, <3>2, <3>3, <3>4
  <2> QED
    BY <1>0, <2>1 DEF Followed
<1> QED
  BY <1>1, <1>2

\* Another process image runs what is in place, if anything.
LEMMA BecomesFollowed ==
  ASSUME PInv, NEW r \in Requests, NEW release \in {exe.tag, Down}, Becomes(release)
  PROVE  Followed(r)'
<1>0. Followed(r) /\ r \in Actors /\ r # Cli
  BY UpdaterAssumption DEF PInv, Actors
<1>1. /\ UNCHANGED <<exe, page, behind>> /\ running' = release /\ due' = {}
      /\ apply'[r].at = "idle"
  BY <1>0 DEF Becomes, Idle
<1> QED
  BY <1>0, <1>1 DEF Followed

\* The polls of the page, and its end.
LEMMA PageFollowed ==
  ASSUME PInv, NEW r \in Requests, NEW q \in Requests, Poll(q) \/ PageEnds(q)
  PROVE  Followed(r)'
<1>0. Followed(r)
      /\ page \in [Requests -> [at : {"none", "wait", "reload"}, tag : Tags \cup {0}]]
  BY DEF PInv, UInv, TypeOK
<1>1. UNCHANGED <<apply, exe, due, running>> /\ behind' \in {behind, behind \ {q}}
  BY DEF Poll, PageEnds, server
<1>2. CASE q # r
  <2>1. page'[r] = page[r] /\ (r \in behind' <=> r \in behind)
    BY <1>0, <1>1, <1>2 DEF Poll, PageEnds
  <2> QED
    BY <1>0, <1>1, <2>1 DEF Followed
<1>3. CASE q = r
  <2>1. page[r].at \in {"wait", "reload"} /\ (page[r].at = "wait" => r \notin due)
    BY <1>3 DEF Poll, PageEnds, Polls
  <2>2. page[r] # NoPage /\ r \notin due
    BY <1>0, <2>1 DEF NoPage, Followed
  <2>3. apply[r].at = "idle"
    BY <1>0, <2>2 DEF Followed
  <2>4. page'[r].at # "wait"
    BY <1>0, <1>3 DEF Poll, PageEnds, NoPage
  <2> QED
    BY <1>1, <2>2, <2>3, <2>4 DEF Followed
<1> QED
  BY <1>2, <1>3

LEMMA NextPInv ==
  ASSUME PInv, [Next]_vars
  PROVE  PInv'
<1>0. UInv' /\ exe.tag \in Tags
  BY NextUInv DEF PInv, UInv, TypeOK, Image
<1> SUFFICES ASSUME NEW r \in Requests PROVE Followed(r)'
  BY <1>0 DEF PInv
<1>1. ASSUME NEW a \in Actors,
             Ask(a) \/ Download(a) \/ Verify(a) \/ WriteTemp(a) \/ Rename(a) \/ Fail(a)
      PROVE  Followed(r)'
  BY <1>1, OwnStepFollowed, OtherUpdateFollowed
<1>2. ASSUME NEW q \in Requests, Finish(q) PROVE Followed(r)'
  BY <1>2, OwnStepFollowed, OtherUpdateFollowed DEF Actors
<1>3. CASE CliEnds
  BY <1>3, OtherUpdateFollowed, UpdaterAssumption DEF Actors
<1>4. CASE (\E q \in Requests : Restart(q)) \/ Crash \/ ManagerStarts \/ OperatorRestarts
  <2>1. PICK release \in {exe.tag, Down} : Becomes(release)
    BY <1>4 DEF Restart, Crash, ManagerStarts, OperatorRestarts
  <2> QED
    BY <2>1, BecomesFollowed
<1>5. ASSUME NEW q \in Requests, Poll(q) \/ PageEnds(q) PROVE Followed(r)'
  BY <1>5, PageFollowed
<1>6. CASE (\E c \in Checks : AskLatest(c) \/ StoreCheck(c)) \/ Publish \/ Expire \/ UNCHANGED vars
  <2>1. UNCHANGED <<apply, exe, page, behind, due, running>>
    BY <1>6 DEF AskLatest, StoreCheck, Publish, Expire, server, vars
  <2> QED
    BY <2>1 DEF PInv, Followed
<1> QED
  BY <1>1, <1>2, <1>3, <1>4, <1>5, <1>6 DEF Next

LEMMA InitPInv == Init => PInv
<1> SUFFICES ASSUME Init PROVE \A r \in Requests : Followed(r)
  BY InitUInv DEF PInv
<1> QED
  BY DEF Init, Actors, Idle, NoPage, Followed

-----------------------------------------------------------------------------
(* The check.                                                              *)

\* An answer, given or stored: of the release that serves, and of no later release
\* than the latest.
True(answer) ==
  answer # NoAnswer => answer.current = running /\ answer.latest <= latest

\* A check that no other has overtaken knows nothing older than the cache does.
AInv ==
  /\ UInv
  /\ True(cache)
  /\ \A c \in Checks :
       /\ True(checking[c])
       /\ checking[c] # NoAnswer /\ checking[c].alone => cache.latest <= checking[c].latest

LEMMA InitAInv == Init => AInv
<1> SUFFICES ASSUME Init PROVE AInv
  OBVIOUS
<1>1. UInv
  BY InitUInv
<1>2. True(cache) /\ \A c \in Checks : True(checking[c]) /\ checking[c] = NoAnswer
  BY DEF Init, True
<1> QED
  BY <1>1, <1>2 DEF AInv

LEMMA AskLatestAInv ==
  ASSUME AInv, NEW c \in Checks, AskLatest(c), UInv'
  PROVE  AInv'
<1> DEFINE answer == [latest |-> latest, current |-> running, fresh |-> TRUE, alone |-> TRUE]
<1>0. latest \in Nat /\ cache \in Answer \cup {NoAnswer}
      /\ checking \in [Checks -> Answer \cup {NoAnswer}]
  BY UpdaterAssumption DEF AInv, UInv, TypeOK, Tags
<1>1. /\ UNCHANGED <<cache, running, latest>>
      /\ \A d \in Checks : checking'[d] = IF d = c THEN answer ELSE checking[d]
  BY <1>0 DEF AskLatest
<1>2. answer.current = running /\ answer.latest = latest
  OBVIOUS
<1> HIDE DEF answer
<1>3. cache.latest <= latest
  BY <1>0 DEF AInv, True, NoAnswer
<1>4. latest <= latest
  BY <1>0
<1> QED
  BY <1>1, <1>2, <1>3, <1>4 DEF AInv, True

LEMMA StoreCheckAInv ==
  ASSUME AInv, NEW c \in Checks, StoreCheck(c), UInv'
  PROVE  AInv'
<1> DEFINE late(d) == [checking[d] EXCEPT !.alone = FALSE]
<1>0. checking \in [Checks -> Answer \cup {NoAnswer}]
  BY DEF AInv, UInv, TypeOK
<1>1. /\ cache' = checking[c] /\ UNCHANGED <<running, latest>>
      /\ \A d \in Checks : \/ checking'[d] = NoAnswer
                           \/ checking[d] # NoAnswer /\ checking'[d] = late(d)
  BY DEF StoreCheck
<1>2. \A d \in Checks : checking[d] # NoAnswer =>
        /\ late(d).latest = checking[d].latest /\ late(d).current = checking[d].current
        /\ late(d).alone = FALSE
  BY <1>0 DEF Answer
<1> HIDE DEF late
<1>3. True(cache)'
  BY <1>1 DEF AInv, True
<1>4. ASSUME NEW d \in Checks
      PROVE  /\ True(checking[d])'
             /\ checking'[d] # NoAnswer => ~checking'[d].alone
  BY <1>1, <1>2 DEF AInv, True
<1> QED
  BY <1>3, <1>4 DEF AInv

LEMMA NextAInv ==
  ASSUME AInv, [Next]_vars
  PROVE  AInv'
<1>0. UInv'
  BY NextUInv DEF AInv
<1>1. CASE \E c \in Checks : AskLatest(c) \/ StoreCheck(c)
  BY <1>0, <1>1, AskLatestAInv, StoreCheckAInv
<1>2. CASE (\E r \in Requests : Restart(r)) \/ Crash \/ ManagerStarts \/ OperatorRestarts
  <2>1. cache' = NoAnswer /\ \A c \in Checks : checking'[c] = NoAnswer
    BY <1>2 DEF Restart, Crash, ManagerStarts, OperatorRestarts, Becomes
  <2> QED
    BY <1>0, <2>1 DEF AInv, True
<1>3. CASE Publish
  <2>1. UNCHANGED <<cache, checking, running>> /\ latest' = latest + 1
    BY <1>3 DEF Publish, server
  <2>2. latest \in Int /\ cache \in Answer \cup {NoAnswer}
        /\ checking \in [Checks -> Answer \cup {NoAnswer}]
    BY DEF AInv, UInv, TypeOK, Tags
  <2>3. \A answer \in Answer : answer.latest \in Int
    BY DEF Answer, Tags
  <2>4. \A answer \in Answer : answer.latest <= latest => answer.latest <= latest'
    BY <2>1, <2>2, <2>3
  <2> QED
    BY <1>0, <2>1, <2>2, <2>4 DEF AInv, True
<1>4. CASE Expire
  <2>1. cache \in Answer /\ cache # NoAnswer /\ cache' = [cache EXCEPT !.fresh = FALSE]
        /\ UNCHANGED <<checking, running, latest>>
    BY <1>4 DEF Expire, NoAnswer, AInv, UInv, TypeOK
  <2>2. cache'.latest = cache.latest /\ cache'.current = cache.current
    BY <2>1 DEF Answer
  <2> QED
    BY <1>0, <2>1, <2>2 DEF AInv, True
<1>5. CASE \/ \E a \in Actors :
                Ask(a) \/ Download(a) \/ Verify(a) \/ WriteTemp(a) \/ Rename(a) \/ Fail(a)
           \/ \E r \in Requests : Finish(r) \/ Poll(r) \/ PageEnds(r)
           \/ CliEnds \/ UNCHANGED vars
  <2>1. UNCHANGED <<cache, checking, running, latest>>
    BY <1>5 DEF Ask, Download, Verify, WriteTemp, Rename, Fail, Finish, Poll, PageEnds, CliEnds,
                server, vars
  <2> QED
    BY <1>0, <2>1 DEF AInv, True
<1> QED
  BY <1>1, <1>2, <1>3, <1>4, <1>5 DEF Next

-----------------------------------------------------------------------------
\* The page reloads from the release it was told, unless a later installation has
\* replaced that release (update.go:84-86; pages2.js:574-585).
THEOREM PageReloads == Spec => []PageSeesUpdate
<1>1. PInv => PageSeesUpdate
  BY DEF PInv, Followed, PageSeesUpdate, Polls
<1> QED
  BY InitPInv, NextPInv, <1>1, PTL DEF Spec

\* What a check returns from the cache is about the release that serves, and goes back
\* to an older latest release only if two checks overlapped (update.go:28-54).
THEOREM CacheIsTrue == Spec => []CachedCheckIsTrue
<1>1. ASSUME AInv PROVE CachedCheckIsTrue
  <2>1. cache # NoAnswer => cache.current = running
    BY <1>1 DEF AInv, True
  <2>2. ASSUME NEW c \in Checks, checking[c].latest < cache.latest, checking[c].latest # 0
        PROVE  ~checking[c].alone
    <3>1. checking[c].latest \in Int /\ cache.latest \in Int
      BY <1>1 DEF AInv, UInv, TypeOK, Answer, NoAnswer, Tags
    <3>2. checking[c] # NoAnswer
      BY <2>2 DEF NoAnswer
    <3> QED
      BY <1>1, <2>2, <3>1, <3>2 DEF AInv
  <2> QED
    BY <2>1, <2>2 DEF CachedCheckIsTrue
<1> QED
  BY InitAInv, NextAInv, <1>1, PTL DEF Spec
=============================================================================
