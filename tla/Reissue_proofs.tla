--------------------------- MODULE Reissue_proofs ---------------------------
(***************************************************************************)
(* Proofs about Reissue, for any configurations, answers, requests and     *)
(* lifetime: no server runs open to the network unasked, the status agrees *)
(* with the validity, and a re-issue asks for what was issued.             *)
(*                                                                         *)
(* The last follows a request on its way.  What acme.sh has noted and what *)
(* the scanner has read name the certificate that was asked for, unless a  *)
(* .conf could not be read; and the wizard, filled with such an entry,     *)
(* lists its names once each, so that the builder takes them, and selects  *)
(* a provider with the code or the saved credentials.  That holds for the  *)
(* command of the re-issue too, and so for any number of rounds.           *)
(***************************************************************************)
EXTENDS Reissue, FiniteSetTheorems, SequenceTheorems, WellFoundedInduction, TLAPS

\* A command that is returned for one of the requests.
Command(a) ==
  /\ a = [main |-> a.main, others |-> a.others, challenge |-> a.challenge,
          webroot |-> a.webroot, code |-> a.code, env |-> a.env, keyType |-> a.keyType,
          ca |-> a.ca, staging |-> a.staging]
  /\ a.main \notin a.others
  /\ a.others \subseteq Domain /\ IsFiniteSet(a.others)
  /\ \A d \in a.others \cup {a.main} : d \in Domain /\ ValidDomain(d) /\ Trim(d) = d
  /\ a.challenge \in Challenges /\ a.staging \in BOOLEAN
  /\ a.webroot = IF a.challenge = "webroot" THEN "absolute" ELSE ""
  /\ IF a.challenge = "dns" THEN a.code \notin {""} \cup Notes ELSE a.code = "" /\ a.env = ""

\* A certificate of these names, with this hint, is what the command a asked for.
IsFor(main, names, hint, a) ==
  Expressible(a) =>
    /\ main = a.main
    /\ names = a.others \cup {a.main}
    /\ hint = [challenge |-> a.challenge, webroot |-> a.webroot, code |-> a.code,
               keyType |-> Sought(a).keyType]

\* The command that comes back for a: of the default CA, without staging, and by these
\* credentials.
Returned(a, env) ==
  [main |-> a.main, others |-> a.others, challenge |-> a.challenge, webroot |-> a.webroot,
   code |-> a.code, env |-> env, keyType |-> Sought(a).keyType, ca |-> "", staging |-> FALSE]

\* The names ds are m, first, and those of S, each once.
Lists(ds, m, S) ==
  /\ ds \in Seq(Domain) /\ ds # <<>>
  /\ ds[1] = m
  /\ \A i, j \in 1..Len(ds) : ds[i] = ds[j] => i = j
  /\ {ds[i] : i \in 2..Len(ds)} = S

\* Providers have a code each, and ids of their own.
ProviderList(l) ==
  /\ l \in Seq([id : STRING, code : STRING \ ({""} \cup Notes), env : STRING])
  /\ \A i, j \in DOMAIN l : l[i].id = l[j].id => i = j

ConfigInv ==
  /\ ProviderList(providers)
  /\ file # None => DOMAIN file = DOMAIN Default /\ file.days \in Int
  /\ cfg # Stopped => Gate(cfg) /\ cfg.days \in Nat
  /\ cfg = Stopped => cert = None

CertInv ==
  /\ now \in Nat
  /\ cert = None => entry = None
  /\ cert # None => /\ Command(asked)
                    /\ cert.notAfter \in Nat
                    /\ ~blind => IsFor(cert.main, cert.names, Hint(cert), asked)
  /\ entry # None /\ entry.hint # None /\ ~blind =>
       IsFor(entry.main, entry.sans, entry.hint, asked)

RInv ==
  /\ ConfigInv
  /\ CertInv
  /\ StartGate
  /\ StatusIsRight

-----------------------------------------------------------------------------
(* The wizard.                                                             *)

\* Induction over the natural numbers, for a set that is given.
LEMMA Least ==
  ASSUME NEW S, S \subseteq Nat, S # {}
  PROVE  \E n \in S : \A m \in S : n <= m
<1> DEFINE R == OpToRel(<, Nat)
<1>1. IsWellFoundedOn(R, Nat)
  BY NatLessThanWellFounded
<1>2. \A i, j \in Nat : i < j => <<i, j>> \in R
  BY DEF OpToRel
<1> HIDE DEF R
<1>3. PICK n \in S : \A m \in S : <<m, n>> \notin R
  BY <1>1, WFMin, Zenon
<1>4. \A m \in S : ~(m < n)
  BY <1>2, <1>3, Zenon
<1> QED
  BY <1>4

LEMMA Induct ==
  ASSUME NEW S, S \subseteq Nat, 0 \in S, \A n \in S : n + 1 \in S
  PROVE  S = Nat
<1> SUFFICES ASSUME Nat \ S # {} PROVE FALSE
  OBVIOUS
<1>1. PICK n \in Nat \ S : \A m \in Nat \ S : n <= m
  BY Least
<1> QED
  BY <1>1

\* SetToSeq lists the members of a finite set, each once.
LEMMA SetAsSeq ==
  ASSUME NEW S, IsFiniteSet(S)
  PROVE  /\ SetToSeq(S) \in [1..Cardinality(S) -> S]
         /\ \A i, j \in 1..Cardinality(S) : SetToSeq(S)[i] = SetToSeq(S)[j] => i = j
         /\ \A d \in S : \E i \in 1..Cardinality(S) : SetToSeq(S)[i] = d
<1> DEFINE D == 1..Cardinality(S)
<1>1. Cardinality(S) \in Nat /\ ExistsBijection(D, S)
  BY FS_CardinalityType
<1>2. \E f \in [D -> S] : IsInjective(f)
  BY <1>1 DEF ExistsBijection, Bijection, Injection
<1>3. SetToSeq(S) \in [D -> S] /\ IsInjective(SetToSeq(S))
  BY <1>2 DEF SetToSeq
<1>4. SetToSeq(S) \in Injection(D, S)
  BY <1>3 DEF Injection
<1>5. IsFiniteSet(D) /\ Cardinality(D) = Cardinality(S)
  BY <1>1, FS_Interval
<1>6. SetToSeq(S) \in Surjection(D, S)
  BY <1>4, <1>5, FS_Injection
<1> QED
  BY <1>3, <1>6 DEF Surjection, IsInjective

\* A name and the members of a finite set of others.
LEMMA ListOf ==
  ASSUME NEW m \in Domain, NEW S \in SUBSET Domain, IsFiniteSet(S), m \notin S
  PROVE  Lists(<<m>> \o SetToSeq(S), m, S)
<1> DEFINE n  == Cardinality(S)
           q  == SetToSeq(S)
           ds == <<m>> \o q
<1>1. n \in Nat
  BY FS_CardinalityType
<1>2. q \in [1..n -> S] /\ q \in Seq(Domain) /\ Len(q) = n
  BY <1>1, SetAsSeq
<1>3. <<m>> \in Seq(Domain) /\ Len(<<m>>) = 1 /\ <<m>>[1] = m
  OBVIOUS
<1> HIDE DEF q
<1>4. ds \in Seq(Domain) /\ Len(ds) = n + 1 /\ ds[1] = m
  BY <1>1, <1>2, <1>3
<1>5. \A i \in 2..(n + 1) : ds[i] = q[i - 1] /\ i - 1 \in 1..n
  BY <1>1, <1>2, <1>3
<1>6. ds # <<>>
  BY <1>1, <1>4
<1> HIDE DEF ds, n
<1>7. \A i, j \in 1..n : q[i] = q[j] => i = j
  BY SetAsSeq DEF q, n
<1>8. \A d \in S : \E i \in 1..n : q[i] = d
  BY SetAsSeq DEF q, n
<1>9. \A i, j \in 1..Len(ds) : ds[i] = ds[j] => i = j
  <2> SUFFICES ASSUME NEW i \in 1..(n + 1), NEW j \in 1..(n + 1), ds[i] = ds[j] PROVE i = j
    BY <1>4
  <2>1. CASE i = 1 \/ j = 1
    <3>1. \A k \in 2..(n + 1) : ds[k] # m
      BY <1>1, <1>2, <1>5
    <3> QED
      BY <2>1, <3>1, <1>1, <1>4
  <2>2. CASE i # 1 /\ j # 1
    <3>1. i \in 2..(n + 1) /\ j \in 2..(n + 1)
      BY <2>2, <1>1
    <3> QED
      BY <3>1, <1>1, <1>5, <1>7
  <2> QED
    BY <2>1, <2>2
<1>10. {ds[i] : i \in 2..Len(ds)} = S
  <2>1. ASSUME NEW d \in S PROVE \E i \in 2..(n + 1) : ds[i] = d
    <3>1. PICK k \in 1..n : q[k] = d
      BY <1>8
    <3>2. k + 1 \in 2..(n + 1) /\ (k + 1) - 1 = k
      BY <1>1
    <3> QED
      BY <3>1, <3>2, <1>5
  <2>2. ASSUME NEW i \in 2..(n + 1) PROVE ds[i] \in S
    BY <1>2, <1>5
  <2> QED
    BY <2>1, <2>2, <1>4
<1> QED
  BY <1>4, <1>6, <1>9, <1>10 DEF Lists, ds, q

\* One more at the end.
LEMMA ListMore ==
  ASSUME NEW m, NEW S, NEW ds, Lists(ds, m, S), NEW w \in Domain, w # m, w \notin S
  PROVE  Lists(ds \o <<w>>, m, S \cup {w})
<1> DEFINE n  == Len(ds)
           es == ds \o <<w>>
<1>1. ds \in Seq(Domain) /\ n \in Nat /\ n >= 1
  BY DEF Lists
<1>2. es \in Seq(Domain) /\ Len(es) = n + 1 /\ es[n + 1] = w
  BY <1>1
<1>3. \A i \in 1..n : es[i] = ds[i]
  BY <1>1
<1>4. es # <<>> /\ es[1] = m
  BY <1>1, <1>2, <1>3 DEF Lists
<1> HIDE DEF es
<1>5. \A i \in 1..n : ds[i] # w
  <2> SUFFICES ASSUME NEW i \in 1..n PROVE ds[i] # w
    OBVIOUS
  <2>1. CASE i = 1
    BY <2>1 DEF Lists
  <2>2. CASE i # 1
    <3>1. i \in 2..Len(ds)
      BY <2>2, <1>1
    <3> QED
      BY <3>1 DEF Lists
  <2> QED
    BY <2>1, <2>2
<1>6. \A i, j \in 1..Len(es) : es[i] = es[j] => i = j
  <2> SUFFICES ASSUME NEW i \in 1..(n + 1), NEW j \in 1..(n + 1), es[i] = es[j] PROVE i = j
    BY <1>2
  <2>1. CASE i \in 1..n /\ j \in 1..n
    BY <2>1, <1>3 DEF Lists
  <2>2. CASE i = n + 1 \/ j = n + 1
    BY <2>2, <1>1, <1>2, <1>3, <1>5
  <2> QED
    BY <2>1, <2>2, <1>1
<1>7. {es[i] : i \in 2..Len(es)} = S \cup {w}
  <2>1. 2..Len(es) = (2..n) \cup {n + 1}
    BY <1>1, <1>2
  <2>2. \A i \in 2..n : es[i] = ds[i]
    BY <1>1, <1>3
  <2>3. {es[i] : i \in 2..Len(es)} = {ds[i] : i \in 2..n} \cup {w}
    BY <2>1, <2>2, <1>2
  <2> QED
    BY <2>3 DEF Lists
<1> QED
  BY <1>2, <1>4, <1>6, <1>7 DEF Lists, es

\* The builder accepts the names ds: as m, first, and the others in S.
Accepts(ds, m, S) ==
  /\ ValidDomains(ds)
  /\ Trim(ds[1]) = m
  /\ {Trim(ds[i]) : i \in 2..Len(ds)} = S

\* The builder accepts names that are listed so, and takes them as they are.
LEMMA AcceptsList ==
  ASSUME NEW ds, NEW m, NEW S, Lists(ds, m, S),
         \A d \in S \cup {m} : ValidDomain(d) /\ Trim(d) = d
  PROVE  Accepts(ds, m, S)
<1>1. ds \in Seq(Domain) /\ ds # <<>> /\ Len(ds) \in Nat /\ Len(ds) >= 1 /\ DOMAIN ds = 1..Len(ds)
  BY DEF Lists
<1>2. \A i \in 1..Len(ds) : ds[i] \in S \cup {m}
  <2> SUFFICES ASSUME NEW i \in 1..Len(ds) PROVE ds[i] \in S \cup {m}
    OBVIOUS
  <2>1. CASE i = 1
    BY <2>1 DEF Lists
  <2>2. CASE i # 1
    <3>1. i \in 2..Len(ds)
      BY <2>2, <1>1
    <3> QED
      BY <3>1 DEF Lists
  <2> QED
    BY <2>1, <2>2
<1>3. \A i \in 1..Len(ds) : ValidDomain(ds[i]) /\ Trim(ds[i]) = ds[i]
  BY <1>2
<1>4. \A i, j \in DOMAIN ds : Trim(ds[i]) = Trim(ds[j]) => i = j
  BY <1>1, <1>3 DEF Lists
<1>5. ValidDomains(ds)
  BY <1>1, <1>3, <1>4 DEF ValidDomains
<1>6. Trim(ds[1]) = m
  BY <1>1, <1>3 DEF Lists
<1>7. {Trim(ds[i]) : i \in 2..Len(ds)} = S
  <2>1. \A i \in 2..Len(ds) : Trim(ds[i]) = ds[i]
    BY <1>1, <1>3
  <2>2. {ds[i] : i \in 2..Len(ds)} = S
    BY DEF Lists
  <2> QED
    BY <2>1, <2>2
<1> QED
  BY <1>5, <1>6, <1>7 DEF Accepts

\* The command for a request that lists the names of the command a.
LEMMA SameCommand ==
  ASSUME NEW a, Command(a), NEW spec, NEW k,
         Lists(spec.domains, a.main, a.others),
         spec.challenge = a.challenge, spec.webroot = a.webroot, spec.code = a.code,
         a.challenge # "dns-manual", spec.keyType \in KeyTypes \ {""},
         spec.ca = "", spec.staging = FALSE, spec.challenge # "dns" => spec.env = ""
  PROVE  Issue(spec, k) =
           [main |-> a.main, others |-> a.others, challenge |-> a.challenge,
            webroot |-> a.webroot, code |-> a.code, env |-> spec.env,
            keyType |-> spec.keyType, ca |-> "", staging |-> FALSE]
<1>1. \A d \in a.others \cup {a.main} : ValidDomain(d) /\ Trim(d) = d
  BY DEF Command
<1>2. /\ ValidDomains(spec.domains)
      /\ Trim(spec.domains[1]) = a.main
      /\ {Trim(spec.domains[i]) : i \in 2..Len(spec.domains)} = a.others
  <2>1. Accepts(spec.domains, a.main, a.others)
    BY <1>1, AcceptsList
  <2> QED
    BY <2>1, Zenon DEF Accepts
<1>3. KeyFor(spec.keyType, k) = spec.keyType /\ spec.keyType \in KeyTypes
  BY DEF KeyFor
<1>4. ValidChallenge(spec)
  BY DEF ValidChallenge, Command
<1>5. /\ (IF spec.challenge = "webroot" THEN spec.webroot ELSE "") = a.webroot
      /\ (IF spec.challenge = "dns" THEN spec.code ELSE "") = a.code
      /\ (IF spec.challenge = "dns" THEN spec.env ELSE "") = spec.env
  BY DEF Command
<1>6. Issue(spec, k) =
        [main |-> Trim(spec.domains[1]),
         others |-> {Trim(spec.domains[i]) : i \in 2..Len(spec.domains)},
         challenge |-> spec.challenge,
         webroot |-> IF spec.challenge = "webroot" THEN spec.webroot ELSE "",
         code |-> IF spec.challenge = "dns" THEN spec.code ELSE "",
         env |-> IF spec.challenge = "dns" THEN spec.env ELSE "",
         keyType |-> KeyFor(spec.keyType, k), ca |-> spec.ca, staging |-> spec.staging]
  BY <1>2, <1>3, <1>4, Zenon DEF Issue
<1> QED
  BY <1>2, <1>3, <1>5, <1>6, Zenon

\* The command as acme.sh takes it, with the key type filled in.
LEMMA SoughtKey ==
  ASSUME NEW a, Command(a)
  PROVE  /\ Sought(a).keyType = IF a.keyType = "" THEN "ec-256" ELSE a.keyType
         /\ Sought(a) = [main |-> a.main, others |-> a.others, challenge |-> a.challenge,
                         webroot |-> a.webroot, code |-> a.code, env |-> a.env,
                         keyType |-> Sought(a).keyType, ca |-> a.ca, staging |-> a.staging]
<1> DEFINE v == IF a.keyType = "" THEN "ec-256" ELSE a.keyType
<1>1. a \in [main : {a.main}, others : {a.others}, challenge : {a.challenge},
             webroot : {a.webroot}, code : {a.code}, env : {a.env}, keyType : {a.keyType},
             ca : {a.ca}, staging : {a.staging}]
  <2>1. a = [main |-> a.main, others |-> a.others, challenge |-> a.challenge,
             webroot |-> a.webroot, code |-> a.code, env |-> a.env, keyType |-> a.keyType,
             ca |-> a.ca, staging |-> a.staging]
    BY DEF Command
  <2> QED
    BY <2>1
<1>2. Sought(a) = [a EXCEPT !.keyType = v]
  BY DEF Sought
<1> HIDE DEF v
<1>3. Sought(a) \in [main : {a.main}, others : {a.others}, challenge : {a.challenge},
                     webroot : {a.webroot}, code : {a.code}, env : {a.env}, keyType : {v},
                     ca : {a.ca}, staging : {a.staging}]
  BY <1>1, <1>2
<1>4. Sought(a) = [main |-> a.main, others |-> a.others, challenge |-> a.challenge,
                   webroot |-> a.webroot, code |-> a.code, env |-> a.env, keyType |-> v,
                   ca |-> a.ca, staging |-> a.staging]
  BY <1>3
<1>5. Sought(a).keyType = v
  BY <1>4
<1> QED
  BY <1>4, <1>5, Zenon DEF v

\* The names of a command that the wizard can express: besides the main one there is no
\* wildcard but the one of the main name.
LEMMA ExpressibleNames ==
  ASSUME NEW a, Command(a), Expressible(a)
  PROVE  /\ ~IsWild(a.main) /\ Star(a.main) # a.main
         /\ IsWild(Star(a.main))
         /\ \A d \in a.others : IsWild(d) => d = Star(a.main)
<1>1. a.main \in Domain
  BY DEF Command
<1>2. \A d \in Domain : Star(d) # d /\ IsWild(Star(d))
  <2> SUFFICES ASSUME NEW d \in Domain PROVE Star(d) # d /\ IsWild(Star(d))
    OBVIOUS
  <2>1. d.stars \in 0..2 /\ Star(d).stars = d.stars + 1
    BY DEF Domain, Star
  <2> QED
    BY <2>1 DEF IsWild
<1> QED
  BY <1>1, <1>2 DEF Expressible

\* The wizard lists the names of the command again.
LEMMA WizardLists ==
  ASSUME NEW a, Command(a), Expressible(a), NEW e, e.main = a.main, e.sans = a.others \cup {a.main}
  PROVE  Lists(Prefilled(e).domains, a.main, a.others)
<1> DEFINE m == a.main
           P == {d \in a.others : ~IsWild(d)}
           w == \E d \in e.sans : IsWild(d)
<1>1. /\ m \in Domain /\ m \notin a.others
      /\ a.others \subseteq Domain /\ IsFiniteSet(a.others)
  BY DEF Command
<1>2. PlainNames(e) = P
  BY <1>1 DEF PlainNames
<1>3. P \in SUBSET Domain /\ IsFiniteSet(P) /\ m \notin P
  BY <1>1, FS_Subset
<1>4. Lists(<<m>> \o SetToSeq(P), m, P)
  BY <1>1, <1>3, ListOf
<1>5. CASE w
  <2>1. Star(m) \in a.others
    BY <1>5, ExpressibleNames
  <2>2. a.others = P \cup {Star(m)} /\ Star(m) \notin P /\ Star(m) # m
    BY <2>1, ExpressibleNames
  <2>3. Star(m) \in Domain
    BY <2>1, <1>1
  <2>4. Lists((<<m>> \o SetToSeq(P)) \o <<Star(m)>>, m, P \cup {Star(m)})
    BY <1>4, <2>2, <2>3, ListMore
  <2>5. Prefilled(e).domains = (<<m>> \o SetToSeq(P)) \o <<Star(m)>>
    BY <1>2, <1>5 DEF Prefilled
  <2> QED
    BY <2>2, <2>4, <2>5
<1>6. CASE ~w
  <2>1. a.others = P
    BY <1>6
  <2>2. Prefilled(e).domains = (<<m>> \o SetToSeq(P)) \o <<>>
    BY <1>2, <1>6 DEF Prefilled
  <2>3. Prefilled(e).domains = <<m>> \o SetToSeq(P)
    <3>1. <<m>> \o SetToSeq(P) \in Seq(Domain)
      BY <1>4 DEF Lists
    <3> QED
      BY <3>1, <2>2, ConcatEmptySeq
  <2> QED
    BY <1>4, <2>1, <2>3
<1> QED
  BY <1>5, <1>6

LEMMA SeqFacts ==
  ASSUME NEW T, NEW l \in Seq(T)
  PROVE  DOMAIN l = 1..Len(l) /\ Len(l) \in Nat /\ \A i \in DOMAIN l : l[i] \in T
OBVIOUS

\* The provider that the wizard selects for a code has that code, and the handler finds
\* its credentials.
LEMMA SelectedIs ==
  ASSUME ProviderList(providers), NEW code, Coded(code) # {},
         NEW b, b.challenge = "dns", ~b.saved, b.provider = Selected(code)
  PROVE  \E i \in Coded(code) : Credentials(b) = {[code |-> code, env |-> providers[i].env]}
<1> DEFINE first == CHOOSE i \in Coded(code) : \A j \in Coded(code) : i <= j
<1>1. DOMAIN providers = 1..Len(providers) /\ Len(providers) \in Nat
  BY SeqFacts, Zenon DEF ProviderList
<1>2. Coded(code) \subseteq DOMAIN providers /\ Coded(code) \subseteq Nat
  BY <1>1 DEF Coded
<1>3. \E i \in Coded(code) : \A j \in Coded(code) : i <= j
  BY <1>2, Least
<1>4. first \in Coded(code)
  BY <1>3
<1>5. b.provider = providers[first].id
  BY DEF Selected
<1> HIDE DEF first
<1>6. providers[first].code = code
  BY <1>4 DEF Coded
<1>7. {q \in Range(providers) : q.id = b.provider} = {providers[first]}
  <2>1. providers[first] \in Range(providers)
    BY <1>2, <1>4 DEF Range
  <2>2. ASSUME NEW q \in Range(providers), q.id = b.provider PROVE q = providers[first]
    <3>1. PICK i \in DOMAIN providers : q = providers[i]
      BY DEF Range
    <3>2. providers[i].id = providers[first].id
      BY <1>5, <2>2, <3>1
    <3>3. i = first
      BY <1>2, <1>4, <3>2, Zenon DEF ProviderList
    <3> QED
      BY <3>1, <3>3
  <2> QED
    BY <1>5, <2>1, <2>2
<1>8. Credentials(b) = {[code |-> p.code, env |-> p.env] : p \in {providers[first]}}
  BY <1>7, Zenon DEF Credentials
<1> QED
  BY <1>4, <1>6, <1>8

\* The credentials that a re-issue goes out with.
LEMMA CredentialsBack ==
  ASSUME ProviderList(providers), NEW a, Command(a),
         NEW b, b.challenge = a.challenge, b.code = a.code,
         b.saved = (a.code # "" /\ Coded(a.code) = {}), b.provider = Selected(a.code)
  PROVE  \E env : /\ Credentials(b) = {[code |-> a.code, env |-> env]}
                  /\ a.challenge # "dns" => env = ""
                  /\ OnlyCredentials(a) => env = a.env
<1>1. CASE a.challenge # "dns"
  <2>1. Credentials(b) = {[code |-> "", env |-> ""]}
    BY <1>1, Zenon DEF Credentials
  <2>2. a.code = "" /\ a.env = ""
    BY <1>1 DEF Command
  <2> QED
    BY <1>1, <2>1, <2>2
<1>2. CASE a.challenge = "dns" /\ Coded(a.code) = {}
  <2>1. b.saved
    BY <1>2 DEF Command
  <2>2. Credentials(b) = {[code |-> a.code, env |-> ""]}
    BY <1>2, <2>1, Zenon DEF Credentials
  <2>3. OnlyCredentials(a) => a.env = ""
    BY <1>2 DEF OnlyCredentials
  <2> QED
    BY <1>2, <2>2, <2>3
<1>3. CASE a.challenge = "dns" /\ Coded(a.code) # {}
  <2>1. ~b.saved
    BY <1>3
  <2>2. PICK i \in Coded(a.code) : Credentials(b) = {[code |-> a.code, env |-> providers[i].env]}
    <3>1. b.challenge = "dns" /\ Coded(a.code) # {} /\ b.provider = Selected(a.code)
      BY <1>3
    <3> QED
      BY <2>1, <3>1, SelectedIs, Zenon
  <2>3. OnlyCredentials(a) => providers[i].env = a.env
    BY DEF OnlyCredentials
  <2> QED
    BY <1>3, <2>2, <2>3
<1> QED
  BY <1>1, <1>2, <1>3

\* A re-issue submitted as the wizard was filled asks for the certificate that was asked
\* for.
LEMMA RoundTrip ==
  ASSUME ProviderList(providers), NEW a, Command(a), Expressible(a),
         NEW e, e.hint # None, IsFor(e.main, e.sans, e.hint, a)
  PROVE  \E env : /\ CommandFor(Prefilled(e)) = Returned(a, env)
                  /\ a.challenge # "dns" => env = ""
                  /\ OnlyCredentials(a) => env = a.env
<1>1. /\ e.main = a.main /\ e.sans = a.others \cup {a.main}
      /\ e.hint = [challenge |-> a.challenge, webroot |-> a.webroot, code |-> a.code,
                   keyType |-> Sought(a).keyType]
  BY DEF IsFor
<1>2. Lists(Prefilled(e).domains, a.main, a.others)
  BY <1>1, WizardLists
<1>3. /\ HintOf(e).challenge = a.challenge /\ HintOf(e).webroot = a.webroot
      /\ HintOf(e).code = a.code /\ HintOf(e).keyType = Sought(a).keyType
  <2>1. HintOf(e) = e.hint
    BY DEF HintOf
  <2> QED
    BY <1>1, <2>1
<1>4. Sought(a).keyType = IF a.keyType = "" THEN "ec-256" ELSE a.keyType
  BY SoughtKey
<1>5. Sought(a).keyType \in Offered
  BY <1>4 DEF Expressible, Offered
<1>6. PICK b : b = Prefilled(e)
  OBVIOUS
<1>7. /\ b.challenge = a.challenge /\ b.webroot = a.webroot /\ b.code = a.code
      /\ b.keyType = Sought(a).keyType /\ b.ca = "" /\ b.staging = FALSE
      /\ b.saved = (a.code # "" /\ Coded(a.code) = {}) /\ b.provider = Selected(a.code)
  BY <1>3, <1>5, <1>6 DEF Prefilled
<1>8. PICK env : /\ Credentials(b) = {[code |-> a.code, env |-> env]}
                 /\ a.challenge # "dns" => env = ""
                 /\ OnlyCredentials(a) => env = a.env
  BY <1>7, CredentialsBack
<1>9. PICK spec : spec = SpecOf(b, [code |-> a.code, env |-> env])
  OBVIOUS
<1>10. CommandFor(b) = Issue(spec, cfg.keyType)
  <2>1. PICK c : c = [code |-> a.code, env |-> env]
    OBVIOUS
  <2>2. Credentials(b) = {c}
    BY <1>8, <2>1
  <2>3. Credentials(b) # {} /\ (CHOOSE x \in Credentials(b) : TRUE) = c
    BY <2>2
  <2> QED
    BY <1>9, <2>1, <2>3, Zenon DEF CommandFor
<1>11. /\ spec.domains = b.domains /\ spec.challenge = a.challenge /\ spec.webroot = a.webroot
       /\ spec.code = a.code /\ spec.env = env /\ spec.keyType = Sought(a).keyType
       /\ spec.ca = "" /\ spec.staging = FALSE
  BY <1>7, <1>9 DEF SpecOf
<1>12. a.challenge # "dns-manual" /\ Sought(a).keyType \in KeyTypes \ {""}
  BY <1>5 DEF Expressible, Offered, KeyTypes
<1>13. Lists(spec.domains, a.main, a.others)
  BY <1>2, <1>6, <1>11
<1>14. spec.keyType \in KeyTypes \ {""} /\ (spec.challenge # "dns" => spec.env = "")
  BY <1>8, <1>11, <1>12
<1>15. Issue(spec, cfg.keyType) =
         [main |-> a.main, others |-> a.others, challenge |-> a.challenge,
          webroot |-> a.webroot, code |-> a.code, env |-> spec.env,
          keyType |-> spec.keyType, ca |-> "", staging |-> FALSE]
  BY <1>11, <1>12, <1>13, <1>14, SameCommand
<1>16. CommandFor(b) = Returned(a, env)
  BY <1>10, <1>11, <1>15, Zenon DEF Returned
<1> QED
  BY <1>6, <1>8, <1>16

-----------------------------------------------------------------------------
(* Commands and certificates.                                              *)

\* Blanks around a name are trimmed once and for all, and change nothing else.
LEMMA TrimFacts ==
  ASSUME NEW d \in Domain
  PROVE  Trim(d) \in Domain /\ Trim(Trim(d)) = Trim(d) /\ (ValidDomain(d) => ValidDomain(Trim(d)))
<1>1. Trim(d) \in Domain /\ Trim(d).stars = d.stars /\ Trim(d).name = d.name /\ Trim(d).padded = FALSE
  BY DEF Domain, Trim
<1>2. \A c \in Domain : c.padded = FALSE => Trim(c) = c
  BY DEF Domain, Trim
<1> QED
  BY <1>1, <1>2 DEF ValidDomain

\* The code of a request is the code of a provider, or the request's own.
LEMMA CodeOf ==
  ASSUME ProviderList(providers), NEW body \in Requests, NEW c \in Credentials(body)
  PROVE  c.code \notin Notes
<1>1. body.code \notin Notes
  BY ReissueAssumption
<1>2. "" \notin Notes
  BY DEF Notes
<1>3. ASSUME NEW p \in Range(providers) PROVE p.code \notin Notes
  <2>1. PICK i \in DOMAIN providers : p = providers[i]
    BY DEF Range
  <2>2. p \in [id : STRING, code : STRING \ ({""} \cup Notes), env : STRING]
    BY <2>1, SeqFacts, Zenon DEF ProviderList
  <2> QED
    BY <2>2
<1>4. CASE c \in {[code |-> "", env |-> ""]}
  <2>1. c = [code |-> "", env |-> ""]
    BY <1>4, Zenon
  <2>2. c.code = ""
    BY <2>1
  <2> QED
    BY <1>2, <2>2
<1>5. CASE c \in {[code |-> body.code, env |-> ""]}
  <2>1. c = [code |-> body.code, env |-> ""]
    BY <1>5, Zenon
  <2>2. c.code = body.code
    BY <2>1
  <2> QED
    BY <1>1, <2>2
<1>6. CASE c \in {[code |-> p.code, env |-> p.env] :
                   p \in {q \in Range(providers) : q.id = body.provider}}
  BY <1>3, <1>6
<1> QED
  BY <1>4, <1>5, <1>6, Zenon DEF Credentials

\* What Issue returns for a request is a command.
LEMMA IssueIsCommand ==
  ASSUME NEW spec, spec.domains \in Seq(Domain), spec.code \notin Notes,
         spec.staging \in BOOLEAN, NEW k, Issue(spec, k) # Refused
  PROVE  Command(Issue(spec, k))
<1> DEFINE a  == Issue(spec, k)
<1>1. ValidDomains(spec.domains) /\ KeyFor(spec.keyType, k) \in KeyTypes /\ ValidChallenge(spec)
  BY Zenon DEF Issue
<1>2. PICK ds : ds = spec.domains
  OBVIOUS
<1>3. PICK others : others = {Trim(ds[i]) : i \in 2..Len(ds)}
  OBVIOUS
<1>4. a = [main |-> Trim(ds[1]), others |-> others,
           challenge |-> spec.challenge,
           webroot |-> IF spec.challenge = "webroot" THEN spec.webroot ELSE "",
           code |-> IF spec.challenge = "dns" THEN spec.code ELSE "",
           env |-> IF spec.challenge = "dns" THEN spec.env ELSE "",
           keyType |-> KeyFor(spec.keyType, k), ca |-> spec.ca, staging |-> spec.staging]
  BY <1>1, <1>2, <1>3, Zenon DEF Issue
<1>5. ds \in Seq(Domain)
  BY <1>2
<1>6. /\ ds # <<>>
      /\ \A i \in DOMAIN ds : ValidDomain(ds[i])
      /\ \A i, j \in DOMAIN ds : Trim(ds[i]) = Trim(ds[j]) => i = j
  BY <1>1, <1>2, Zenon DEF ValidDomains
<1>7. Len(ds) \in Nat /\ Len(ds) >= 1 /\ DOMAIN ds = 1..Len(ds)
  BY <1>5, <1>6
<1>8. \A i \in 1..Len(ds) : LET d == Trim(ds[i]) IN d \in Domain /\ ValidDomain(d) /\ Trim(d) = d
  <2> SUFFICES ASSUME NEW i \in 1..Len(ds)
               PROVE  LET d == Trim(ds[i]) IN d \in Domain /\ ValidDomain(d) /\ Trim(d) = d
    OBVIOUS
  <2>1. ds[i] \in Domain /\ ValidDomain(ds[i])
    BY <1>5, <1>6, <1>7
  <2> QED
    BY <2>1, TrimFacts
<1>9. Trim(ds[1]) \notin others
  <2>1. \A i \in 2..Len(ds) : Trim(ds[i]) # Trim(ds[1])
    BY <1>6, <1>7
  <2> QED
    BY <2>1, <1>3
<1>10. IsFiniteSet(others)
  <2>1. IsFiniteSet(2..Len(ds))
    BY <1>7, FS_Interval
  <2>2. PICK f : f = [i \in 2..Len(ds) |-> Trim(ds[i])]
    OBVIOUS
  <2>3. f \in Surjection(2..Len(ds), others)
    BY <2>2, <1>3 DEF Surjection
  <2> QED
    BY <2>1, <2>3, FS_Surjection
<1>11. \A d \in others : d \in Domain /\ ValidDomain(d) /\ Trim(d) = d
  <2>1. \A i \in 2..Len(ds) : i \in 1..Len(ds)
    BY <1>7
  <2> QED
    BY <1>3, <1>8, <2>1
<1>12. Trim(ds[1]) \in Domain /\ ValidDomain(Trim(ds[1])) /\ Trim(Trim(ds[1])) = Trim(ds[1])
  BY <1>7, <1>8
<1>13. /\ spec.challenge \in Challenges
       /\ (IF spec.challenge = "webroot" THEN spec.webroot ELSE "")
            = IF spec.challenge = "webroot" THEN "absolute" ELSE ""
       /\ spec.challenge = "dns" => spec.code \notin {""} \cup Notes
  BY <1>1 DEF ValidChallenge
<1> HIDE DEF a
<1>14. /\ a.main = Trim(ds[1]) /\ a.others = others /\ a.challenge = spec.challenge
       /\ a.webroot = IF spec.challenge = "webroot" THEN spec.webroot ELSE ""
       /\ a.code = IF spec.challenge = "dns" THEN spec.code ELSE ""
       /\ a.env = IF spec.challenge = "dns" THEN spec.env ELSE ""
       /\ a.keyType = KeyFor(spec.keyType, k) /\ a.ca = spec.ca /\ a.staging = spec.staging
  BY <1>4
<1>15. a = [main |-> a.main, others |-> a.others, challenge |-> a.challenge,
            webroot |-> a.webroot, code |-> a.code, env |-> a.env, keyType |-> a.keyType,
            ca |-> a.ca, staging |-> a.staging]
  BY <1>4, <1>14, Zenon
<1>16. /\ a.main \notin a.others
       /\ a.others \subseteq Domain /\ IsFiniteSet(a.others)
       /\ \A d \in a.others \cup {a.main} : d \in Domain /\ ValidDomain(d) /\ Trim(d) = d
  BY <1>9, <1>10, <1>11, <1>12, <1>14
<1>17. /\ a.challenge \in Challenges
       /\ a.webroot = IF a.challenge = "webroot" THEN "absolute" ELSE ""
       /\ IF a.challenge = "dns" THEN a.code \notin {""} \cup Notes ELSE a.code = "" /\ a.env = ""
  <2>1. spec.challenge = "dns" => a.code = spec.code /\ a.code \notin {""} \cup Notes
    BY <1>13, <1>14, Zenon
  <2>2. spec.challenge # "dns" => a.code = "" /\ a.env = ""
    BY <1>14, Zenon
  <2>3. a.challenge = spec.challenge /\ a.challenge \in Challenges
    BY <1>13, <1>14, Zenon
  <2>4. a.webroot = IF a.challenge = "webroot" THEN "absolute" ELSE ""
    BY <1>13, <1>14, Zenon
  <2> QED
    BY <2>1, <2>2, <2>3, <2>4, Zenon
<1>18. a.staging \in BOOLEAN
  BY <1>14
<1>19. Command(a)
  BY <1>15, <1>16, <1>17, <1>18, Zenon DEF Command
<1> QED
  BY <1>19 DEF a

\* What the handler makes of a request is a command.
LEMMA CommandIsCommand ==
  ASSUME ProviderList(providers), NEW body \in Requests, CommandFor(body) # Refused
  PROVE  Command(CommandFor(body))
<1>1. PICK c \in Credentials(body) : CommandFor(body) = Issue(SpecOf(body, c), cfg.keyType)
  <2>1. Credentials(body) # {}
    BY Zenon DEF CommandFor
  <2>2. (CHOOSE c \in Credentials(body) : TRUE) \in Credentials(body)
    BY <2>1
  <2> QED
    BY <2>1, <2>2, Zenon DEF CommandFor
<1>2. PICK spec : spec = SpecOf(body, c)
  OBVIOUS
<1>3. spec.domains = body.domains /\ spec.code = c.code /\ spec.staging = body.staging
  BY <1>2 DEF SpecOf
<1>4. spec.domains \in Seq(Domain) /\ spec.code \notin Notes /\ spec.staging \in BOOLEAN
  BY <1>3, CodeOf, ReissueAssumption
<1> QED
  BY <1>1, <1>2, <1>4, IssueIsCommand

\* What a record of a command's shape holds.
Fields(b, main, others, challenge, webroot, code, env, keyType, ca, staging) ==
  /\ b.main = main /\ b.others = others /\ b.challenge = challenge
  /\ b.webroot = webroot /\ b.code = code /\ b.env = env /\ b.keyType = keyType
  /\ b.ca = ca /\ b.staging = staging

LEMMA FieldsOf ==
  ASSUME NEW main, NEW others, NEW challenge, NEW webroot, NEW code, NEW env, NEW keyType,
         NEW ca, NEW staging
  PROVE  Fields([main |-> main, others |-> others, challenge |-> challenge,
                 webroot |-> webroot, code |-> code, env |-> env, keyType |-> keyType,
                 ca |-> ca, staging |-> staging],
                main, others, challenge, webroot, code, env, keyType, ca, staging)
  BY DEF Fields

\* The commands b and a are for the same certificate.
ForTheSame(b, a) ==
  /\ Command(b) /\ Expressible(b) /\ b # Refused
  /\ b.main = a.main /\ b.others = a.others /\ b.challenge = a.challenge
  /\ b.webroot = a.webroot /\ b.code = a.code
  /\ Sought(b).keyType = Sought(a).keyType
  /\ Certificate(b) = Certificate(a)

\* The command that comes back is one for the same certificate.
LEMMA ReturnedFacts ==
  ASSUME NEW a, Command(a), Expressible(a), NEW env, a.challenge # "dns" => env = "",
         NEW b, b = Returned(a, env)
  PROVE  ForTheSame(b, a)
<1>1. PICK key : key = Sought(a).keyType
  OBVIOUS
<1>2. key \in Offered
  BY <1>1, SoughtKey DEF Expressible, Offered
<1>3. b = [main |-> a.main, others |-> a.others, challenge |-> a.challenge,
           webroot |-> a.webroot, code |-> a.code, env |-> env, keyType |-> key,
           ca |-> "", staging |-> FALSE]
  BY <1>1, Zenon DEF Returned
<1>4. /\ b.main = a.main /\ b.others = a.others /\ b.challenge = a.challenge
      /\ b.webroot = a.webroot /\ b.code = a.code /\ b.env = env /\ b.keyType = key
      /\ b.ca = "" /\ b.staging = FALSE
  <2>1. Fields(b, a.main, a.others, a.challenge, a.webroot, a.code, env, key, "", FALSE)
    BY <1>3, FieldsOf, Zenon
  <2> QED
    BY <2>1, Zenon DEF Fields
<1>5. Command(b)
  <2>1. b = [main |-> b.main, others |-> b.others, challenge |-> b.challenge,
             webroot |-> b.webroot, code |-> b.code, env |-> b.env, keyType |-> b.keyType,
             ca |-> b.ca, staging |-> b.staging]
    BY <1>3, <1>4, Zenon
  <2>2. /\ b.main \notin b.others
        /\ b.others \subseteq Domain /\ IsFiniteSet(b.others)
        /\ \A d \in b.others \cup {b.main} : d \in Domain /\ ValidDomain(d) /\ Trim(d) = d
    BY <1>4 DEF Command
  <2>3. /\ b.challenge \in Challenges /\ b.staging \in BOOLEAN
        /\ b.webroot = IF b.challenge = "webroot" THEN "absolute" ELSE ""
        /\ IF b.challenge = "dns" THEN b.code \notin {""} \cup Notes ELSE b.code = "" /\ b.env = ""
    BY <1>4 DEF Command
  <2> QED
    BY <2>1, <2>2, <2>3, Zenon DEF Command
<1>6. Expressible(b)
  BY <1>2, <1>4 DEF Expressible
<1>7. b # Refused
  <2>1. DOMAIN b = {"main", "others", "challenge", "webroot", "code", "env", "keyType",
                    "ca", "staging"}
    BY <1>3
  <2>2. DOMAIN Refused = {"refused"}
    BY DEF Refused
  <2> QED
    BY <2>1, <2>2
<1>8. Sought(b).keyType = key
  <2>1. Sought(b).keyType = IF b.keyType = "" THEN "ec-256" ELSE b.keyType
    BY <1>5, SoughtKey
  <2> QED
    BY <2>1, <1>2, <1>4 DEF Offered
<1>9. Certificate(b) = Certificate(a)
  BY <1>1, <1>4, <1>8, Zenon DEF Certificate
<1> QED
  BY <1>1, <1>4, <1>5, <1>6, <1>7, <1>8, <1>9, Zenon DEF ForTheSame

\* What acme.sh notes of a command is read back as that command.
LEMMA StoredIsFor ==
  ASSUME NEW a, Command(a), NEW dir, NEW c, c = Stored(a, dir)
  PROVE  IsFor(c.main, c.names, Hint(c), a)
<1>1. /\ c.main = a.main /\ c.names = a.others \cup {a.main}
      /\ c.leWebroot = Noted(a)
      /\ c.leKey = IF a.keyType = "" THEN "ec-256" ELSE a.keyType
  BY DEF Stored
<1>2. c.leKey = Sought(a).keyType
  BY <1>1, SoughtKey
<1>3. ASSUME a.challenge # "dns-manual"
      PROVE  /\ Challenge(c.leWebroot) = a.challenge
             /\ (IF Challenge(c.leWebroot) = "webroot" THEN "absolute" ELSE "") = a.webroot
             /\ (IF Challenge(c.leWebroot) = "dns" THEN c.leWebroot ELSE "") = a.code
  <2>1. CASE a.challenge = "webroot"
    BY <1>1, <2>1 DEF Command, Noted, Challenge
  <2>2. CASE a.challenge = "standalone"
    BY <1>1, <2>2 DEF Command, Noted, Challenge
  <2>3. CASE a.challenge = "dns"
    <3>1. a.code \notin {"", "path", "no", "manual"}
      BY <2>3 DEF Command, Notes
    <3>2. c.leWebroot = a.code
      BY <1>1, <2>3 DEF Noted
    <3>3. Challenge(c.leWebroot) = "dns"
      BY <3>1, <3>2 DEF Challenge
    <3> QED
      BY <2>3, <3>2, <3>3 DEF Command
  <2> QED
    BY <1>3, <2>1, <2>2, <2>3 DEF Command, Challenges
<1>4. ASSUME Expressible(a)
      PROVE  Hint(c) = [challenge |-> a.challenge, webroot |-> a.webroot, code |-> a.code,
                        keyType |-> Sought(a).keyType]
  <2>1. a.challenge # "dns-manual"
    BY <1>4 DEF Expressible
  <2> QED
    BY <2>1, <1>2, <1>3, Zenon DEF Hint
<1> QED
  BY <1>1, <1>4, Zenon DEF IsFor

\* The status and the days shown, from what is left of the validity.
LEMMA StatusFacts ==
  ASSUME now \in Nat, cfg.days \in Nat, NEW n \in Nat
  PROVE  LET left == n - now IN
         /\ EvaluateStatus(n) = "expired" <=> left <= 0
         /\ EvaluateStatus(n) = "valid" <=> left >= 2 * (cfg.days + 1)
         /\ left >= 0 => 2 * DaysRemaining(n) \in {left, left - 1}
         /\ left < 0 => 2 * DaysRemaining(n) \in {left, left + 1}
<1>1. PICK left \in Int : left = n - now
  OBVIOUS
<1>2. PICK w \in Nat : w = cfg.days
  OBVIOUS
<1>3. /\ left >= 0 => 2 * Days(left) \in {left, left - 1}
      /\ left < 0 => 2 * Days(left) \in {left, left + 1}
      /\ Days(left) \in Int
  BY DEF Days
<1>4. left > 0 => (Days(left) <= w <=> left < 2 * (w + 1))
  BY DEF Days
<1>5. n <= now <=> left <= 0
  BY <1>1
<1> QED
  BY <1>1, <1>2, <1>3, <1>4, <1>5, SMTT(60) DEF EvaluateStatus, DaysRemaining

-----------------------------------------------------------------------------
(* Configurations.                                                         *)

\* What the derived defaults leave, and what they fill in: d is made from c.
MadeFrom(d, c) ==
  /\ c.port # 0 => d.port = c.port
  /\ d.bind = OrElse(c.bind, "", "loopback")
  /\ d.auth = OrElse(c.auth, "", "none")
  /\ d.days = IF c.days <= 0 THEN 30 ELSE c.days
  /\ d.allow = c.allow /\ d.binary = c.binary /\ d.reloads = c.reloads

LEMMA DerivedFacts ==
  ASSUME NEW c, DOMAIN c = DOMAIN Default
  PROVE  MadeFrom(Derived(c), c)
<1>1. DOMAIN c = {"bind", "port", "auth", "allow", "binary", "home", "keyType", "days", "reloads"}
  BY DEF Default
<1> DEFINE d    == Derived(c)
           port == OrElse(c.port, 0, 8090)
<1>2. /\ d.port = port /\ d.bind = OrElse(c.bind, "", "loopback")
      /\ d.auth = OrElse(c.auth, "", "none") /\ d.days = IF c.days <= 0 THEN 30 ELSE c.days
      /\ d.allow = c.allow /\ d.binary = c.binary /\ d.reloads = c.reloads
  BY <1>1 DEF Derived
<1>3. c.port # 0 => port = c.port
  BY DEF OrElse
<1> HIDE DEF port
<1> QED
  BY <1>2, <1>3 DEF MadeFrom

\* What init writes, as far as it does not depend on the operator.
AsWritten(c) ==
  /\ DOMAIN c = DOMAIN Default
  /\ c.auth = "none" /\ c.days = 30 /\ c.reloads = "argv" /\ c.binary.abs
  /\ c.port \in Int

LEMMA WrittenShape ==
  ASSUME NEW flags \in Answers, NEW interactive, NEW answers \in Answers
  PROVE  AsWritten(Written(flags, interactive, answers))
<1> DEFINE port == Chosen(flags.port, 0, interactive, answers.port, Default.port)
<1>1. port \in Int
  <2>1. flags.port \in Int /\ answers.port \in Int
    BY ReissueAssumption
  <2>2. Default.port = 8090
    BY DEF Default
  <2> QED
    BY <2>1, <2>2 DEF Chosen, OrElse
<1>2. PICK c, bind, allow :
        /\ c = [[Default EXCEPT !.bind = bind, !.port = port] EXCEPT !.allow = allow]
        /\ c = Written(flags, interactive, answers)
  BY DEF Written
<1> HIDE DEF port
<1>3. c.port = port
  BY <1>2 DEF Default
<1>4. AsWritten(c)
  <2>1. /\ DOMAIN c = DOMAIN Default
        /\ c.auth = "none" /\ c.days = 30 /\ c.reloads = "argv" /\ c.binary.abs
    BY <1>2 DEF Default, Path
  <2> QED
    BY <2>1, <1>1, <1>3 DEF AsWritten
<1> QED
  BY <1>2, <1>4, Zenon

\* With a port in range it passes the checks but for the gate, and the gate unless
\* the address is open without the opt-in.
LEMMA OnlyTheGate ==
  ASSUME NEW c, NEW d, AsWritten(c), PortInRange(c), MadeFrom(d, c)
  PROVE  /\ Gate(d) => Validate(d)
         /\ Gate(d) \/ (IsOpenBind(c) /\ ~c.allow)
<1>1. PortInRange(d)
  <2>1. c.port # 0
    BY SMTT(30) DEF PortInRange
  <2>2. d.port = c.port
    BY <2>1 DEF MadeFrom
  <2> QED
    BY <2>2 DEF PortInRange
<1>2. d.auth = "none"
  BY DEF AsWritten, MadeFrom, OrElse
<1>3. d.binary.abs /\ d.reloads = "argv"
  BY DEF AsWritten, MadeFrom
<1>4. Gate(d) => Validate(d)
  BY <1>1, <1>2, <1>3 DEF Validate
<1>5. IsOpenBind(d) => IsOpenBind(c)
  BY DEF MadeFrom, IsOpenBind, OrElse
<1>6. d.allow = c.allow
  BY DEF MadeFrom
<1>7. Gate(d) \/ (IsOpenBind(c) /\ ~c.allow)
  BY <1>5, <1>6, Zenon DEF Gate
<1> QED
  BY <1>4, <1>7

\* What init writes is accepted at the start unless it opens the address without
\* the opt-in.
LEMMA WrittenStarts ==
  ASSUME NEW c, AsWritten(c), InitAccepts(c)
  PROVE  Loads(c) \/ (IsOpenBind(c) /\ ~c.allow)
<1>1. MadeFrom(Derived(c), c)
  BY DerivedFacts DEF AsWritten
<1>2. PortInRange(c)
  BY DEF InitAccepts
<1>3. /\ Gate(Derived(c)) => Validate(Derived(c))
      /\ Gate(Derived(c)) \/ (IsOpenBind(c) /\ ~c.allow)
  BY <1>1, <1>2, OnlyTheGate
<1> QED
  BY <1>3, Zenon DEF Loads

-----------------------------------------------------------------------------
(* The invariant.                                                          *)

\* No providers.
LEMMA EmptyList == ProviderList(<<>>)
<1>1. <<>> \in Seq([id : STRING, code : STRING \ ({""} \cup Notes), env : STRING])
  OBVIOUS
<1>2. DOMAIN <<>> = {}
  OBVIOUS
<1> QED
  BY <1>1, <1>2 DEF ProviderList

LEMMA InitRInv == Init => RInv
  BY EmptyList DEF Init, RInv, ConfigInv, CertInv, StartGate, StatusIsRight

\* Steps before the server runs, when there is no certificate yet.
LEMMA StepInit ==
  ASSUME RInv, NEW flags \in Answers, NEW interactive \in BOOLEAN, NEW answers \in Answers,
         CmdInit(flags, interactive, answers)
  PROVE  RInv'
<1> DEFINE c == Written(flags, interactive, answers)
<1>1. AsWritten(c)
  BY WrittenShape
<1>2. /\ InitAccepts(c)
      /\ file' = c /\ fromInit' = TRUE /\ cfg = Stopped
      /\ UNCHANGED <<cfg, providers, now, cert, entry, asked, again, blind, purge>>
  BY DEF CmdInit
<1> HIDE DEF c
<1>3. Loads(c) \/ (IsOpenBind(c) /\ ~c.allow)
  BY <1>1, <1>2, WrittenStarts
<1>4. DOMAIN c = DOMAIN Default /\ c.days \in Int
  BY <1>1 DEF AsWritten
<1>5. ConfigInv'
  BY <1>2, <1>4, Zenon DEF RInv, ConfigInv
<1>6. StartGate'
  BY <1>2, <1>3, Zenon DEF RInv, StartGate
<1>7. CertInv' /\ StatusIsRight'
  BY <1>2 DEF RInv, CertInv, StatusIsRight
<1> QED
  BY <1>5, <1>6, <1>7 DEF RInv

LEMMA StepEdit ==
  ASSUME RInv, NEW c \in Files, Edit(c)
  PROVE  RInv'
<1>1. /\ file' = c /\ fromInit' = FALSE /\ cfg = Stopped
      /\ UNCHANGED <<cfg, providers, now, cert, entry, asked, again, blind, purge>>
  BY DEF Edit
<1>2. DOMAIN c = DOMAIN Default /\ c.days \in Int
  BY ReissueAssumption
<1>3. ConfigInv'
  BY <1>1, <1>2 DEF RInv, ConfigInv
<1>4. StartGate'
  BY <1>1 DEF StartGate
<1>5. CertInv' /\ StatusIsRight'
  BY <1>1 DEF RInv, CertInv, StatusIsRight
<1> QED
  BY <1>3, <1>4, <1>5 DEF RInv

\* The server starts on what Validate accepts; there is no certificate yet.
LEMMA StepServe ==
  ASSUME RInv, Serve
  PROVE  RInv'
<1>1. /\ cfg = Stopped /\ file # None /\ Validate(Derived(file)) /\ cfg' = Derived(file)
      /\ UNCHANGED <<file, fromInit, providers, now, cert, entry, asked, again, blind, purge>>
  BY DEF Serve, Loads
<1>2. DOMAIN file = DOMAIN Default /\ file.days \in Int
  BY <1>1 DEF RInv, ConfigInv
<1>3. cfg'.days \in Nat
  <2>1. MadeFrom(cfg', file)
    BY <1>1, <1>2, DerivedFacts
  <2>2. ASSUME NEW c, NEW f, MadeFrom(c, f), f.days \in Int PROVE c.days \in Nat
    <3>1. c.days = IF f.days <= 0 THEN 30 ELSE f.days
      BY <2>2 DEF MadeFrom
    <3>2. PICK n : n = f.days
      OBVIOUS
    <3>3. n \in Int
      BY <2>2, <3>2, Zenon
    <3>4. c.days = IF n <= 0 THEN 30 ELSE n
      BY <3>1, <3>2, Zenon
    <3> QED
      BY <3>3, <3>4
  <2> QED
    BY <1>2, <2>1, <2>2
<1>4. Gate(cfg')
  BY <1>1 DEF Validate
<1>5. cert = None /\ entry = None
  BY <1>1 DEF RInv, ConfigInv, CertInv
<1>6. ConfigInv'
  BY <1>1, <1>2, <1>3, <1>4, <1>5, Zenon DEF RInv, ConfigInv
<1>7. StartGate'
  BY <1>1, <1>4 DEF RInv, StartGate, Gate
<1>8. CertInv' /\ StatusIsRight'
  BY <1>1, <1>5 DEF RInv, CertInv, StatusIsRight
<1> QED
  BY <1>6, <1>7, <1>8 DEF RInv

\* Where the configuration stays and there is a server.
LEMMA Serving ==
  ASSUME RInv, cfg # Stopped, UNCHANGED <<file, fromInit, cfg>>, ProviderList(providers')
  PROVE  ConfigInv' /\ StartGate'
  BY DEF RInv, ConfigInv, StartGate

LEMMA StepProviders ==
  ASSUME RInv, NEW list \in Providers, KeepProviders(list)
  PROVE  RInv'
<1>1. /\ cfg # Stopped /\ providers' = list
      /\ UNCHANGED <<file, fromInit, cfg, now, cert, entry, asked, again, blind, purge>>
  BY DEF KeepProviders
<1>2. ProviderList(list)
  BY ReissueAssumption DEF ProviderList
<1>3. ConfigInv' /\ StartGate'
  BY <1>1, <1>2, Serving
<1>4. CertInv' /\ StatusIsRight'
  BY <1>1 DEF RInv, CertInv, Hint, StatusIsRight
<1> QED
  BY <1>3, <1>4 DEF RInv

\* The moment a certificate ends.
LEMMA EndIsTime ==
  ASSUME now \in Nat
  PROVE  now + Lifetime \in Nat
<1>1. Lifetime \in Nat
  BY ReissueAssumption, Zenon
<1> QED
  BY <1>1

LEMMA StepIssue ==
  ASSUME RInv, NEW body \in Requests, NEW dir \in DirNames, IssueCert(body, dir)
  PROVE  RInv'
<1>1. PICK a : /\ a = CommandFor(body) /\ a # Refused
               /\ cert' = Stored(a, dir) /\ asked' = a /\ again' = None /\ blind' = FALSE
  BY DEF IssueCert
<1>2. /\ cfg # Stopped /\ cert = None
      /\ UNCHANGED <<file, fromInit, cfg, providers, now, entry, purge>>
  BY DEF IssueCert
<1>3. Command(a) /\ ProviderList(providers')
  BY <1>1, <1>2, CommandIsCommand DEF RInv, ConfigInv
<1>4. PICK c : c = Stored(a, dir)
  OBVIOUS
<1>5. IsFor(c.main, c.names, Hint(c), a)
  BY <1>3, <1>4, StoredIsFor
<1>6. c.notAfter \in Nat
  <2>1. c.notAfter = now + Lifetime /\ now \in Nat
    BY <1>4 DEF Stored, RInv, CertInv
  <2> QED
    BY <2>1, EndIsTime
<1>7. ConfigInv' /\ StartGate'
  BY <1>2, <1>3, Serving
<1>8. CertInv'
  BY <1>1, <1>2, <1>3, <1>4, <1>5, <1>6 DEF RInv, CertInv
<1>9. StatusIsRight'
  BY <1>1, <1>2 DEF RInv, CertInv, StatusIsRight
<1> QED
  BY <1>7, <1>8, <1>9 DEF RInv

LEMMA StepScan ==
  ASSUME RInv, Scan
  PROVE  RInv'
<1>1. /\ cfg # Stopped /\ cert # None
      /\ UNCHANGED <<file, fromInit, cfg, providers, now, cert, asked, again, blind, purge>>
  BY DEF Scan
<1> DEFINE Read(hint) ==
         [main |-> cert.main, sans |-> cert.names, hint |-> hint,
          keyType |-> KeyTypeOf(cert.leKey),
          status |-> EvaluateStatus(cert.notAfter),
          days |-> DaysRemaining(cert.notAfter),
          at |-> now, notAfter |-> cert.notAfter]
<1>2. PICK hint \in {Hint(cert), None} : entry' = Read(hint)
  BY DEF Scan
<1> DEFINE e == Read(hint)
<1>3. now \in Nat /\ cert.notAfter \in Nat /\ cfg.days \in Nat
  BY <1>1 DEF RInv, CertInv, ConfigInv
<1>4. /\ e.main = cert.main /\ e.sans = cert.names /\ e.hint = hint
      /\ e.status = EvaluateStatus(cert.notAfter) /\ e.days = DaysRemaining(cert.notAfter)
      /\ e.at = now /\ e.notAfter = cert.notAfter
  BY <1>2
<1>5. StatusIsRight'
  <2>1. LET left == e.notAfter - e.at IN
        /\ e.status = "expired" <=> left <= 0
        /\ e.status = "valid" <=> left >= 2 * (cfg.days + 1)
        /\ left >= 0 => 2 * e.days \in {left, left - 1}
        /\ left < 0 => 2 * e.days \in {left, left + 1}
    BY <1>3, <1>4, StatusFacts
  <2> QED
    BY <1>1, <1>2, <2>1, Zenon DEF StatusIsRight
<1>6. CertInv'
  <2>1. ~blind /\ e.hint # None => IsFor(e.main, e.sans, e.hint, asked)
    BY <1>1, <1>2, <1>4, Zenon DEF RInv, CertInv
  <2> QED
    BY <1>1, <1>2, <2>1, Zenon DEF RInv, CertInv, Hint
<1>7. ConfigInv' /\ StartGate'
  BY <1>1, Serving DEF RInv, ConfigInv
<1> QED
  BY <1>5, <1>6, <1>7 DEF RInv

LEMMA StepTick ==
  ASSUME RInv, Tick
  PROVE  RInv'
<1>1. /\ now' = now + 1 /\ cert # None
      /\ UNCHANGED <<file, fromInit, cfg, providers, cert, entry, asked, again, blind, purge>>
  BY DEF Tick
<1>2. cfg # Stopped /\ ProviderList(providers')
  BY <1>1 DEF RInv, ConfigInv
<1>3. ConfigInv' /\ StartGate'
  BY <1>1, <1>2, Serving
<1>4. CertInv'
  <2>1. now \in Nat => now' \in Nat
    BY <1>1
  <2> QED
    BY <1>1, <2>1, Zenon DEF RInv, CertInv, Hint
<1>5. StatusIsRight'
  BY <1>1 DEF RInv, StatusIsRight
<1> QED
  BY <1>3, <1>4, <1>5 DEF RInv

\* The command of a re-issue from an entry that names what was asked for.
LEMMA ReissuedCommand ==
  ASSUME RInv, ReissueCert, ~blind', Expressible(asked)
  PROVE  /\ Command(asked)
         /\ \E env : /\ again' = Returned(asked, env)
                     /\ asked.challenge # "dns" => env = ""
                     /\ OnlyCredentials(asked) => env = asked.env
<1>1. /\ again' = CommandFor(Prefilled(entry)) /\ entry # None /\ cert # None
      /\ ~blind /\ entry.hint # None
  BY DEF ReissueCert
<1>2. /\ ProviderList(providers) /\ Command(asked)
      /\ IsFor(entry.main, entry.sans, entry.hint, asked)
  BY <1>1 DEF RInv, ConfigInv, CertInv
<1> QED
  BY <1>1, <1>2, RoundTrip

\* What a re-issue leaves is again a certificate for what was asked.
LEMMA StepReissue ==
  ASSUME RInv, ReissueCert
  PROVE  RInv'
<1>1. PICK a : again' = a /\ cert' = IF a = Refused THEN cert ELSE Stored(a, cert.dir)
  BY DEF ReissueCert
<1>2. /\ entry # None /\ cert # None
      /\ blind' = (blind \/ entry.hint = None)
      /\ UNCHANGED <<file, fromInit, cfg, providers, now, entry, asked, purge>>
  BY DEF ReissueCert
<1>3. cfg # Stopped /\ now \in Nat /\ Command(asked) /\ ProviderList(providers')
  BY <1>2 DEF RInv, ConfigInv, CertInv
<1>4. PICK c : c = cert'
  OBVIOUS
<1>5. c.notAfter \in Nat
  <2>1. CASE a = Refused
    BY <1>1, <1>2, <1>4, <2>1 DEF RInv, CertInv
  <2>2. CASE a # Refused
    <3>1. c.notAfter = now + Lifetime
      BY <1>1, <1>4, <2>2 DEF Stored
    <3> QED
      BY <1>3, <3>1, EndIsTime
  <2> QED
    BY <2>1, <2>2
<1>6. ASSUME ~blind' PROVE IsFor(c.main, c.names, Hint(c), asked)
  <2> SUFFICES ASSUME Expressible(asked) PROVE IsFor(c.main, c.names, Hint(c), asked)
    BY DEF IsFor
  <2>1. PICK env : a = Returned(asked, env) /\ (asked.challenge # "dns" => env = "")
    BY <1>1, <1>6, ReissuedCommand
  <2>2. ForTheSame(a, asked)
    BY <1>3, <2>1, ReturnedFacts, Zenon
  <2>3. c = Stored(a, cert.dir)
    BY <1>1, <1>4, <2>2, Zenon DEF ForTheSame
  <2>4. IsFor(c.main, c.names, Hint(c), a)
    BY <2>2, <2>3, StoredIsFor, Zenon DEF ForTheSame
  <2> QED
    BY <2>2, <2>4, Zenon DEF IsFor, ForTheSame
<1>7. cert' # None
  <2>1. CASE a = Refused
    BY <1>1, <1>2, <2>1
  <2>2. CASE a # Refused
    BY <1>1, <2>2 DEF Stored, None
  <2> QED
    BY <2>1, <2>2
<1>8. CertInv'
  BY <1>2, <1>3, <1>4, <1>5, <1>6, <1>7 DEF RInv, CertInv, Hint
<1>9. StatusIsRight' /\ ConfigInv' /\ StartGate'
  BY <1>2, <1>3, Serving DEF RInv, StatusIsRight
<1> QED
  BY <1>8, <1>9 DEF RInv

LEMMA StepDelete ==
  ASSUME RInv, DeleteCert
  PROVE  RInv'
<1>1. /\ UNCHANGED <<cert, entry>> \/ (cert' = None /\ entry' = None)
      /\ UNCHANGED <<file, fromInit, cfg, providers, now, asked, again, blind>>
      /\ cert # None
  BY DEF DeleteCert
<1>2. cfg # Stopped /\ ProviderList(providers')
  BY <1>1 DEF RInv, ConfigInv
<1>3. ConfigInv' /\ StartGate'
  BY <1>1, <1>2, Serving
<1>4. CertInv' /\ StatusIsRight'
  BY <1>1 DEF RInv, CertInv, Hint, StatusIsRight
<1> QED
  BY <1>3, <1>4 DEF RInv

LEMMA NextRInv == RInv /\ [Next]_vars => RInv'
<1> SUFFICES ASSUME RInv, [Next]_vars PROVE RInv'
  OBVIOUS
<1>1. CASE UNCHANGED vars
  BY <1>1 DEF vars, RInv, ConfigInv, CertInv, Hint, StartGate, StatusIsRight
<1>2. CASE \E flags, answers \in Answers, interactive \in BOOLEAN :
             CmdInit(flags, interactive, answers)
  BY <1>2, StepInit
<1>3. CASE \E c \in Files : Edit(c)
  BY <1>3, StepEdit
<1>4. CASE \E body \in Requests, dir \in DirNames : IssueCert(body, dir)
  BY <1>4, StepIssue
<1>6. CASE \E list \in Providers : KeepProviders(list)
  BY <1>6, StepProviders
<1>5. CASE Serve \/ Scan \/ Tick \/ ReissueCert \/ DeleteCert
  BY <1>5, StepServe, StepScan, StepTick, StepReissue, StepDelete
<1> QED
  BY <1>1, <1>2, <1>3, <1>4, <1>5, <1>6 DEF Next

-----------------------------------------------------------------------------
(* The theorems.                                                           *)

\* The inductive invariant: configurations keep their shape, and the certificate and
\* the scanner's entry name the command that was asked for.
THEOREM Invariance == Spec => []RInv
  BY InitRInv, NextRInv, PTL DEF Spec

\* No server runs open to the network without authentication and without the opt-in,
\* and what init writes starts unless the operator left the opt-in out
\* (validate.go:23-28).
THEOREM Gated == Spec => []StartGate
<1>1. RInv => StartGate
  BY DEF RInv
<1> QED
  BY <1>1, Invariance, PTL

\* The status and the days shown agree with the validity at the scan, on every
\* boundary (cert.go:77-91).
THEOREM StatusRight == Spec => []StatusIsRight
<1>1. RInv => StatusIsRight
  BY DEF RInv
<1> QED
  BY <1>1, Invariance, PTL

\* A re-issue that is submitted as the wizard was filled asks for the certificate that
\* was issued, however often it is done and whatever became of the providers, as long as
\* no .conf was unreadable; and for just the same if the request named no CA, no staging
\* and the only credentials with its code (scanner.go:106-144, pages2.js:127-170).
THEOREM KeepsRequest == Spec => ReissueKeepsRequest
<1>1. RInv /\ [Next]_vars => [ReissueCert /\ ~blind' /\ Expressible(asked) =>
        /\ again' # Refused
        /\ Certificate(again') = Certificate(asked)
        /\ asked.ca = "" /\ ~asked.staging /\ OnlyCredentials(asked)
             => again' = Sought(asked)]_vars
  <2> SUFFICES ASSUME RInv, ReissueCert, ~blind', Expressible(asked)
               PROVE  /\ again' # Refused
                      /\ Certificate(again') = Certificate(asked)
                      /\ asked.ca = "" /\ ~asked.staging /\ OnlyCredentials(asked)
                           => again' = Sought(asked)
    OBVIOUS
  <2>1. Command(asked)
    BY ReissuedCommand
  <2>2. PICK env : /\ again' = Returned(asked, env)
                   /\ asked.challenge # "dns" => env = ""
                   /\ OnlyCredentials(asked) => env = asked.env
    BY ReissuedCommand
  <2>3. again' # Refused /\ Certificate(again') = Certificate(asked)
    BY <2>1, <2>2, ReturnedFacts, Zenon DEF ForTheSame
  <2>4. ASSUME asked.ca = "", ~asked.staging, OnlyCredentials(asked)
        PROVE  again' = Sought(asked)
    <3>1. env = asked.env /\ asked.staging = FALSE
      BY <2>1, <2>2, <2>4 DEF Command
    <3>2. Sought(asked) =
            [main |-> asked.main, others |-> asked.others, challenge |-> asked.challenge,
             webroot |-> asked.webroot, code |-> asked.code, env |-> asked.env,
             keyType |-> Sought(asked).keyType, ca |-> asked.ca, staging |-> asked.staging]
      BY <2>1, SoughtKey, Zenon
    <3> QED
      BY <2>2, <2>4, <3>1, <3>2, Zenon DEF Returned
  <2> QED
    BY <2>3, <2>4
<1> QED
  BY <1>1, Invariance, PTL DEF Spec, ReissueKeepsRequest

-----------------------------------------------------------------------------
(* Paths.                                                                  *)

\* The recursion is well defined.
LEMMA DescentDef ==
  ASSUME NEW p, Len(p.parts) \in Nat
  PROVE  Descent(p) = [n \in 0..Len(p.parts) |->
           IF n = 0 THEN <<>> ELSE Descend(p.abs, Descent(p)[n - 1], p.parts[n])]
<1> DEFINE Def(f, k) == [n \in 0..k |-> IF n = 0 THEN <<>> ELSE Descend(p.abs, f[n - 1], p.parts[n])]
           S == {k \in Nat : \E f : f = Def(f, k)}
<1>1. 0 \in S
  <2> DEFINE f == [n \in 0..0 |-> <<>>]
  <2>1. f = Def(f, 0)
    OBVIOUS
  <2> QED
    BY <2>1
<1>2. ASSUME NEW k \in S PROVE k + 1 \in S
  <2>1. PICK f : f = Def(f, k)
    OBVIOUS
  <2> DEFINE g == [n \in 0..(k + 1) |-> IF n <= k THEN f[n] ELSE Descend(p.abs, f[k], p.parts[k + 1])]
  <2>2. \A n \in 0..k : f[n] = IF n = 0 THEN <<>> ELSE Descend(p.abs, f[n - 1], p.parts[n])
    BY <2>1
  <2>3. ASSUME NEW n \in 0..(k + 1)
        PROVE  g[n] = IF n = 0 THEN <<>> ELSE Descend(p.abs, g[n - 1], p.parts[n])
    <3>1. CASE n = 0
      BY <2>2, <3>1
    <3>2. CASE n \in 1..k
      <4>1. g[n] = f[n] /\ g[n - 1] = f[n - 1]
        BY <3>2
      <4> QED
        BY <2>2, <3>2, <4>1
    <3>3. CASE n = k + 1
      <4>1. g[n] = Descend(p.abs, f[k], p.parts[n]) /\ g[n - 1] = f[k]
        BY <3>3
      <4> QED
        BY <3>3, <4>1
    <3> QED
      BY <3>1, <3>2, <3>3
  <2>4. g = Def(g, k + 1)
    <3> HIDE DEF g
    <3>1. g = [n \in 0..(k + 1) |-> g[n]]
      BY DEF g
    <3> QED
      BY <2>3, <3>1, Zenon
  <2>5. \E h : h = Def(h, k + 1)
    <3> HIDE DEF g
    <3> QED
      BY <2>4
  <2> HIDE DEF g
  <2>6. k + 1 \in Nat
    OBVIOUS
  <2> HIDE DEF Def
  <2> QED
    BY <2>5, <2>6
<1>3. Len(p.parts) \in S
  <2> HIDE DEF S
  <2>1. S \subseteq Nat
    BY DEF S
  <2> QED
    BY <1>1, <1>2, <2>1, Induct
<1>4. \E f : f = Def(f, Len(p.parts))
  BY <1>3
<1> QED
  BY <1>4, Zenon DEF Descent

LEMMA DescentSteps ==
  ASSUME NEW p, Len(p.parts) \in Nat
  PROVE  /\ Descent(p)[0] = <<>>
         /\ \A n \in 0..Len(p.parts) : n + 1 \in 0..Len(p.parts) =>
              Descent(p)[n + 1] = Descend(p.abs, Descent(p)[n], p.parts[n + 1])
<1> DEFINE d == Descent(p)
           N == Len(p.parts)
<1>1. d = [n \in 0..N |-> IF n = 0 THEN <<>> ELSE Descend(p.abs, d[n - 1], p.parts[n])]
  BY DescentDef
<1> HIDE DEF d, N
<1>2. N \in Nat
  BY DEF N
<1>3. d[0] = <<>>
  BY <1>1, <1>2
<1>4. ASSUME NEW n \in 0..N, n + 1 \in 0..N
      PROVE  d[n + 1] = Descend(p.abs, d[n], p.parts[n + 1])
  <2>1. n + 1 # 0 /\ (n + 1) - 1 = n
    BY <1>2
  <2> QED
    BY <1>1, <1>4, <2>1
<1> QED
  BY <1>3, <1>4 DEF d, N

\* What Clean leaves: names, and of a path that is not absolute leading "..".
Tidy(abs, parts) ==
  /\ parts \in Seq(Component)
  /\ \A i \in 1..Len(parts) : parts[i] \notin Skipped
  /\ abs => \A i \in 1..Len(parts) : parts[i] # Up
  /\ \A i, j \in 1..Len(parts) : j < i /\ parts[i] = Up => parts[j] = Up

LEMMA AppendTidies ==
  ASSUME NEW abs \in BOOLEAN, NEW parts, NEW c \in Component, Tidy(abs, parts), c \notin Skipped,
         c = Up => ~abs /\ (parts = <<>> \/ Last(parts) = Up)
  PROVE  Tidy(abs, Append(parts, c))
<1>1. parts \in Seq(Component) /\ Len(parts) \in Nat
  BY DEF Tidy
<1>2. PICK r : r = Append(parts, c)
  OBVIOUS
<1>3. /\ r \in Seq(Component) /\ Len(r) = Len(parts) + 1
      /\ \A i \in 1..Len(r) : r[i] = IF i = Len(r) THEN c ELSE parts[i]
  BY <1>1, <1>2
<1>4. ASSUME c = Up, NEW i \in 1..Len(parts) PROVE parts[i] = Up
  <2>1. parts # <<>>
    BY <1>1
  <2>2. parts[Len(parts)] = Up
    BY <1>4, <2>1 DEF Last
  <2>3. i < Len(parts) \/ i = Len(parts)
    BY <1>1
  <2> QED
    BY <1>1, <2>2, <2>3 DEF Tidy
<1>5. \A i \in 1..Len(r) : r[i] \notin Skipped
  BY <1>1, <1>3 DEF Tidy
<1>6. abs => \A i \in 1..Len(r) : r[i] # Up
  BY <1>1, <1>3 DEF Tidy
<1>7. ASSUME NEW i \in 1..Len(r), NEW j \in 1..Len(r), j < i, r[i] = Up
      PROVE  r[j] = Up
  <2>1. j \in 1..Len(parts) /\ r[j] = parts[j]
    BY <1>1, <1>3, <1>7
  <2>2. CASE i = Len(r)
    BY <1>3, <1>4, <1>7, <2>1, <2>2
  <2>3. CASE i \in 1..Len(parts)
    BY <1>1, <1>3, <1>7, <2>1, <2>3 DEF Tidy
  <2> QED
    BY <1>1, <1>3, <2>2, <2>3
<1> QED
  BY <1>2, <1>3, <1>5, <1>6, <1>7 DEF Tidy

LEMMA FrontTidies ==
  ASSUME NEW abs \in BOOLEAN, NEW parts, Tidy(abs, parts), parts # <<>>
  PROVE  Tidy(abs, Front(parts))
<1>1. parts \in Seq(Component) /\ Len(parts) \in Nat \ {0}
  BY DEF Tidy
<1>2. PICK r : r = Front(parts)
  OBVIOUS
<1>3. /\ r \in Seq(Component) /\ Len(r) = Len(parts) - 1
      /\ \A i \in 1..Len(r) : r[i] = parts[i]
  <2>1. r = SubSeq(parts, 1, Len(parts) - 1)
    BY <1>2 DEF Front
  <2>2. \A m \in Nat : m <= Len(parts) =>
          /\ SubSeq(parts, 1, m) \in Seq(Component) /\ Len(SubSeq(parts, 1, m)) = m
          /\ \A i \in 1..m : SubSeq(parts, 1, m)[i] = parts[i]
    BY <1>1
  <2>3. Len(parts) - 1 \in Nat /\ Len(parts) - 1 <= Len(parts)
    BY <1>1
  <2> QED
    BY <2>1, <2>2, <2>3
<1>4. Len(r) \in Nat /\ \A i \in 1..Len(r) : i \in 1..Len(parts)
  BY <1>1, <1>3
<1> QED
  BY <1>2, <1>3, <1>4 DEF Tidy

\* Each component leaves a tidy path tidy.
LEMMA DescendTidies ==
  ASSUME NEW abs \in BOOLEAN, NEW parts, NEW c \in Component, Tidy(abs, parts)
  PROVE  Tidy(abs, Descend(abs, parts, c))
<1>1. CASE Descend(abs, parts, c) = parts
  BY <1>1, Zenon
<1>2. CASE parts # <<>> /\ Descend(abs, parts, c) = Front(parts)
  BY <1>2, FrontTidies, Zenon
<1>3. CASE /\ Descend(abs, parts, c) = Append(parts, c) /\ c \notin Skipped
           /\ c = Up => ~abs /\ (parts = <<>> \/ Last(parts) = Up)
  BY <1>3, AppendTidies, Zenon
<1> QED
  BY <1>1, <1>2, <1>3 DEF Descend

LEMMA DescentTidy ==
  ASSUME NEW p \in Paths, NEW n \in 0..Len(p.parts)
  PROVE  Tidy(p.abs, Descent(p)[n])
<1> DEFINE N == Len(p.parts)
           S == {k \in Nat : k \in 0..N => Tidy(p.abs, Descent(p)[k])}
<1>1. p.parts \in Seq(Component) /\ N \in Nat /\ p.abs \in BOOLEAN
  BY DEF Paths
<1>2. 0 \in S
  <2>1. Tidy(p.abs, <<>>)
    BY DEF Tidy
  <2> QED
    BY <1>1, <2>1, DescentSteps
<1>3. ASSUME NEW k \in S PROVE k + 1 \in S
  <2> SUFFICES ASSUME k + 1 \in 0..N PROVE Tidy(p.abs, Descent(p)[k + 1])
    OBVIOUS
  <2>1. k \in 0..N /\ p.parts[k + 1] \in Component /\ Tidy(p.abs, Descent(p)[k])
    BY <1>1
  <2>2. Descent(p)[k + 1] = Descend(p.abs, Descent(p)[k], p.parts[k + 1])
    BY <1>1, <2>1, DescentSteps
  <2> QED
    BY <1>1, <2>1, <2>2, DescendTidies
<1>4. S = Nat
  <2> HIDE DEF S
  <2>1. S \subseteq Nat
    BY DEF S
  <2> QED
    BY <1>2, <1>3, <2>1, Induct
<1> QED
  BY <1>1, <1>4

\* Clean leaves a path that is tidy alone.
LEMMA TidyStays ==
  ASSUME NEW p \in Paths, Tidy(p.abs, p.parts), NEW n \in 0..Len(p.parts)
  PROVE  Descent(p)[n] = SubSeq(p.parts, 1, n)
<1> DEFINE N == Len(p.parts)
           S == {k \in Nat : k \in 0..N => Descent(p)[k] = SubSeq(p.parts, 1, k)}
<1>1. p.parts \in Seq(Component) /\ N \in Nat /\ p.abs \in BOOLEAN
  BY DEF Paths
<1>2. 0 \in S
  <2>1. SubSeq(p.parts, 1, 0) = <<>>
    BY <1>1
  <2> QED
    BY <1>1, <2>1, DescentSteps
<1>3. ASSUME NEW k \in S PROVE k + 1 \in S
  <2> SUFFICES ASSUME k + 1 \in 0..N PROVE Descent(p)[k + 1] = SubSeq(p.parts, 1, k + 1)
    OBVIOUS
  <2> DEFINE s == SubSeq(p.parts, 1, k)
             c == p.parts[k + 1]
  <2>1. k \in 0..N /\ Descent(p)[k] = s
    BY <1>1
  <2>2. /\ s \in Seq(Component) /\ Len(s) = k
        /\ \A i \in 1..k : s[i] = p.parts[i]
        /\ Append(s, c) = SubSeq(p.parts, 1, k + 1)
    BY <1>1
  <2>3. Descend(p.abs, s, c) = Append(s, c)
    <3>1. c \notin Skipped
      BY <1>1 DEF Tidy
    <3>2. CASE c = Up
      <4>0. k + 1 \in 1..N /\ \A i \in 1..k : i \in 1..N /\ i < k + 1
        BY <1>1, <2>1
      <4>1. ~p.abs /\ \A i \in 1..k : p.parts[i] = Up
        BY <1>1, <3>2, <4>0 DEF Tidy
      <4>2. s = <<>> \/ Last(s) = Up
        <5> HIDE DEF s
        <5>1. k = 0 => s = <<>>
          BY <2>2
        <5>2. k > 0 => s[Len(s)] = Up
          BY <2>2, <4>1
        <5> QED
          BY <2>1, <5>1, <5>2 DEF Last
      <4> HIDE DEF s
      <4> QED
        BY <3>1, <3>2, <4>1, <4>2 DEF Descend
    <3> QED
      BY <3>1, <3>2, Zenon DEF Descend
  <2>4. Descent(p)[k + 1] = Descend(p.abs, s, c)
    BY <1>1, <2>1, DescentSteps
  <2> QED
    BY <2>2, <2>3, <2>4
<1>4. S = Nat
  <2> HIDE DEF S
  <2>1. S \subseteq Nat
    BY DEF S
  <2> QED
    BY <1>2, <1>3, <2>1, Induct
<1> QED
  BY <1>1, <1>4

LEMMA CleanTidies ==
  ASSUME NEW p \in Paths
  PROVE  /\ Clean(p) \in Paths /\ Clean(p).abs = p.abs
         /\ Tidy(p.abs, Clean(p).parts)
<1>1. p.parts \in Seq(Component) /\ Len(p.parts) \in 0..Len(p.parts) /\ p.abs \in BOOLEAN
  BY DEF Paths
<1>2. Tidy(p.abs, Descent(p)[Len(p.parts)])
  BY <1>1, DescentTidy
<1>3. Clean(p).abs = p.abs /\ Clean(p).parts = Descent(p)[Len(p.parts)]
  BY DEF Clean, Path
<1>4. Descent(p)[Len(p.parts)] \in Seq(Component)
  BY <1>2 DEF Tidy
<1> QED
  BY <1>1, <1>2, <1>3, <1>4 DEF Clean, Path, Paths

LEMMA CleanOfTidy ==
  ASSUME NEW p \in Paths, Tidy(p.abs, p.parts)
  PROVE  Clean(p) = p
<1>1. p.parts \in Seq(Component) /\ p = Path(p.abs, p.parts)
  BY DEF Paths, Path
<1>2. Len(p.parts) \in 0..Len(p.parts) /\ SubSeq(p.parts, 1, Len(p.parts)) = p.parts
  BY <1>1
<1>3. Descent(p)[Len(p.parts)] = p.parts
  BY <1>2, TidyStays
<1> QED
  BY <1>1, <1>3 DEF Clean

\* A path that is clean stays as it is, whatever it was made from: what the check
\* cleans a second time is what the scanner has joined (certs.go:264-274,
\* scanner.go:46).
THEOREM CleanTwice ==
  ASSUME NEW p \in Paths
  PROVE  Clean(Clean(p)) = Clean(p)
BY CleanTidies, CleanOfTidy

\* Where two paths agree at the beginning, the way is the same.
LEMMA SameDescent ==
  ASSUME NEW p, NEW q, Len(p.parts) \in Nat, Len(q.parts) \in Nat, q.abs = p.abs,
         NEW n \in 0..Len(p.parts), n <= Len(q.parts), \A i \in 1..n : q.parts[i] = p.parts[i]
  PROVE  Descent(q)[n] = Descent(p)[n]
<1> DEFINE S == {k \in Nat : k \in 0..n => Descent(q)[k] = Descent(p)[k]}
<1>1. n \in Nat
  OBVIOUS
<1>2. 0 \in S
  BY DescentSteps
<1>3. ASSUME NEW k \in S PROVE k + 1 \in S
  <2> SUFFICES ASSUME k + 1 \in 0..n PROVE Descent(q)[k + 1] = Descent(p)[k + 1]
    OBVIOUS
  <2>1. /\ k \in 0..n /\ k + 1 \in 1..n
        /\ k \in 0..Len(p.parts) /\ k + 1 \in 0..Len(p.parts)
        /\ k \in 0..Len(q.parts) /\ k + 1 \in 0..Len(q.parts)
    BY <1>1
  <2>2. Descent(q)[k] = Descent(p)[k] /\ q.parts[k + 1] = p.parts[k + 1]
    BY <2>1
  <2>3. Descent(p)[k + 1] = Descend(p.abs, Descent(p)[k], p.parts[k + 1])
    BY <2>1, DescentSteps
  <2>4. Descent(q)[k + 1] = Descend(q.abs, Descent(q)[k], q.parts[k + 1])
    BY <2>1, DescentSteps
  <2> QED
    BY <2>2, <2>3, <2>4
<1>4. S = Nat
  <2> HIDE DEF S
  <2>1. S \subseteq Nat
    BY DEF S
  <2> QED
    BY <1>2, <1>3, <2>1, Induct
<1> QED
  BY <1>1, <1>4

LEMMA CleanOfAppend ==
  ASSUME NEW p \in Paths, NEW c \in Component
  PROVE  Clean(Path(p.abs, Append(p.parts, c)))
           = Path(p.abs, Descend(p.abs, Clean(p).parts, c))
<1> DEFINE N == Len(p.parts)
           q == Path(p.abs, Append(p.parts, c))
<1>1. p.parts \in Seq(Component) /\ N \in Nat
  BY DEF Paths
<1>2. q.abs = p.abs /\ q.parts = Append(p.parts, c)
  BY DEF Path
<1> HIDE DEF q
<1>4. /\ Len(q.parts) = N + 1 /\ q.parts[N + 1] = c
      /\ \A i \in 1..N : q.parts[i] = p.parts[i]
  BY <1>1, <1>2
<1>3. Descent(q)[N] = Descent(p)[N]
  <2>1. N \in 0..N /\ N <= Len(q.parts) /\ Len(q.parts) \in Nat
    BY <1>1, <1>4
  <2> QED
    BY <1>1, <1>2, <1>4, <2>1, SameDescent
<1>5. Descent(q)[N + 1] = Descend(q.abs, Descent(q)[N], q.parts[N + 1])
  <2>1. Len(q.parts) \in Nat /\ N \in 0..Len(q.parts) /\ N + 1 \in 0..Len(q.parts)
    BY <1>1, <1>4
  <2> QED
    BY <2>1, DescentSteps
<1>6. Clean(q) = Path(p.abs, Descend(p.abs, Descent(p)[N], c))
  BY <1>2, <1>3, <1>4, <1>5 DEF Clean
<1>7. Clean(p).parts = Descent(p)[N]
  BY DEF Clean, Path
<1> QED
  BY <1>6, <1>7, Zenon DEF q

\* A directory in a home other than the root or the working directory is below it.
LEMMA NameIsBelow ==
  ASSUME NEW home \in Paths, NEW name \in Component \ (Skipped \cup {Up}),
         Clean(home).parts # <<>>
  PROVE  Below(Clean(Clean(Path(home.abs, Append(home.parts, name)))), Clean(home))
<1> DEFINE base == Clean(home).parts
           dir  == Clean(Path(home.abs, Append(home.parts, name)))
<1>1. /\ home.parts \in Seq(Component) /\ home.abs \in BOOLEAN
      /\ Path(home.abs, Append(home.parts, name)) \in Paths
  <2>1. home.parts \in Seq(Component) /\ home.abs \in BOOLEAN
    BY DEF Paths
  <2>2. Append(home.parts, name) \in Seq(Component)
    BY <2>1
  <2> QED
    BY <2>1, <2>2 DEF Path, Paths
<1>2. Clean(dir) = dir
  BY <1>1, CleanTwice
<1>3. base \in Seq(Component)
  BY CleanTidies DEF Tidy
<1>4. dir = Path(home.abs, Append(base, name))
  <2>1. Descend(home.abs, base, name) = Append(base, name)
    BY DEF Descend
  <2> QED
    BY <2>1, CleanOfAppend
<1>5. Clean(home).abs = home.abs
  BY CleanTidies
<1> HIDE DEF base
<1>6. IsStrictPrefix(base, Append(base, name))
  BY <1>3 DEF IsStrictPrefix, IsPrefix
<1> HIDE DEF dir
<1>7. dir.abs = home.abs /\ dir.parts = Append(base, name)
  BY <1>4 DEF Path
<1>8. Below(dir, Clean(home))
  BY <1>5, <1>6, <1>7 DEF Below, base
<1> QED
  BY <1>2, <1>8 DEF dir

-----------------------------------------------------------------------------
(* The directory of a certificate.                                         *)

\* The root and the empty path are clean.
LEMMA CleanOfNothing ==
  ASSUME NEW p, p.parts = <<>>
  PROVE  Clean(p).parts = <<>>
<1>1. Len(p.parts) = 0
  OBVIOUS
<1>2. Descent(p)[0] = <<>>
  BY <1>1, DescentSteps
<1> QED
  BY <1>1, <1>2 DEF Clean, Path

\* A set of positions has a last one.
LEMMA LastOf ==
  ASSUME NEW N \in Nat, NEW S, S \subseteq 1..N, S # {}
  PROVE  \E n \in S : \A m \in S : m <= n
<1> DEFINE T == {k \in Nat : N - k \in S}
<1>1. T # {}
  <2>1. PICK m \in S : TRUE
    OBVIOUS
  <2>2. N - m \in Nat /\ N - (N - m) = m
    BY <2>1
  <2> QED
    BY <2>1, <2>2
<1>2. T \subseteq Nat
  OBVIOUS
<1> HIDE DEF T
<1>3. PICK k \in T : \A l \in T : k <= l
  BY <1>1, <1>2, Least
<1>4. k \in Nat /\ N - k \in S
  BY <1>3 DEF T
<1>5. ASSUME NEW m \in S PROVE m <= N - k
  <2>1. N - m \in Nat /\ N - (N - m) = m
    OBVIOUS
  <2>2. N - m \in T
    BY <2>1 DEF T
  <2> QED
    BY <1>3, <1>4, <2>1, <2>2
<1> QED
  BY <1>4, <1>5

\* The last component that is not empty, 0 when all are.
LEMMA LastNonEmpty ==
  ASSUME NEW N \in Nat, NEW f, NEW e
  PROVE  \E n \in 0..N : /\ n > 0 => f[n] # e
                         /\ \A i \in 1..N : i > n => f[i] = e
<1> DEFINE S == {i \in 1..N : f[i] # e}
<1>1. CASE S = {}
  <2>1. 0 \in 0..N /\ ~(0 > 0)
    OBVIOUS
  <2>2. \A i \in 1..N : f[i] = e
    BY <1>1
  <2> QED
    BY <2>1, <2>2
<1>2. CASE S # {}
  <2>1. S \subseteq 1..N
    OBVIOUS
  <2>2. PICK n \in S : \A m \in S : m <= n
    <3> HIDE DEF S
    <3> QED
      BY <1>2, <2>1, LastOf
  <2>3. n \in 1..N /\ n \in 0..N /\ f[n] # e
    OBVIOUS
  <2>4. ASSUME NEW i \in 1..N, i > n PROVE f[i] = e
    <3>1. ~(i <= n)
      BY <2>3, <2>4
    <3>2. i \notin S
      BY <2>2, <3>1
    <3> QED
      BY <3>2
  <2> QED
    BY <2>3, <2>4
<1> QED
  BY <1>1, <1>2

\* A bare backslash is followed by a component, and so is not among the last ones.
LEMMA NoneBare ==
  ASSUME NEW N \in Nat, NEW n \in 0..N, NEW f, NEW B, NEW e,
         ~\E i \in 1..N : f[i] \in B /\ \A k \in 1..N : k > i => f[k] = e,
         \A i \in 1..N : i > n => f[i] = e \/ f[i] \in B
  PROVE  \A i \in 1..N : i >= n => f[i] \notin B
<1> DEFINE T == {i \in 1..N : i >= n /\ f[i] \in B}
<1> SUFFICES ASSUME T # {} PROVE FALSE
  OBVIOUS
<1>1. T \subseteq 1..N
  OBVIOUS
<1>2. PICK k \in T : \A m \in T : m <= k
  <2> HIDE DEF T
  <2> QED
    BY <1>1, LastOf
<1>3. k \in 1..N /\ k >= n /\ f[k] \in B
  OBVIOUS
<1>4. PICK m \in 1..N : m > k /\ f[m] # e
  BY <1>3
<1>5. m > n /\ m >= n /\ ~(m <= k)
  BY <1>3, <1>4
<1>6. m \in T
  BY <1>4, <1>5
<1> QED
  BY <1>2, <1>5, <1>6

LEMMA Still ==
  ASSUME NEW N \in Nat, NEW n \in 0..N, NEW d,
         \A k \in Nat : n <= k /\ k + 1 <= N => d[k + 1] = d[k]
  PROVE  d[N] = d[n]
<1> DEFINE S == {k \in Nat : n + k <= N => d[n + k] = d[n]}
<1>1. 0 \in S
  OBVIOUS
<1>2. ASSUME NEW k \in S PROVE k + 1 \in S
  <2> SUFFICES ASSUME n + (k + 1) <= N PROVE d[n + (k + 1)] = d[n]
    OBVIOUS
  <2>1. /\ n + k \in Nat /\ n <= n + k /\ (n + k) + 1 <= N /\ n + k <= N
        /\ (n + k) + 1 = n + (k + 1)
    OBVIOUS
  <2> QED
    BY <2>1
<1>3. S = Nat
  <2>1. S \subseteq Nat
    OBVIOUS
  <2> HIDE DEF S
  <2> QED
    BY <1>1, <1>2, <2>1, Induct
<1>4. N - n \in S /\ n + (N - n) = N /\ n + (N - n) <= N
  <2>1. N - n \in Nat /\ n + (N - n) = N /\ n + (N - n) <= N
    OBVIOUS
  <2> HIDE DEF S
  <2> QED
    BY <1>3, <2>1
<1> QED
  BY <1>4

\* What Left chooses.
LEMMA LeftIs ==
  ASSUME NEW parts, NEW N \in Nat, DOMAIN parts = 1..N, Len(parts) = N
  PROVE  /\ Left(parts) \in 0..N
         /\ Left(parts) > 0 => Stem(parts[Left(parts)]) # ""
         /\ \A i \in 1..N : i > Left(parts) => Stem(parts[i]) = ""
<1> DEFINE f    == [i \in 1..N |-> Stem(parts[i])]
           P(n) == /\ n > 0 => Stem(parts[n]) # ""
                   /\ \A i \in 1..N : i > n => Stem(parts[i]) = ""
<1>1. \E n \in 0..N : /\ n > 0 => f[n] # ""
                      /\ \A i \in 1..N : i > n => f[i] = ""
  <2> HIDE DEF f
  <2> QED
    BY LastNonEmpty
<1>2. PICK n \in 0..N : /\ n > 0 => f[n] # ""
                        /\ \A i \in 1..N : i > n => f[i] = ""
  BY <1>1
<1>3. \A i \in 1..N : f[i] = Stem(parts[i])
  OBVIOUS
<1>4. n > 0 => n \in 1..N
  OBVIOUS
<1> HIDE DEF f
<1>5. P(n)
  BY <1>2, <1>3, <1>4
<1>6. Left(parts) = CHOOSE m \in 0..N : P(m)
  BY DEF Left
<1> HIDE DEF P
<1>7. Left(parts) \in 0..N /\ P(Left(parts))
  BY <1>5, <1>6
<1> QED
  BY <1>7 DEF P

LEMMA PartsOf ==
  ASSUME NEW p \in Paths
  PROVE  /\ p.parts \in Seq(Component) /\ Len(p.parts) \in Nat
         /\ DOMAIN p.parts = 1..Len(p.parts)
BY DEF Paths

\* Only empty components go.
LEMMA OnlyBlanksGo ==
  ASSUME NEW p \in Paths, ~EndsInBackslash(p), NEW N \in Nat, Len(p.parts) = N
  PROVE  /\ Left(p.parts) \in 0..N
         /\ Left(p.parts) > 0 => Stem(p.parts[Left(p.parts)]) = p.parts[Left(p.parts)]
         /\ \A i \in 1..N : i > Left(p.parts) => p.parts[i] = ""
<1>1. DOMAIN p.parts = 1..N
  BY PartsOf
<1>2. PICK parts : parts = p.parts
  OBVIOUS
<1>3. PICK n : n = Left(parts)
  OBVIOUS
<1>4. /\ n \in 0..N
      /\ n > 0 => Stem(parts[n]) # ""
      /\ \A i \in 1..N : i > n => Stem(parts[i]) = ""
  BY <1>1, <1>2, <1>3, LeftIs
<1>5. n \in 0..N
  BY <1>4
<1>6. ~\E i \in 1..N : /\ parts[i] \in DOMAIN Bare
                       /\ \A k \in 1..N : k > i => parts[k] = ""
  BY <1>1, <1>2, Zenon DEF EndsInBackslash
<1>7. \A i \in 1..N : i > n => parts[i] = "" \/ parts[i] \in DOMAIN Bare
  BY <1>4, Zenon DEF Stem
<1>8. \A i \in 1..N : i >= n => parts[i] \notin DOMAIN Bare
  BY <1>4, <1>6, <1>7, NoneBare
<1>9. n > 0 => n \in 1..N /\ n >= n
  BY <1>5
<1>10. n > 0 => Stem(parts[n]) = parts[n]
  BY <1>8, <1>9, Zenon DEF Stem
<1>11. ASSUME NEW i \in 1..N, i > n PROVE parts[i] = ""
  <2>1. i >= n
    BY <1>11, <1>5
  <2>2. parts[i] \notin DOMAIN Bare
    BY <1>8, <2>1
  <2> QED
    BY <1>7, <1>11, <2>2
<1> QED
  BY <1>2, <1>3, <1>4, <1>10, <1>11

\* The number after one that is not below n is a place after n.
LEMMA After ==
  ASSUME NEW N \in Nat, NEW n \in 0..N, NEW k \in Nat, n <= k, k + 1 <= N
  PROVE  k \in 0..N /\ k + 1 \in 0..N /\ k + 1 \in 1..N /\ k + 1 > n
  OBVIOUS

\* Empty components at the end lead nowhere.
LEMMA BlanksStay ==
  ASSUME NEW p \in Paths, NEW N \in Nat, Len(p.parts) = N, NEW n \in 0..N,
         \A i \in 1..N : i > n => p.parts[i] = ""
  PROVE  Descent(p)[N] = Descent(p)[n]
<1>1. PICK d : d = Descent(p)
  OBVIOUS
<1>2. ASSUME NEW k \in Nat, n <= k, k + 1 <= N PROVE d[k + 1] = d[k]
  <2>1. k \in 0..N /\ k + 1 \in 0..N /\ k + 1 \in 1..N /\ k + 1 > n
    BY <1>2, After
  <2>2. p.parts[k + 1] = ""
    BY <2>1
  <2>3. Descent(p)[k + 1] = Descend(p.abs, Descent(p)[k], p.parts[k + 1])
    BY <2>1, DescentSteps
  <2>4. Descend(p.abs, Descent(p)[k], "") = Descent(p)[k]
    BY Zenon DEF Descend, Skipped
  <2> QED
    BY <1>1, <2>2, <2>3, <2>4, Zenon
<1>3. d[N] = d[n]
  BY <1>2, Still
<1> QED
  BY <1>1, <1>3

\* What TrimRight leaves of a path that does not end in a backslash comes to the same.
LEMMA CleanOfTrimmed ==
  ASSUME NEW p \in Paths, ~EndsInBackslash(p)
  PROVE  Clean(TrimRight(p)) = Clean(p)
<1>1. p.parts \in Seq(Component) /\ Len(p.parts) \in Nat
  BY PartsOf
<1>2. PICK N \in Nat : N = Len(p.parts)
  BY <1>1
<1>3. PICK n : n = Left(p.parts)
  OBVIOUS
<1>4. PICK parts : parts = p.parts
  OBVIOUS
<1>5. /\ n \in 0..N
      /\ n > 0 => Stem(parts[n]) = parts[n]
      /\ \A i \in 1..N : i > n => parts[i] = ""
  BY <1>2, <1>3, <1>4, OnlyBlanksGo
<1>6. n \in 0..N
  BY <1>5
<1>7. PICK left : left = [i \in 1..n |-> IF i = n THEN Stem(parts[i]) ELSE parts[i]]
  OBVIOUS
<1>8. PICK q : q = Path(p.abs, left)
  OBVIOUS
<1>9. TrimRight(p) = q
  BY <1>3, <1>4, <1>7, <1>8, Zenon DEF TrimRight
<1>10. q.abs = p.abs /\ q.parts = left
  BY <1>8 DEF Path
<1>11. ASSUME NEW i \in 1..n PROVE left[i] = parts[i] /\ left[i] \in Component
  <2>1. n > 0 /\ i \in 1..N
    BY <1>6
  <2>2. left[i] = parts[i]
    BY <1>5, <1>7, <2>1, Zenon
  <2>3. parts \in Seq(Component) /\ Len(parts) = N
    BY <1>1, <1>2, <1>4
  <2>4. parts[i] \in Component
    BY <2>1, <2>3
  <2> QED
    BY <2>2, <2>4
<1>12. left \in [1..n -> Component]
  BY <1>7, <1>11
<1>13. left \in Seq(Component) /\ Len(left) = n /\ n \in Nat
  BY <1>12, <1>6
<1>14. Descent(q)[n] = Descent(p)[n]
  <2>1. Len(p.parts) \in Nat /\ Len(q.parts) \in Nat /\ n \in 0..Len(p.parts)
        /\ n <= Len(q.parts)
    BY <1>2, <1>10, <1>13, <1>6
  <2>2. \A i \in 1..n : q.parts[i] = p.parts[i]
    BY <1>4, <1>10, <1>11
  <2> QED
    BY <1>10, <2>1, <2>2, SameDescent
<1>15. Descent(p)[N] = Descent(p)[n]
  BY <1>2, <1>4, <1>5, BlanksStay
<1>16. Clean(q) = Clean(p)
  BY <1>2, <1>10, <1>13, <1>14, <1>15 DEF Clean
<1> QED
  BY <1>9, <1>16

LEMMA DerivedHome ==
  ASSUME NEW c, DOMAIN c = DOMAIN Default
  PROVE  Derived(c).home = c.home
<1>1. "home" \in DOMAIN c
  BY DEF Default
<1> QED
  BY <1>1 DEF Derived

\* Where the directory is, and that it stays once its removal is refused.
PurgeInv ==
  /\ file # None => DOMAIN file = DOMAIN Default /\ file.home \in Paths
  /\ cfg # Stopped => cfg.home \in Paths
  /\ cert # None => cert.dir \in DirNames /\ cfg # Stopped
  /\ purge = "refused" => cert # None
  /\ purge # "no" => cfg # Stopped
  /\ PurgeChecksAgree

\* What the handler's check lets pass, the job's lets pass too, unless it cuts a
\* backslash off.
LEMMA BothPass ==
  ASSUME NEW dir, cfg.home \in Paths, DirWithin(dir, cfg.home), ~EndsInBackslash(cfg.home)
  PROVE  PurgeDir(dir)
<1>1. Below(Clean(dir), Clean(cfg.home)) /\ ~HasDots(dir)
  BY DEF DirWithin
<1>2. Clean(TrimRight(cfg.home)) = Clean(cfg.home)
  BY CleanOfTrimmed
<1>3. Clean(TrimRight(cfg.home)).parts # <<>>
  BY <1>1, <1>2 DEF Below
<1>4. TrimRight(cfg.home).parts # <<>>
  BY <1>3, CleanOfNothing
<1> QED
  BY <1>1, <1>2, <1>4, Zenon DEF PurgeDir

\* What the handler refuses has ".." in it, or is in the root or the working directory.
LEMMA RefusedRightly ==
  ASSUME cfg.home \in Paths, cert.dir \in DirNames, ~DirWithin(DomainDir, cfg.home)
  PROVE  HasDots(DomainDir) \/ Clean(cfg.home).parts = <<>>
<1>1. CASE cfg.home = Unset
  BY <1>1, CleanOfNothing DEF Unset, Path
<1>2. cert.dir \in Component \ (Skipped \cup {Up})
  BY ReissueAssumption
<1>3. CASE ~Below(Clean(DomainDir), Clean(cfg.home))
  BY <1>2, <1>3, NameIsBelow DEF DomainDir
<1> QED
  BY <1>1, <1>3 DEF DirWithin

\* A step that neither moves the directory nor answers a request to purge.
LEMMA SamePurge ==
  ASSUME PurgeInv, UNCHANGED <<cfg, purge>>, cert # None, cert' # None, cert'.dir = cert.dir
  PROVE  /\ PurgeChecksAgree' /\ (purge' = "refused" => cert' # None)
         /\ purge' # "no" => cfg' # Stopped
<1>1. DomainDir' = DomainDir
  BY DEF DomainDir
<1> QED
  BY <1>1 DEF PurgeInv, PurgeChecksAgree

LEMMA NextPurgeInv == PurgeInv /\ [Next]_vars => PurgeInv'
<1> SUFFICES ASSUME PurgeInv, [Next]_vars PROVE PurgeInv'
  OBVIOUS
<1>1. ASSUME cfg = Stopped, NEW c, DOMAIN c = DOMAIN Default, c.home \in Paths,
             file' = c, UNCHANGED <<cfg, cert, purge>>
      PROVE  PurgeInv'
  BY <1>1 DEF PurgeInv, PurgeChecksAgree
<1>2. ASSUME NEW flags \in Answers, NEW interactive \in BOOLEAN, NEW answers \in Answers,
             CmdInit(flags, interactive, answers)
      PROVE  PurgeInv'
  <2>1. PICK c, bind, port, allow :
          /\ c = [[Default EXCEPT !.bind = bind, !.port = port] EXCEPT !.allow = allow]
          /\ c = Written(flags, interactive, answers)
    BY DEF Written
  <2>2. DOMAIN c = DOMAIN Default /\ c.home = Default.home
    BY <2>1 DEF Default
  <2>3. Default.home \in Paths
    BY ReissueAssumption
  <2>4. cfg = Stopped /\ file' = c /\ UNCHANGED <<cfg, cert, purge>>
    BY <1>2, <2>1 DEF CmdInit
  <2> QED
    BY <1>1, <2>2, <2>3, <2>4
<1>3. ASSUME NEW c \in Files, Edit(c) PROVE PurgeInv'
  <2>1. DOMAIN c = DOMAIN Default /\ c.home \in Paths
    BY ReissueAssumption
  <2>2. cfg = Stopped /\ file' = c /\ UNCHANGED <<cfg, cert, purge>>
    BY <1>3 DEF Edit
  <2> QED
    BY <1>1, <2>1, <2>2
<1>4. CASE Serve
  <2>1. /\ cfg = Stopped /\ file # None /\ cfg' = Derived(file)
        /\ UNCHANGED <<file, cert, purge>>
    BY <1>4 DEF Serve
  <2>2. DOMAIN file = DOMAIN Default /\ file.home \in Paths /\ cert = None
    BY <2>1 DEF PurgeInv
  <2>3. cfg'.home = file.home
    BY <2>1, <2>2, DerivedHome
  <2> QED
    BY <2>1, <2>2, <2>3 DEF PurgeInv, PurgeChecksAgree
<1>5. ASSUME NEW body \in Requests, NEW dir \in DirNames, IssueCert(body, dir) PROVE PurgeInv'
  <2>1. /\ cfg # Stopped /\ cert = None /\ UNCHANGED <<file, cfg, purge>>
        /\ cert' = Stored(CommandFor(body), dir)
    BY <1>5, Zenon DEF IssueCert
  <2>2. cert'.dir = dir
    BY <2>1 DEF Stored
  <2> QED
    BY <2>1, <2>2 DEF PurgeInv, PurgeChecksAgree
<1>6. CASE Scan \/ Tick
  <2>1. UNCHANGED <<file, cfg, cert, purge>> /\ cert # None
    BY <1>6 DEF Scan, Tick
  <2> QED
    BY <2>1, SamePurge DEF PurgeInv
<1>7. CASE ReissueCert
  <2>1. UNCHANGED <<file, cfg, purge>> /\ cert # None
    BY <1>7 DEF ReissueCert
  <2>2. cert'.dir = cert.dir
    BY <1>7 DEF ReissueCert, Stored
  <2>3. cert' # None
    BY <1>7, <2>1 DEF ReissueCert, Stored, None
  <2> QED
    BY <2>1, <2>2, <2>3, SamePurge DEF PurgeInv
<1>8. CASE DeleteCert
  <2>1. UNCHANGED <<file, cfg>> /\ cert # None
    BY <1>8 DEF DeleteCert
  <2>2. CASE ~DirWithin(DomainDir, cfg.home) /\ purge' = "refused" /\ UNCHANGED cert
    <3>1. HasDots(DomainDir) \/ Clean(cfg.home).parts = <<>>
      BY <2>1, <2>2, RefusedRightly DEF PurgeInv
    <3>2. DomainDir' = DomainDir
      BY <2>1, <2>2 DEF DomainDir
    <3> QED
      BY <2>1, <2>2, <3>1, <3>2 DEF PurgeInv, PurgeChecksAgree
  <2>3. CASE purge' = "done" /\ cert' = None
    BY <2>1, <2>3 DEF PurgeInv, PurgeChecksAgree
  <2>4. CASE /\ DirWithin(DomainDir, cfg.home) /\ ~PurgeDir(DomainDir)
             /\ purge' = "failed" /\ UNCHANGED cert
    <3>1. EndsInBackslash(cfg.home)
      BY <2>1, <2>4, BothPass DEF PurgeInv
    <3> QED
      BY <2>1, <2>4, <3>1 DEF PurgeInv, PurgeChecksAgree
  <2> QED
    BY <1>8, <2>2, <2>3, <2>4 DEF DeleteCert
<1>9. CASE UNCHANGED vars
  <2>1. UNCHANGED <<file, cfg, cert, purge>>
    BY <1>9 DEF vars
  <2> QED
    BY <2>1, SamePurge DEF PurgeInv, PurgeChecksAgree
<1>10. ASSUME NEW list \in Providers, KeepProviders(list) PROVE PurgeInv'
  <2>1. cfg # Stopped /\ UNCHANGED <<file, cfg, cert, purge>>
    BY <1>10 DEF KeepProviders
  <2> QED
    BY <2>1, SamePurge DEF PurgeInv, PurgeChecksAgree
<1> QED
  BY <1>2, <1>3, <1>4, <1>5, <1>6, <1>7, <1>8, <1>9, <1>10 DEF Next

\* What the handler's check lets pass, the job's lets pass too, unless the home is
\* configured with a backslash at its end: but for that, no certificate that acme.sh has
\* forgotten keeps its directory.  And what the handler refuses has ".." in it or is in a
\* home that is the root or the working directory (certs.go:264-274, runner.go:77-93).
THEOREM PassedTwice == Spec => []PurgeChecksAgree
<1>1. Init => PurgeInv
  BY DEF Init, PurgeInv, PurgeChecksAgree
<1>2. PurgeInv => PurgeChecksAgree
  BY DEF PurgeInv
<1> QED
  BY <1>1, <1>2, NextPurgeInv, PTL DEF Spec
=============================================================================
