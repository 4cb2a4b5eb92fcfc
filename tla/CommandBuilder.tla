--------------------------- MODULE CommandBuilder ---------------------------
(***************************************************************************)
(* From a request to issue a certificate to the arguments of acme.sh.      *)
(*                                                                         *)
(* A domain is a name with a number of "*." in front of it and possibly    *)
(* blanks around it; a name is well formed or not.  The command is a       *)
(* record: its arguments, and in env whose credentials its environment     *)
(* carries.  (The store has checked their names and values by the rules of *)
(* buildEnv.)  --force and the order of the names behind the first are     *)
(* left out.                                                               *)
(***************************************************************************)
EXTENDS Integers, Sequences

CONSTANTS Names,      \* host names
          WellFormed  \* those that Domain accepts

ASSUME NamesAssumption == WellFormed \subseteq Names

Domain == [stars : 0..2, name : Names, padded : BOOLEAN]

Host(n)   == [stars |-> 0, name |-> n, padded |-> FALSE]
Wild(n)   == [stars |-> 1, name |-> n, padded |-> FALSE]
Trim(d)   == [d EXCEPT !.padded = FALSE]
Star(d)   == [d EXCEPT !.stars = @ + 1]
IsWild(d) == d.stars > 0

Challenges == {"webroot", "standalone", "dns", "dns-manual"}
KeyTypes   == {"", "ec-256", "ec-384", "ec-521", "2048", "3072", "4096"}
Refused    == [refused |-> TRUE]

\* validate.DomainOrWildcard: one leading "*." at most.
ValidDomain(d) == d.stars <= 1 /\ d.name \in WellFormed

\* validate.Domains: at least one, and none twice.
ValidDomains(ds) ==
  /\ ds # <<>>
  /\ \A i \in DOMAIN ds : ValidDomain(ds[i])
  /\ \A i, j \in DOMAIN ds : Trim(ds[i]) = Trim(ds[j]) => i = j

\* What each challenge needs to go with it.
ValidChallenge(spec) ==
  /\ spec.challenge \in Challenges
  /\ spec.challenge = "webroot" => spec.webroot = "absolute"
  /\ spec.challenge = "dns" => spec.code # ""

\* The configured key type stands in for one that was not given.
KeyFor(keyType, default) == IF keyType = "" THEN default ELSE keyType

\* validateCAName: a short name, or the URL of a directory, which "https" stands for;
\* without one acme.sh takes its own default.
KnownCA(ca) ==
  ca \in {"letsencrypt", "letsencrypt_test", "zerossl", "buypass", "buypass_test",
          "google", "sslcom", "https"}

\* Builder.Issue
Issue(spec, default) ==
  IF /\ ValidDomains(spec.domains)
     /\ KeyFor(spec.keyType, default) \in KeyTypes
     /\ ValidChallenge(spec)
     /\ spec.ca = "" \/ KnownCA(spec.ca)
  THEN [main      |-> Trim(spec.domains[1]),
        others    |-> {Trim(spec.domains[i]) : i \in 2..Len(spec.domains)},
        challenge |-> spec.challenge,
        webroot   |-> IF spec.challenge = "webroot" THEN spec.webroot ELSE "",
        code      |-> IF spec.challenge = "dns" THEN spec.code ELSE "",
        env       |-> IF spec.challenge = "dns" THEN spec.env ELSE "",
        keyType   |-> KeyFor(spec.keyType, default),
        ca        |-> spec.ca,
        staging   |-> spec.staging]
  ELSE Refused
=============================================================================
