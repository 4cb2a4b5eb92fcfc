---------------------------- MODULE MCCertHandlers ----------------------------
(* Small instances of CertHandlers for TLC.                                 *)
EXTENDS CertHandlers, TLC

CONSTANTS n1, n2, n3, n4, r1

\* A name with both kinds of key, and another name.
Rsa1 == <<n1, "rsa">>
Ecc1 == <<n1, "ecc">>
Ecc2 == <<n2, "ecc">>

\* A certificate of the second name in a directory that has two dots in its name, which
\* dirWithin refuses, and one for something that is no domain.
Dots == <<n3, "ecc">>
Mail == <<n4, "ecc">>

InOrder   == Rsa1 :> 1 @@ Ecc1 :> 2 @@ Ecc2 :> 3 @@ Dots :> 4 @@ Mail :> 5
LeafNames == Rsa1 :> n1 @@ Ecc1 :> n1 @@ Ecc2 :> n2 @@ Dots :> n2 @@ Mail :> n4
NoDomains == {n3, n4}

\* Homes as acme.sh makes them, and others.
PlainDirs == {Rsa1, Ecc1, Ecc2}
PlainHome == {{Rsa1, Ecc1}}
OddDirs   == {Dots, Mail}
EveryDir  == PlainDirs \cup OddDirs
EveryHome == PlainHome \cup {{d} : d \in OddDirs}
NotDots   == EveryDir \ {Dots}

\* Two requests and two issuances in the plain home; in the others, with the cron job
\* and with a server that stops, one request.
Scope ==
  CronWrites > 0 \/ deaths > 0 \/ (\E d \in OddDirs : gen[d] > 0) =>
    Cardinality(Requests) <= 1
=============================================================================
