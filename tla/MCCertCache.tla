----------------------------- MODULE MCCertCache -----------------------------
(* Small instances of CertCache for TLC.                                    *)
EXTENDS CertCache

CONSTANTS h1, h2, k1, k2, c1, c2

TwoHandlers == {h1, h2}
OneJob      == {k1}
TwoJobs     == {k1, k2}
OneCert     == {c1}
TwoCerts    == {c1, c2}
=============================================================================
