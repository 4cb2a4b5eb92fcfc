------------------------------ MODULE MCUpdater ------------------------------
(* Small instances of Updater for TLC.                                      *)
EXTENDS Updater

CONSTANTS r1, r2, c1, c2

TwoRequests == {r1, r2}
TwoChecks   == {c1, c2}
OneCheck    == {c1}
=============================================================================
