---------------------------- MODULE MCJobManager ----------------------------
(* Small instances of JobManager for TLC.                                  *)
EXTENDS JobManager, TLC

CONSTANTS j1, j2

OneJob  == {j1}
TwoJobs == {j1, j2}

\* Sound where every job, or none, carries a PurgeDir.
TwoSymmetry == Permutations(TwoJobs)
=============================================================================
