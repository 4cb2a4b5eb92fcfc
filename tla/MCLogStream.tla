----------------------------- MODULE MCLogStream -----------------------------
(* Small instances of LogStream for TLC.                                    *)
EXTENDS LogStream

CONSTANTS r1, r2

TwoReaders == {r1, r2}
=============================================================================
