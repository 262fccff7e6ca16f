----------------------------- MODULE MCJobRunner -----------------------------
(* Small instances of JobRunner for TLC. *)
EXTENDS JobRunner

CONSTANTS f1, f2

TwoNames == {f1, f2}
=============================================================================
