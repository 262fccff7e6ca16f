---------------------------- MODULE MCJobHistory ----------------------------
(* A small instance of JobHistory for TLC. *)
EXTENDS JobHistory

CONSTANTS j1, j2, j3, w1, w2

ThreeJobs == {j1, j2, j3}
OneLooper == {w1}
OneOneShot == {w2}

\* Jobs are only compared for equality.
JobSymmetry == Permutations(ThreeJobs)
=============================================================================
