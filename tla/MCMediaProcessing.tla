-------------------------- MODULE MCMediaProcessing --------------------------
(* Small instances of MediaProcessing for TLC. *)
EXTENDS MediaProcessing, TLC

CONSTANTS j1, j2, u1, u2

TwoJobs == {j1, j2}
TwoUsers == {u1, u2}

File(size, old) == [size |-> size, old |-> old, failed |-> FALSE]
Leftover(size) == [size |-> size, old |-> FALSE, failed |-> TRUE]
Only(path, file) == [p \in {path} |-> file]
Both(path, file, path2, file2) == [p \in {path, path2} |-> IF p = path THEN file ELSE file2]

\* A photo over the limit; another beside what a failed engine left, with which it
\* is over the quota; a video with its cover; two videos over the limit, of one
\* stem and of two, the latter dated by their publication.
SomePosts ==
  {Only(<<"a", "jpg">>, File(2, FALSE)),
   Both(<<"a", "jpg">>, File(2, FALSE), <<"a", "mp4">>, Leftover(3)),
   Both(<<"a", "mp4">>, File(1, FALSE), <<"a", "jpg">>, File(1, FALSE)),
   Both(<<"a", "mp4">>, File(2, FALSE), <<"a", "webm">>, File(2, FALSE)),
   Both(<<"a", "mp4">>, File(2, TRUE), <<"b", "mp4">>, File(2, TRUE))}

Symmetry == Permutations(TwoJobs) \union Permutations(TwoUsers)
=============================================================================
