--------------------------- MODULE MCSessionPortal ---------------------------
(* Small instances of SessionPortal for TLC. *)
EXTENDS SessionPortal, TLC

CONSTANTS u1, u2, ig, fb, t1, t2

TwoUsers == {u1, u2}
OneUser == {u1}
TwoPlatforms == {ig, fb}
OnePlatform == {ig}
TwoTokens == {t1, t2}

\* Users, platforms and tokens are only ever compared for equality.
Symmetric == Permutations({u1, u2}) \union Permutations({ig, fb}) \union Permutations({t1, t2})
=============================================================================
