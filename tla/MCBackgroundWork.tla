--------------------------- MODULE MCBackgroundWork ---------------------------
(* Finite instances of BackgroundWork for TLC. *)
EXTENDS BackgroundWork

CONSTANTS p1, p2, c1, c2, s1, s2, j1, j2

TwoPods == {p1, p2}
CleanupOnly == {"token-cleanup"}
TwoCalls == {c1, c2}
TwoSubs == {s1, s2}
OneFlaky == {s2}
TwoJobs == {j1, j2}
=============================================================================
