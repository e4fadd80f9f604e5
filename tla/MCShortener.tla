---------------------------- MODULE MCShortener ----------------------------
(* Shortener with a client who shortens three URLs, in one window or in    *)
(* several, drawing from two codes, and two clicks.                        *)
EXTENDS Shortener, TLC

CONSTANTS i1, s1, s2, s3, g1, g2, c1, c2

MCIp == {i1}
MCShorten == {s1, s2, s3}
MCResolve == {g1, g2}
MCFrom == [r \in MCShorten |-> i1]
MCCode == {c1, c2}

Symmetry == Permutations(MCCode) \cup Permutations(MCResolve) \cup Permutations(MCShorten)
=============================================================================
