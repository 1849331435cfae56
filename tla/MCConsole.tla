----------------------------- MODULE MCConsole -----------------------------
(* A small instance of Console for TLC. *)
EXTENDS Console, TLC

CONSTANTS s1, s2, s3, x, k1

\* Any permutation of the sessions that are not the tab's maps behaviours to behaviours.
Symmetry == Permutations(Sessions \ {Me})
=============================================================================
