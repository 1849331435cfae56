---------------------------- MODULE MCMiddleware ----------------------------
(* Small instances of Middleware for TLC. *)
EXTENDS Middleware, TLC

CONSTANTS r1, r2, r3, r4, h1, h2, a1, a2

\* Any permutation of requests, hashes and resources maps behaviours to behaviours.
Symmetry == Permutations(Requests) \cup Permutations(Hashes) \cup Permutations(Resources)
=============================================================================
