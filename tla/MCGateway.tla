----------------------------- MODULE MCGateway -----------------------------
(* Small instances of Gateway for TLC. *)
EXTENDS GatewayInv, TLC

CONSTANTS r1, r2, r3, r4, h1, h2, h3, a1, a2, k1, k2, u1, u2

\* Unordered constants: any permutation of requests, hashes and resources maps
\* behaviours to behaviours.
Symmetry == Permutations(Requests) \cup Permutations(Hashes) \cup Permutations(Resources)

\* One secret for the whole life of the deployment, F-L402 enabled.
OneConfig == {[secret |-> k1, previous |-> {}, currency |-> u1, fl402 |-> TRUE]}

\* F-L402 until a rotation: one that keeps the previous secret, one that forgets it,
\* and a change of the invoice currency.
Rotation == {[secret |-> k1, previous |-> {}, currency |-> u1, fl402 |-> TRUE],
             [secret |-> k2, previous |-> {k1}, currency |-> u1, fl402 |-> FALSE],
             [secret |-> k2, previous |-> {}, currency |-> u1, fl402 |-> FALSE],
             [secret |-> k1, previous |-> {}, currency |-> u2, fl402 |-> FALSE]}
=============================================================================
