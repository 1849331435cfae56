---------------------------- MODULE MCTournament ----------------------------
(***************************************************************************)
(* The instance of Tournament that TLC checks.  The members of every set   *)
(* but the sessions are interchangeable, and no liveness is checked, so    *)
(* the permutations are a sound symmetry.                                  *)
(***************************************************************************)
EXTENDS Tournament, TLC

BothSettlements == {"local-ledger", "fiber-xudt"}
Symmetry == Permutations(Requests) \cup Permutations(Submissions)
               \cup Permutations(Challenges) \cup Permutations(TicketIds)
=============================================================================
