---------------------------- MODULE MCSettlement ----------------------------
(* The instance of Settlement that TLC checks: both gateways, a challenge of  *)
(* one second and of two, a node clock that is behind and one that is ahead.  *)
EXTENDS Settlement

BothGateways == {"rust", "ts"}
SmallSkews == {-1, 1}
SmallTtls == {1, 2}
=============================================================================
