---------------------------- MODULE MCEntrances ----------------------------
(* One invoice: of either hash algorithm, and one for a UDT.  The middleware *)
(* sells one resource itself; an application in front of it also sells one   *)
(* without and one with a body.  The route's currency is written in upper    *)
(* case, which the conversions to F402 and x402 do not keep.                 *)
EXTENDS Entrances, TLC

CONSTANTS i1, i2, i3, udt

Terms(algorithm, script) ==
  [algorithm |-> algorithm, currency |-> "Fibd", udt |-> script, expires |-> 1]

MCInvoices    == {i1, i2, i3}
MCTermsOf     == (i1 :> Terms("ckb_hash", Absent)) @@ (i2 :> Terms("sha256", Absent))
                   @@ (i3 :> Terms("ckb_hash", udt))
MCRoutes      == {[url |-> "weather", digest |-> Absent]}
MCOffers      == {[url |-> "weather", digest |-> Absent],
                  [url |-> "history", digest |-> Absent],
                  [url |-> "orders",  digest |-> "d"]}
=============================================================================
