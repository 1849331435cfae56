---------------------------- MODULE MCReadiness ----------------------------
(* A small instance of Readiness for TLC. *)
EXTENDS Readiness, TLC

CONSTANTS n1, n2

\* A process that was configured for live payments.
LiveEnv == [mode |-> TRUE, run |-> TRUE, payer |-> n1, payee |-> n1, rpc |-> None,
            exposed |-> FALSE, secret |-> TRUE]

Body == [local |-> TRUE, confirmed |-> TRUE, auth |-> FALSE, remote |-> FALSE,
         payer |-> n2, payee |-> n1, live |-> TRUE, generate |-> TRUE]
\* The second is accepted and not live, the third refused.
Bodies == {Body, [Body EXCEPT !.live = FALSE], [Body EXCEPT !.auth = TRUE, !.remote = TRUE]}

Proved == [ops |-> TRUE, testnet |-> TestnetRequirements,
           boot |-> BootstrapRequirements, claims |-> [f \in Fields |-> {TRUE}]]
ReportChoices ==
    {Proved, [Proved EXCEPT !.testnet = @ \ {"digest"}, !.claims["bootstrap"] = BOOLEAN]}

\* Up, without a ready channel, or down.
NodeStates == {{"info", "peers", "channels"}, {"info", "peers"}, {}}
=============================================================================
