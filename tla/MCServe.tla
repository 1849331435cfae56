------------------------------ MODULE MCServe ------------------------------
(* A small instance of Serve for TLC. *)
EXTENDS Serve, TLC

\* Nothing wrong; what both commands block; what only serve completes; what only serve
\* looks at; what only startGateway finds, mended by an option of serve or not.
SomeConfigs == {{}, {"previousShort"}, {"plainPath"}, {"fl402"}, {"origin"}, {"times"}}
SomeOptions == {{}, {"upstream"}}

\* Ready; without a ready channel; not answering.
SomeNodes == {{}, {"list_channels"}, Rpcs}
=============================================================================
