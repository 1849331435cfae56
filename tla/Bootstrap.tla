----------------------------- MODULE Bootstrap -----------------------------
(* From a configuration to a running gateway (packages/cli/src/bootstrap.ts   *)
(* and the commands serve and doctor of packages/cli/src/index.ts).  doctor   *)
(* reports on a configuration, serve starts from it: each builds its own      *)
(* report, over other inputs, and then asks the payee's Fiber node three      *)
(* questions, one await after the other, while the node may change.           *)
EXTENDS Naturals, FiniteSets

CONSTANTS
    Configs,      \* configurations the operator may have, by their defects
    OptionSets,   \* what the command line of serve may give beside the file
    NodeStates,   \* what the payee's node may be: the RPCs that block
    None,
    MaxChanges    \* bound: edits of the configuration and changes of the node

VARIABLES
    config,     \* the file and the environment: what is wrong with them
    node,       \* the RPCs of the payee's node that fail or count nothing
    probe,      \* the doctor and the serve command on their way, None when not
    said,       \* the doctor's last report, None once something changed since
    proc,       \* the gateway's process
    changes

bootstrap == <<config, node, probe, said, changes>>

Rpcs == {"node_info", "list_peers", "list_channels"}

\* What previousSecretsFromGatewayConfig sorts out: a variable not set, or short.
PreviousSecrets == {"previousMissing", "previousShort"}

\* What only startGateway finds.  SqliteStore: a database of another schema, or that
\* cannot be opened.
StoreThrows == {"store"}

\* FiberMethodAdapter.fromEnv: settlement times that are no positive integers or in the
\* wrong order, a UDT script that does not parse.
AdapterThrows == {"times", "udtScript"}

\* createFiberPaidHttpMiddleware: a blank server_id; the rest it asks was asked before.
MiddlewareThrows == {"serverId"}

\* createReverseProxyHandler: an upstream that is not an origin, limits that are no
\* integers.
ProxyThrows == {"origin"}

Throws == StoreThrows \cup AdapterThrows \cup MiddlewareThrows \cup ProxyThrows

\* And the port is in use.
StartDefects == Throws \cup {"portTaken"}

\* What may be wrong: FIBER_MODE, the payee's URL, the secret, a previous secret, RPC
\* auth in the file, the realm, public_base_url, the charge, a wildcard origin, an
\* operations setting out of range; upstream or charge not in the file; storage
\* without its scheme, or of another; the F-L402 key or hash; a port that does not
\* parse.
Defects == PreviousSecrets \cup StartDefects \cup
           {"mode", "payee", "secret", "auth", "realm", "url", "charge", "cors",
            "operations", "upstream", "chargeMissing", "plainPath", "storage", "fl402", "port"}

\* The options of serve override the file; only --amount does not, the charge of the
\* file goes first.
Options == {"upstream", "amount", "storage", "port", "serverId"}
Mends(o) ==
    CASE o = "upstream" -> {"upstream", "origin"}
      [] o = "amount"   -> {"chargeMissing"}
      [] o = "storage"  -> {"plainPath", "storage", "store"}
      [] o = "port"     -> {"port", "portTaken"}
      [] o = "serverId" -> {"serverId"}

ASSUME ConfigsAssumption == Configs \subseteq SUBSET Defects
ASSUME OptionsAssumption == OptionSets \subseteq SUBSET Options
ASSUME NodesAssumption == NodeStates \subseteq SUBSET Rpcs
ASSUME ChangesAssumption == MaxChanges \in Nat

Effective(c, options) == c \ UNION {Mends(o) : o \in options}

\* buildBootstrapReport, given what each command gives it: doctor passes no F-L402
\* input and no port, and the storage as it is written; serve the normalized one.
Unseen == StartDefects \cup {"fl402", "port"}
\* Mutant: the doctor does not pass the previous secrets that are too short.
DoctorBlocksLess(c) == c \ (Unseen \cup {"previousShort"}) # {}
DoctorBlocks(c) == c \ Unseen # {}
ServeBlocks(e) == e \ (StartDefects \cup {"plainPath"}) # {}

-----------------------------------------------------------------------------
\* A command on its way: the configuration it read, whether options were given, the
\* question it is at, a blocker found, and, as history, whether anything changed
\* since it began.
Command == [read : SUBSET Defects, plain : BOOLEAN, at : {"report"} \cup Rpcs,
            blocked : BOOLEAN, stale : BOOLEAN]

ASSUME NoneAssumption == None \notin Command /\ None \notin {"ready", "blocked"}

Begun(e, plain) ==
    [read |-> e, plain |-> plain, at |-> "report", blocked |-> FALSE, stale |-> FALSE]

BootstrapTypeOK ==
    /\ config \in Configs
    /\ node \in NodeStates
    /\ probe \in [{"doctor", "serve"} -> Command \cup {None}]
    /\ said \in {None, "ready", "blocked"}
    /\ proc \in {"off", "up", "draining"}
    /\ changes \in 0 .. MaxChanges

BootstrapInit ==
    /\ config \in Configs
    /\ node \in NodeStates
    /\ probe = [who \in {"doctor", "serve"} |-> None]
    /\ said = None
    /\ proc = "off"
    /\ changes = 0

\* fiberRpcRequest throws (a time-out, a status, an error in the answer), or what it
\* answers counts no ready channel or peer.
Rejected(q) == q.at \in node

\* probeFiberRpcReadiness: without node_info it asks no more, otherwise it goes on
\* to the end whatever it finds.
Last(q) == q.at = "list_channels" \/ (q.at = "node_info" /\ Rejected(q))
Blocked(q) == q.blocked \/ Rejected(q)
Asked(q) == [q EXCEPT !.at = IF @ = "node_info" THEN "list_peers" ELSE "list_channels",
                      !.blocked = Blocked(q)]

Goes(who, q) == probe' = [probe EXCEPT ![who] = q]

Report(q, verdict) == said' = IF q.stale THEN None ELSE verdict

\* doctor; its report on a gateway that runs already is left out.
Doctor ==
    /\ probe["doctor"] = None
    /\ proc = "off"
    /\ Goes("doctor", Begun(config, TRUE))
    /\ said' = None
    /\ UNCHANGED <<config, node, proc, changes>>

DoctorReports ==
    LET q == probe["doctor"] IN
    /\ q # None
    /\ q.at = "report"
    /\ IF DoctorBlocks(q.read)
       THEN Goes("doctor", None) /\ Report(q, "blocked")
       ELSE Goes("doctor", [q EXCEPT !.at = "node_info"]) /\ UNCHANGED said
    /\ UNCHANGED <<config, node, proc, changes>>

DoctorAsks ==
    LET q == probe["doctor"] IN
    /\ q # None
    /\ q.at # "report"
    /\ IF Last(q)
       THEN /\ Goes("doctor", None)
            /\ Report(q, IF Blocked(q) THEN "blocked" ELSE "ready")
       ELSE Goes("doctor", Asked(q)) /\ UNCHANGED said
    /\ UNCHANGED <<config, node, proc, changes>>

\* serve reads the configuration ...
Serve(options) ==
    /\ probe["serve"] = None
    /\ proc = "off"
    /\ Goes("serve", Begun(Effective(config, options), options = {}))
    /\ UNCHANGED <<config, node, said, proc, changes>>

\* ... resolves it, parsePort included ...
ServeReports ==
    LET q == probe["serve"] IN
    /\ q # None
    /\ q.at = "report"
    /\ Goes("serve", IF ServeBlocks(q.read) THEN None ELSE [q EXCEPT !.at = "node_info"])
    /\ UNCHANGED <<config, node, said, proc, changes>>

ServeAsks ==
    LET q == probe["serve"] IN
    /\ q # None
    /\ q.at # "report"
    /\ IF Last(q) THEN Blocked(q) /\ Goes("serve", None) ELSE Goes("serve", Asked(q))
    /\ UNCHANGED <<config, node, said, proc, changes>>

\* ... and starts, unless startGateway throws; a port in use ends the process by an error
\* event.  A doctor still on its way then is left out.
Starts ==
    LET q == probe["serve"] IN
    /\ q # None
    /\ Last(q)
    /\ ~Blocked(q)
    /\ probe' = [who \in DOMAIN probe |-> None]
    /\ proc' = IF q.read \cap StartDefects # {} THEN "off" ELSE "up"
    /\ said' = None
    /\ UNCHANGED <<config, node, changes>>

-----------------------------------------------------------------------------
(* The operator and the node; what they change while the gateway runs counts *)
(* for the next start only.                                                  *)

Change ==
    /\ proc = "off"
    /\ changes < MaxChanges
    /\ changes' = changes + 1
    /\ said' = None
    /\ probe' = [who \in DOMAIN probe |-> IF probe[who] = None THEN None
                                          ELSE [probe[who] EXCEPT !.stale = TRUE]]
    /\ UNCHANGED proc

Edit == Change /\ config' \in Configs \ {config} /\ UNCHANGED node
NodeChanges == Change /\ node' \in NodeStates \ {node} /\ UNCHANGED config

BootstrapStep ==
    \/ Doctor
    \/ DoctorReports
    \/ DoctorAsks
    \/ \E options \in OptionSets : Serve(options)
    \/ ServeReports
    \/ ServeAsks
    \/ Edit
    \/ NodeChanges

-----------------------------------------------------------------------------
\* What the doctor said of a configuration that did not change since holds of the
\* start: after "ready" only what it does not look at stops serve, an F-L402 key or a
\* port, which serve's report has, and what startGateway alone throws on; after
\* "blocked" serve starts only from a storage path without its scheme, which serve
\* completes (doctorReport, resolveGatewayConfig, assertGatewayRpcReady, startGateway).
DoctorAgrees ==
    [][LET q == probe["serve"] IN
       q # None /\ probe'["serve"] = None /\ q.plain /\ ~q.stale =>
           /\ said = "ready" /\ proc' = "off" => q.read \cap Unseen # {}
           /\ said = "blocked" /\ proc' = "up" => "plainPath" \in q.read]_<<bootstrap, proc>>
=============================================================================
