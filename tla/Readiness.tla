----------------------------- MODULE Readiness -----------------------------
(* Whether the evidence API (apps/evidence-api/src/index.ts) is ready, and    *)
(* who asks: the environment of the process or of a runtime bootstrap, the    *)
(* runtime made from it, the reports of earlier runs, the probes of the two   *)
(* Fiber nodes one RPC at a time, and one promise of all that cached for two  *)
(* seconds.  Time passes in ticks, of which only the age of that promise counts. *)
EXTENDS Naturals, FiniteSets

CONSTANTS
    Calls,            \* slots for calls in progress, by number
    Builds,           \* slots for builds in progress
    Nodes,            \* Fiber nodes
    ProcessEnv,       \* process.env
    Inputs,           \* bodies of POST /api/bootstrap/runtime
    Healths,          \* what a node may be: the checks that would pass
    ReportSets,       \* what the report files may say
    Injected,         \* options.fiber and options.payerFiber are given
    TTL,              \* life of the cached promise, in ticks
    None,
    MaxDisturbances   \* bound: swaps of the session, changes of a node or of the reports

ASSUME TTLAssumption == TTL \in Nat \ {0}
ASSUME BoundAssumption == MaxDisturbances \in Nat
ASSUME SlotsAssumption == Calls \subseteq Nat /\ None \notin Builds

VARIABLES
    session,    \* runtimeSession
    runtime,    \* runtime, by the environment it was made from
    cache,      \* bootstrapCache: the build and the ticks before expiresAt
    build,      \* calls of buildProductionBootstrap
    call,       \* calls of the routes that await one
    answer,     \* the answer the last step gave, if it gave one
    node,       \* the RPCs of a node that would find nothing wrong
    reports,    \* the report files
    left,       \* disturbances still to come
    era,        \* history: how often the session was replaced
    torn        \* history: the last replacement failed half way

vars == <<session, runtime, cache, build, call, answer, node, reports, left, era, torn>>

Roles == {"payer", "payee"}
Fields == {"local", "bootstrap"}
Probes == <<"info", "peers", "channels">>

-----------------------------------------------------------------------------
(* What the environment and the reports say *)

Env == [mode : BOOLEAN, run : BOOLEAN, payer : Nodes \cup {None}, payee : Nodes \cup {None},
        rpc : Nodes \cup {None}, exposed : BOOLEAN, secret : BOOLEAN]

\* mode: FIBER_MODE is local or testnet; rpc: FIBER_RPC_URL; exposed: a public RPC
\* without authorization; secret: at least 32 characters of it.
Input == [local : BOOLEAN, confirmed : BOOLEAN, auth : BOOLEAN, remote : BOOLEAN,
          payer : Nodes \cup {None}, payee : Nodes \cup {None}, live : BOOLEAN, generate : BOOLEAN]

\* None is no environment: runtimeSession is one, or undefined.
ASSUME EnvAssumption ==
    ProcessEnv \in Env /\ None \notin Env /\ Inputs \subseteq Input /\ Injected \in BOOLEAN

EffectiveEnv(s) == IF s = None THEN ProcessEnv ELSE [s EXCEPT !.rpc = ProcessEnv.rpc]
Source(s) == IF s = None THEN "env" ELSE "runtime"

Or(url, fallback) == IF url = None THEN fallback ELSE url

\* getEvidenceMode: the payer's own URL is asked for, the payee's may be the shared one.
LiveReady(e) ==
    e.mode /\ e.run /\ Or(e.payee, e.rpc) # None /\ e.payer # None /\ e.secret

RpcUrl(e, r) == Or(IF r = "payer" THEN e.payer ELSE e.payee, e.rpc)
Probed(e, r) == RpcUrl(e, r) # None /\ e.mode
RoleBlocked(e, r) == ~e.mode \/ ~e.run \/ RpcUrl(e, r) = None \/ e.exposed

\* What the two evidence files must show, and what this one does show.
TestnetRequirements == {"keys", "schema", "flags", "commit", "time", "hash", "challenge", "digest"}
BootstrapRequirements == {"schema", "transport", "roles", "gateway", "unpaid", "paid", "replay",
                          "limits", "storage"}

\* A claim is made, denied, both in different reports, or absent.
Report == [ops : BOOLEAN, testnet : SUBSET TestnetRequirements, boot : SUBSET BootstrapRequirements,
           claims : [Fields -> SUBSET BOOLEAN]]
ASSUME ReportsAssumption == ReportSets \subseteq Report /\ ReportSets # {}

Conflict(claims) == claims = BOOLEAN
Claimed(claims) == TRUE \in claims /\ ~Conflict(claims)

TestnetEvidence(p) == p.testnet = TestnetRequirements
BootstrapEvidence(p) == p.boot = BootstrapRequirements

\* deriveProductionEvidence.
LocalEvidence(p) == Claimed(p.claims["local"])
ProductionReady(p) ==
    TestnetEvidence(p) /\ p.ops /\ BootstrapEvidence(p) /\ Claimed(p.claims["bootstrap"])

GatewayBlocked(b) ==
    ~b.live \/ ~b.env.secret \/ ~b.reports.ops \/ ~TestnetEvidence(b.reports) \/ ~ProductionReady(b.reports)

-----------------------------------------------------------------------------
(* State *)

Build == [stage : {"idle", "reports", "done"} \cup {Probes[i] : i \in 1 .. 3}, role : Roles,
          env : Env, source : {"env", "runtime"}, live : BOOLEAN, reports : ReportSets,
          blocked : SUBSET Roles, age : 0 .. TTL, era : 0 .. MaxDisturbances]

Call == [build : Builds \cup {None}, era : 0 .. MaxDisturbances, stale : 0 .. TTL]

Answer == [given : BOOLEAN, ok : BOOLEAN, blockers : BOOLEAN, source : {"env", "runtime"},
           roles : {"env", "runtime"}, can : SUBSET (Roles \cup {"gateway"}),
           summary : {"env", "runtime", "unconfigured"}, runs : BOOLEAN,
           swapped : BOOLEAN, foreign : BOOLEAN, stale : 0 .. TTL]

NoCall == [build |-> None, era |-> 0, stale |-> 0]
NoBuild == [stage |-> "idle", role |-> "payer", env |-> ProcessEnv, source |-> "env", live |-> FALSE,
            reports |-> CHOOSE p \in ReportSets : TRUE, blocked |-> {}, age |-> 0, era |-> 0]
NoAnswer == [given |-> FALSE, ok |-> FALSE, blockers |-> TRUE, source |-> "env", roles |-> "env",
             can |-> {}, summary |-> "unconfigured", runs |-> FALSE, swapped |-> FALSE, foreign |-> FALSE, stale |-> 0]
NoCache == [build |-> None, left |-> 0]

Checks == {"info", "peers", "channels"}
ASSUME HealthsAssumption == Checks \in Healths

\* Nothing answers at a node that is down.
Fit(h, x) == {"info", x} \subseteq h

TypeOK ==
    /\ session \in Env \cup {None} /\ runtime \in Env \cup {None}
    /\ cache \in [build : Builds \cup {None}, left : 0 .. TTL]
    /\ build \in [Builds -> Build] /\ call \in [Calls -> Call] /\ answer \in Answer
    /\ node \in [Nodes -> Healths] /\ reports \in ReportSets
    /\ left \in 0 .. MaxDisturbances /\ era \in 0 .. MaxDisturbances /\ torn \in BOOLEAN

\* createFiberRuntime: nothing to make of an environment that is not live.
RuntimeOf(e) == IF LiveReady(e) \/ Injected THEN e ELSE None

Init ==
    /\ session = None /\ runtime = RuntimeOf(ProcessEnv) /\ cache = NoCache
    /\ build = [b \in Builds |-> NoBuild] /\ call = [c \in Calls |-> NoCall] /\ answer = NoAnswer
    /\ node = [n \in Nodes |-> Checks] /\ reports \in ReportSets
    /\ left = MaxDisturbances /\ era = 0 /\ torn = FALSE

-----------------------------------------------------------------------------
(* The cached promise *)

\* A build nobody awaits and the cache does not hold is forgotten.
Kept(b, calls, k) == b = k.build \/ \E c \in Calls : calls[c].build = b
Collect(builds, calls, k) ==
    [b \in Builds |-> IF Kept(b, calls, k) THEN builds[b] ELSE NoBuild]

AnyOf(S) == CHOOSE x \in S : TRUE
Idle(builds) == {b \in Builds : builds[b].stage = "idle"}

\* buildProductionBootstrap up to its first await.
NewBuild(s, n) ==
    [NoBuild EXCEPT !.stage = "reports", !.env = EffectiveEnv(s), !.source = Source(s),
                    !.live = LiveReady(EffectiveEnv(s)), !.era = n]

Age(b, k, builds) == IF k.left > 0 THEN builds[b].age ELSE 0

\* A plausible slip: every hit prolongs the life of the cached promise.
CachedSliding(c, s, n, k, builds) ==
    LET b == IF k.left > 0 THEN k.build ELSE AnyOf(Idle(builds)) IN
    /\ k.left = 0 => Idle(builds) # {}
    /\ call' = [call EXCEPT ![c] = [build |-> b, era |-> n, stale |-> Age(b, k, builds)]]
    /\ cache' = [build |-> b, left |-> TTL]
    /\ build' = Collect(IF k.left > 0 THEN builds ELSE [builds EXCEPT ![b] = NewBuild(s, n)], call', cache')

\* cachedProductionBootstrap for the call in slot c: the cached promise, or a new
\* one whose life is counted from its start.  Nothing in a build rejects.
Cached(c, s, n, k, builds) ==
    LET b == IF k.left > 0 THEN k.build ELSE AnyOf(Idle(builds)) IN
    /\ k.left = 0 => Idle(builds) # {}
    /\ call' = [call EXCEPT ![c] = [build |-> b, era |-> n, stale |-> Age(b, k, builds)]]
    /\ cache' = IF k.left > 0 THEN k ELSE [build |-> b, left |-> TTL]
    /\ build' = Collect(IF k.left > 0 THEN builds ELSE [builds EXCEPT ![b] = NewBuild(s, n)], call', cache')

Free(c) == call[c] = NoCall /\ \A d \in Calls : d < c => call[d] # NoCall
Disturb == left > 0 /\ left' = left - 1

\* GET /readyz, /api/bootstrap, /api/configuration, and the export.
Ask(c) ==
    /\ Free(c)
    /\ Cached(c, session, era, cache, build)
    /\ UNCHANGED <<session, runtime, node, reports, left, era, torn>>

-----------------------------------------------------------------------------
(* Runtime bootstrap *)

\* local: a loopback host and an allowed origin, or the operator's leave.
\* assertRuntimeBootstrapAllowed.
Allowed(i) == i.local /\ i.confirmed /\ (i.auth => ~i.remote)

\* normalizeRuntimeRpcUrl throws for a URL that is missing or not http(s).
Given(url) == url # None

\* buildRuntimeBootstrapSession: the URLs are required, the secret comes from the
\* process or is generated if asked for.
Buildable(i) == Given(i.payer) /\ Given(i.payee) /\ (ProcessEnv.secret \/ i.generate)
SessionOf(i) ==
    [mode |-> TRUE, run |-> i.live, payer |-> i.payer, payee |-> i.payee, rpc |-> None,
     exposed |-> i.remote /\ ~i.auth, secret |-> TRUE]

\* A plausible slip: the cached promise of the replaced session stays.
SwapKeepsCache(c, s, opens) ==
    /\ session' = s /\ era' = era + 1 /\ torn' = ~opens
    /\ IF opens
       THEN /\ runtime' = RuntimeOf(EffectiveEnv(s))
            /\ Cached(c, s, era + 1, cache, build)
       ELSE /\ UNCHANGED <<runtime, call>>
            /\ cache' = NoCache /\ build' = Collect(build, call, NoCache)

\* A plausible slip: the runtime is made before the session is replaced.
SwapRuntimeFirst(c, s, opens) ==
    /\ session' = s /\ era' = era + 1 /\ torn' = ~opens
    /\ IF opens
       THEN /\ runtime' = RuntimeOf(EffectiveEnv(session))
            /\ Cached(c, s, era + 1, NoCache, build)
       ELSE /\ UNCHANGED <<runtime, call>>
            /\ cache' = NoCache /\ build' = Collect(build, call, NoCache)

\* The session is replaced, the cache emptied and the runtime made anew, up to the
\* await of a first bootstrap.  When createFiberRuntime throws (its store does not
\* open) the old runtime stays under the new session.
Swap(c, s, opens) ==
    /\ session' = s /\ era' = era + 1 /\ torn' = ~opens
    /\ IF opens
       THEN /\ runtime' = RuntimeOf(EffectiveEnv(s))
            /\ Cached(c, s, era + 1, NoCache, build)
       ELSE /\ UNCHANGED <<runtime, call>>
            /\ cache' = NoCache /\ build' = Collect(build, call, NoCache)

\* Only a runtime that is made opens a store.
Opens(s) == IF RuntimeOf(EffectiveEnv(s)) = None THEN {TRUE} ELSE BOOLEAN

\* A body that is refused (403, 400) changes nothing.
Apply(c, i) ==
    /\ Free(c) /\ Disturb /\ Allowed(i) /\ Buildable(i)
    /\ \E opens \in Opens(SessionOf(i)) : Swap(c, SessionOf(i), opens)
    /\ UNCHANGED <<node, reports>>

Reset(c) ==
    /\ Free(c) /\ Disturb
    /\ \E opens \in Opens(None) : Swap(c, None, opens)
    /\ UNCHANGED <<node, reports>>

-----------------------------------------------------------------------------
(* A build goes on *)

Next1(b, r) ==
    IF r = "payer" /\ Probed(b.env, "payee") THEN [b EXCEPT !.stage = "info", !.role = "payee"]
    ELSE [b EXCEPT !.stage = "done"]

Block(b, r, bad) == IF bad THEN [b EXCEPT !.blocked = @ \cup {r}] ELSE b

\* The reports are read, and the roles that need no node are decided.
ReadReports(b) ==
    /\ build[b].stage = "reports"
    /\ LET e == build[b].env
           known == [build[b] EXCEPT !.reports = reports,
                                     !.blocked = {r \in Roles : RoleBlocked(e, r)}]
       IN build' = [build EXCEPT ![b] = IF Probed(e, "payer") THEN [known EXCEPT !.stage = "info"]
                                        ELSE Next1(known, "payer")]
    /\ UNCHANGED <<session, runtime, cache, call, node, reports, left, era, torn>>

\* probeFiberNode: node_info, list_peers and list_channels in turn, each with a
\* time-out of its own; the first failure of node_info ends the probe.
Probe(b, i) ==
    /\ build[b].stage = Probes[i]
    /\ LET r == build[b].role
           n == RpcUrl(build[b].env, r)
           bad == ~Fit(node[n], Probes[i])
           seen == Block(build[b], r, bad)
       IN build' = [build EXCEPT ![b] = IF i = 3 \/ (i = 1 /\ bad) THEN Next1(seen, r)
                                        ELSE [seen EXCEPT !.stage = Probes[i + 1]]]
    /\ UNCHANGED <<session, runtime, cache, call, node, reports, left, era, torn>>

-----------------------------------------------------------------------------
(* Answers *)

RoleReady(b, r) == IF r = "gateway" THEN ~GatewayBlocked(b) ELSE r \notin b.blocked
AllReady(b) == \A r \in Roles \cup {"gateway"} : RoleReady(b, r)

\* evidence, or blocked: what a role that is not ready is shown as.
Status(b, r) ==
    IF RoleReady(b, r) THEN "ready"
    ELSE IF r = "gateway" /\ ProductionReady(b.reports) THEN "evidence"
    ELSE IF r # "gateway" /\ (TestnetEvidence(b.reports) \/ LocalEvidence(b.reports)) THEN "evidence"
    ELSE "blocked"

\* buildProfilesForRole: the executable profile first, recorded evidence after it.
Profiles(b, r) ==
    {[id |-> b.source, status |-> Status(b, r)]}
    \cup (IF TestnetEvidence(b.reports) \/ LocalEvidence(b.reports)
          THEN {[id |-> "evidence", status |-> "evidence"]} ELSE {})

\* buildExecutionRoleCapabilities for the first profile of each role.
Capable(b) == {r \in Roles \cup {"gateway"} :
                 Injected \/ \E p \in Profiles(b, r) : p.id = b.source /\ p.status = "ready"}

\* runtimeBootstrapSummary, of the session and not of the build.
Summary(s) ==
    IF s # None THEN "runtime" ELSE IF LiveReady(ProcessEnv) THEN "env" ELSE "unconfigured"

\* buildEvidenceConfiguration takes a build, and the session of its own instant.
Configuration(b, s) == [roles |-> b.source, can |-> Capable(b), summary |-> Summary(s)]

\* What a route says once its build is done: the roles are those of the build, while
\* source and mode are those of the session and the environment of that instant.
Respond(c) ==
    LET q == call[c]
        b == build[q.build]
        roleBlockers == ~AllReady(b)
        configuration == Configuration(b, session)
    IN
    /\ q # NoCall /\ b.stage = "done"
    /\ answer' = [given |-> TRUE,
                  ok |-> b.live /\ AllReady(b),
                  blockers |-> roleBlockers \/ ~LiveReady(EffectiveEnv(session)),
                  source |-> Source(session), roles |-> configuration.roles,
                  can |-> configuration.can, summary |-> configuration.summary,
                  runs |-> runtime # None /\ runtime = EffectiveEnv(session),
                  swapped |-> q.era # era, foreign |-> b.era # q.era,
                  stale |-> q.stale]
    /\ call' = [call EXCEPT ![c] = NoCall]
    /\ build' = Collect(build, call', cache)
    /\ UNCHANGED <<session, runtime, cache, node, reports, left, era, torn>>

-----------------------------------------------------------------------------
(* The world *)

NodeChanges(n) ==
    /\ Disturb
    /\ \E h \in Healths \ {node[n]} : node' = [node EXCEPT ![n] = h]
    /\ UNCHANGED <<session, runtime, cache, build, call, reports, era, torn>>

ReportsChange ==
    /\ Disturb
    /\ reports' \in ReportSets \ {reports}
    /\ UNCHANGED <<session, runtime, cache, build, call, node, era, torn>>

\* The cached promise grows older; one that has expired is as good as none.
Tick ==
    /\ cache.left > 0
    /\ cache' = IF cache.left = 1 THEN NoCache ELSE [cache EXCEPT !.left = @ - 1]
    /\ LET older == [build EXCEPT ![cache.build].age = IF @ < TTL THEN @ + 1 ELSE @]
       IN build' = Collect(older, call, cache')
    /\ UNCHANGED <<session, runtime, call, node, reports, left, era, torn>>

Silent ==
    \/ \E c \in Calls : Ask(c) \/ Reset(c) \/ \E i \in Inputs : Apply(c, i)
    \/ \E b \in Builds : ReadReports(b) \/ \E i \in 1 .. 3 : Probe(b, i)
    \/ \E n \in Nodes : NodeChanges(n)
    \/ ReportsChange
    \/ Tick

Next ==
    \/ Silent /\ answer' = NoAnswer
    \/ \E c \in Calls : Respond(c)

Spec == Init /\ [][Next]_vars

-----------------------------------------------------------------------------
(* Properties *)

\* The cached promise is that of a build under the present session, and it is kept for
\* the rest of its life and no longer.
CacheHolds ==
    /\ TypeOK
    /\ cache.build # None =>
          LET b == build[cache.build] IN
          b.stage # "idle" /\ b.era = era /\ b.source = Source(session) /\ b.age + cache.left = TTL

\* Nobody is answered from a build that was begun before the session he asked
\* under, or more than the life of the cache before he asked.
AnswerIsFresh == answer.given => ~answer.foreign /\ answer.stale < TTL

\* An answer during whose wait no session was replaced speaks of one deployment: its
\* roles are of the session it names, it is ready exactly when it has no blocker and
\* every role can act (with injected adapters every role can, ready or not), and a
\* ready deployment has the runtime of that session unless the last replacement failed
\* half way.
AnswerIsWhole ==
    answer.given /\ ~answer.swapped =>
        /\ answer.source = answer.roles
        /\ answer.ok <=> ~answer.blockers
        /\ Injected \/ (answer.ok <=> answer.can = Roles \cup {"gateway"})
        /\ answer.ok => answer.summary = answer.source /\ (answer.runs \/ torn)
=============================================================================
