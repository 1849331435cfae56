------------------------------- MODULE Serve -------------------------------
(* The TypeScript gateway as its operator runs it (startGateway and           *)
(* installGracefulShutdown of packages/cli/src/index.ts): it starts from a    *)
(* configuration (Bootstrap), limits the rate of each client, hands requests  *)
(* to the middleware, which redeems payments in a SQLite file (StoreFiles),   *)
(* and stops on a signal, a crash or a power cut, to be started again.  The   *)
(* middleware's own steps are in module Middleware.  Time passes in ticks.    *)
EXTENDS Bootstrap, StoreFiles

CONSTANTS
    Clients,    \* remote addresses
    Observed,   \* the client whose admissions are counted
    Requests,   \* slots for requests in progress
    Second,     \* ticks in a second
    Window,     \* operations.rateLimit.windowMs, in ticks
    Max,        \* operations.rateLimit.maxRequests
    Grace       \* operations.shutdownGraceMs, in ticks

VARIABLES
    windows,    \* createRateLimiter: client -> ticks to resetAt, count
    told,       \* ticks a client was told to wait and has not yet, None when not told
    meter,      \* history: requests let in over one span of Window ticks
    req,        \* idle, being read, or the payment whose redemption it holds
    signals,    \* signals received
    grace       \* ticks to the forced exit

limiter == <<windows, told, meter>>
shutdown == <<signals, grace>>
vars == <<bootstrap, proc, files, limiter, req, shutdown>>

\* What the bootstrap report asks of these settings: at least a second, at least one.
ASSUME LimitsAssumption ==
    /\ Second \in Nat \ {0}
    /\ Window \in Nat /\ Window >= Second
    /\ Grace \in Nat /\ Grace >= Second
    /\ Max \in Nat \ {0}
ASSUME PaymentsAssumption == Payments \cap {"idle", "reading"} = {}
ASSUME ObservedAssumption == Observed \in Clients
ASSUME NotTicks == None \notin Nat

Signals == {"SIGTERM", "SIGINT"}
Running == proc # "off"

NoWindow == [left |-> 0, count |-> 0]
NothingKnown ==
    /\ windows' = [c \in Clients |-> NoWindow]
    /\ told' = [c \in Clients |-> None]
    /\ meter' = None

TypeOK ==
    /\ BootstrapTypeOK
    /\ FilesTypeOK
    /\ windows \in [Clients -> [left : 0 .. Window, count : 0 .. Max + 1]]
    /\ told \in [Clients -> Nat \cup {None}]
    /\ req \in [Requests -> {"idle", "reading"} \cup Payments]
    /\ signals \subseteq Signals
    /\ grace \in 0 .. Grace

Init ==
    /\ BootstrapInit
    /\ FilesInit
    /\ windows = [c \in Clients |-> NoWindow]
    /\ told = [c \in Clients |-> None]
    /\ meter = None
    /\ req = [r \in Requests |-> "idle"]
    /\ signals = {}
    /\ grace = 0

\* The connection to the store is not closed by the program: whether the end of the
\* process closes it is left open.
LeaveStore ==
    /\ CloseLast \/ UNCHANGED <<main, wal, hot>>
    /\ UNCHANGED <<backup, granted, losses>>

\* serve, once more: the limiter begins empty.  A start that throws has opened the store
\* before.
Start ==
    /\ Starts
    /\ IF proc' = "up" THEN UNCHANGED files ELSE LeaveStore
    /\ UNCHANGED <<limiter, req, shutdown>>

-----------------------------------------------------------------------------
(* Rate limit *)

\* Mutant: the remaining time is rounded down.
WholeSeconds(ticks) == IF ticks < Second THEN 1 ELSE ticks \div Second

\* retry-after: Math.ceil, at least one.
RetryAfter(ticks) == IF ticks < Second THEN 1 ELSE (ticks + Second - 1) \div Second

\* Mutant: a new window does not count the request that opens it.
CountedFromZero(w) ==
    IF w.left = 0 THEN [left |-> Window, count |-> 0]
    ELSE [w EXCEPT !.count = IF @ > Max THEN @ ELSE @ + 1]

\* One window a client: opened by a request, counting it and all later ones until its
\* end, the refused ones too; an entry past its resetAt is as good as none.  Above Max
\* counts are not told apart.
Counted(w) ==
    IF w.left = 0 THEN [left |-> Window, count |-> 1]
    ELSE [w EXCEPT !.count = IF @ > Max THEN @ ELSE @ + 1]

\* History: any request may be the first of the span.
Metered(admitted) ==
    IF ~admitted THEN UNCHANGED meter
    ELSE IF meter = None THEN meter' \in {None, [left |-> Window, n |-> 1]}
    ELSE meter' = [meter EXCEPT !.n = @ + 1]

\* A request that is not a health check, readiness check, metrics page or preflight and
\* whose origin is allowed; those are answered before the limiter.  One to an operations
\* path by another method than GET is counted and not refused.
Arrive(r, c, operations) ==
    LET w == Counted(windows[c])
        Allowed == w.count <= Max IN
    /\ proc = "up"
    /\ req[r] = "idle"
    /\ windows' = [windows EXCEPT ![c] = w]
    /\ req' = [req EXCEPT ![r] = IF Allowed \/ operations THEN "reading" ELSE "idle"]
    /\ told' = [told EXCEPT ![c] =
           IF Allowed \/ operations THEN None ELSE Second * RetryAfter(w.left)]
    /\ Metered(c = Observed /\ Allowed)
    /\ UNCHANGED <<bootstrap, proc, files, shutdown>>

\* A server that closes still serves what comes on a connection that was in use; whether
\* the limit lets it in is left open.
ArriveClosing(r) ==
    /\ proc = "draining"
    /\ req[r] = "idle"
    /\ req' = [req EXCEPT ![r] = "reading"]
    /\ UNCHANGED <<bootstrap, proc, files, limiter, shutdown>>

-----------------------------------------------------------------------------
(* The handler: nodeRequestToWeb and the middleware, by what they redeem *)

\* A body too large, a challenge, a refused credential, an error.
TurnAway(r) ==
    /\ req[r] = "reading"
    /\ req' = [req EXCEPT ![r] = "idle"]
    /\ UNCHANGED <<bootstrap, proc, files, limiter, shutdown>>

Consume(r, p) ==
    /\ req[r] = "reading"
    /\ Redeem(p)
    /\ req' = [req EXCEPT ![r] = p]
    /\ UNCHANGED <<bootstrap, proc, limiter, shutdown>>

\* The upstream answered, or its time-out.
Deliver(r) ==
    /\ req[r] \in Payments
    /\ req' = [req EXCEPT ![r] = "idle"]
    /\ UNCHANGED <<bootstrap, proc, files, limiter, shutdown>>

-----------------------------------------------------------------------------
(* The end of the process *)

Idle == [r \in Requests |-> "idle"]

\* The process is gone, and what it was doing.
Gone ==
    /\ proc' = "off"
    /\ req' = Idle
    /\ signals' = {}
    /\ grace' = 0
    /\ NothingKnown

\* The first signal: server.close, which takes no new connection and waits for those in
\* use, and the timer.  The counts of the limiter are not followed further.
Signal(s) ==
    /\ proc = "up"
    /\ proc' = "draining"
    /\ signals' = {s}
    /\ grace' = Grace
    /\ NothingKnown
    /\ UNCHANGED <<bootstrap, files, req>>

\* The other signal: a second close, which ends when the first does, with an error.
OtherSignal(s) ==
    /\ proc = "draining"
    /\ s \notin signals
    /\ signals' = signals \cup {s}
    /\ UNCHANGED <<bootstrap, proc, files, limiter, req, grace>>

\* The handlers were installed by process.once: the same signal again kills.
Killed(s) ==
    /\ s \in signals
    /\ Gone
    /\ UNCHANGED <<bootstrap, files>>

\* The server closed; nothing keeps the event loop alive.
Drained ==
    /\ proc = "draining"
    /\ req = Idle
    /\ Gone
    /\ LeaveStore
    /\ UNCHANGED bootstrap

\* Mutant: the timer only logs.
GraceIgnored ==
    /\ proc = "draining"
    /\ grace = 0
    /\ UNCHANGED vars

\* process.exit(1), whatever is in progress.
GraceElapsed ==
    /\ proc = "draining"
    /\ grace = 0
    /\ Gone
    /\ LeaveStore
    /\ UNCHANGED bootstrap

Crash ==
    /\ Running
    /\ Gone
    /\ UNCHANGED <<bootstrap, files>>

PowerCut ==
    /\ Running \/ wal # <<>>
    /\ probe["serve"] = None
    /\ probe' = [who \in DOMAIN probe |-> None]
    /\ said' = None
    /\ LosePower
    /\ Gone
    /\ UNCHANGED <<config, node, changes>>

\* Time passes, up to what is due.
Less(n) == IF n = 0 THEN 0 ELSE n - 1
Tick ==
    /\ Running
    /\ proc = "draining" => grace > 0
    /\ windows' = [c \in Clients |-> IF windows[c].left <= 1 THEN NoWindow
                                     ELSE [windows[c] EXCEPT !.left = @ - 1]]
    /\ told' = [c \in Clients |-> IF told[c] = None THEN None ELSE Less(told[c])]
    /\ meter' = IF meter = None \/ meter.left = 1 THEN None
                ELSE [meter EXCEPT !.left = @ - 1]
    /\ grace' = Less(grace)
    /\ UNCHANGED <<bootstrap, proc, files, req, signals>>

-----------------------------------------------------------------------------
(* The operator's storage commands *)

Store ==
    /\ \/ \E b \in Backups : Backup(b, Running)
       \/ Inspect(Running)
       \/ \E b \in Backups : ~Running /\ probe["serve"] = None /\ Restore(b)
    /\ UNCHANGED <<bootstrap, proc, limiter, req, shutdown>>

Next ==
    \/ BootstrapStep /\ UNCHANGED <<files, limiter, req, shutdown>>
    \/ Start
    \/ \E r \in Requests, c \in Clients, o \in BOOLEAN : Arrive(r, c, o)
    \/ \E r \in Requests : ArriveClosing(r) \/ TurnAway(r) \/ Deliver(r) \/ \E p \in Payments : Consume(r, p)
    \/ \E s \in Signals : Signal(s) \/ OtherSignal(s) \/ Killed(s)
    \/ Drained
    \/ GraceElapsed
    \/ Crash
    \/ PowerCut
    \/ Tick
    \/ Checkpoint /\ Running /\ UNCHANGED <<bootstrap, proc, limiter, req, shutdown>>
    \/ Store

\* The clock goes on and the event loop runs a timer that is due; nothing else is
\* assumed: a client may leave its body unfinished, an upstream its answer.
Fairness == WF_vars(Tick) /\ WF_vars(GraceElapsed)

Spec == Init /\ [][Next]_vars /\ Fairness

-----------------------------------------------------------------------------
\* A client that waits as long as its 429 told it to is let in, whatever other clients
\* do meanwhile, until the gateway is told to stop (createRateLimiter).
RetryIsAdmitted == [][\A c \in Clients : told[c] = 0 => told'[c] \in {0, None}]_vars

\* However a span of windowMs lies across the windows, it lets less than twice maxRequests
\* of a client in: the request that opens a window counts in it (createRateLimiter).
AdmissionBound == meter # None => meter.n < 2 * Max

\* A gateway that was told to stop stops, though requests in progress never end
\* (installGracefulShutdown).
ShutdownEnds == proc = "draining" ~> proc # "draining"
=============================================================================
