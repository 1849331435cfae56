# Verification of Fiber Paid HTTP

TLA+ modules, TLC configurations and TLAPS proofs for the payment gateway of this
repository: a reverse proxy that asks for a payment over the Fiber network before it
calls a protected HTTP service, and sells exactly one call per payment; the operator's
commands around it; and the evidence application that demonstrates it.

Run a check with `tlc -workers 2 -config <X>.cfg <M>.tla`, the proofs with
`tlapm <M>_proofs.tla`. `PROJECT.json` lists the runs,
the mutants each property was seen to catch, the source lines each definition stands
for, the hazards and the theorems.

## The system

A client asks for a resource and is answered `402` with a *challenge*: an HMAC-bound
identifier, an expiry, and a Fiber invoice. It pays the invoice and repeats the request
with a *credential* that echoes the challenge (`Authorization: Payment`) or with an
F-L402 capability and preimage (`Authorization: L402`). The gateway checks the credential
against the stored challenge, waits for the invoice to settle at the payee's node,
*redeems* the challenge in one SQLite transaction, calls the upstream service, records a
*delivery outcome* and, for a 2xx, answers with a *receipt*.

### Inventory

| Component | State | Operations | What makes it correct |
|---|---|---|---|
| Rust gateway, `crates/fiber-paid-http-server` | configuration (immutable per process), one task per request, runtime counters and a rate window under a mutex, the store under a mutex | `handle_gateway_request`: rate limit, body limit, `credential_from_authorization`, `verify_credential`, `issue_challenge`, upstream call, `finish_upstream`; health, readiness, metrics; start, graceful shutdown | one delivery per payment, no delivery without settlement, outcome and receipt agree with what the service did, no second charge for a payment that can still be honoured |
| Rust store, `crates/fiber-paid-http-storage` | five SQLite tables | `open` (fails closed on another schema), `save_challenge`, `get_challenge`, `consume_redemption`, `save_delivery_outcome`, `save_receipt`, `readiness` | the tables agree at every instant; rows are immutable |
| Rust Fiber client, `crates/fiber-paid-http-fiber` | none | `new_invoice`, `get_invoice`, `wait_for_invoice_paid_with` | a settled payment is seen before the deadline gives up |
| Canonical core, `crates/fiber-paid-http-core`, `packages/core` | none | canonical JSON, challenge binding, credential and charge validation, resource descriptors | both languages accept and bind the same things |
| F-L402, F402 and x402 adapters, `packages/*-compat` (and `crates/*-fl402`, `*-f402`, `*-x402`) | none of their own: capabilities and converted charges live with the payer, the challenges in the store | capability issue and verification, `mppChallengeToF402Body` and back, `fiberChargeToX402Requirements` and back | every entrance ends in one redemption table, so a payment that may enter by four doors buys one response, of what it was sold; a payer that returns by the door it was shown is let in |
| TypeScript middleware, `packages/server-middleware` | the store; one promise chain per request | `protect`: the same life cycle, with awaited store calls, an observation saved between the redemption and the delivery, and a catch around the delivery | as for the gateway |
| TypeScript store, `packages/storage` | memory, or the same SQLite schema | as for the Rust store, plus payment observations | as for the Rust store |
| TypeScript Fiber method and client, `packages/fiber-method`, `packages/client` | a JSON-RPC request counter | `createChargeRequest`, `payCharge`, `verifyPayload`, `paidFetch` | the payer pays once, for what it asked |
| TypeScript gateway process, `packages/cli/src/index.ts` | rate windows per address, timers, the process | `startGateway`, `createRateLimiter`, `installGracefulShutdown` | who waited as told is let in; the limit holds over any span of time; a gateway told to stop stops |
| Operator bootstrap, `packages/cli/src/bootstrap.ts` | the configuration file, the environment | `resolveGatewayConfig`, `buildBootstrapReport`, `probeFiberRpcReadiness`, behind `serve` and `doctor` | the doctor's word holds of the start, but for what it does not look at |
| Store files, `packages/storage`, the `storage` command | main file, -wal file, backups | open, commit, checkpoint, backup, restore, check, exports | the file remembers each redemption through crashes and commands; a backup has all of them |
| Evidence API, flow: `apps/evidence-api/src/index.ts` | at most 16 flow objects, by session, least recently used evicted; the runtime (middleware and payer's node) | `unpaid`, `pay`, `continue`, `replay`, `reset`, `status`, the runtime bootstrap | a flow never claims what did not happen, whatever two routes of one flow do to each other |
| Evidence API, readiness: the same file | the runtime session, the runtime, a promise of the bootstrap cached for two seconds, report files | `buildProductionBootstrap`, `getCachedProductionBootstrap`, the runtime bootstrap and reset | an answer speaks of one deployment, the present one |
| Evidence API, tournament | a flow's tournament object, the middleware's store, a SQLite ledger | Battlecode tournament over paid HTTP, prize payments | no lost ledger entry, no unearned prize |
| Evidence console, `apps/evidence-web/src/state/EvidenceContext.tsx` | the flow shown, a phase, `busy` and `refreshing`, running functions with what their closures remember | the four actions, clear, select, apply, refresh, the request time-out | the screen claims nothing that did not happen; its requests do not overlap |
| Client commands and vectors (`packages/cli/src/vectors.ts`, `crates/fiber-paid-http-cli`), web server, `scripts`, `deploy`, `examples` | none, or a local network | one-shot commands, static files, gates | out of scope |

The external parties are the payee's Fiber node (mints invoices under fresh payment
hashes, moves them Open, Received, Paid or Cancelled or Expired), the payer, and the
protected service (executes a request it received, whether or not the gateway waits).

Components interact by calls: the gateway calls the store under a mutex, never across
an await; it calls the node and the service by HTTP, awaiting. The store is the only
state that survives a restart.

### What is hard here

* many handlers race over one challenge, and each looked at the challenge row long
  before it redeems it: between the two it waits for the settlement;
* a handler is a future that is *dropped* at an await when its client disconnects, and
  that dies with the process; nothing resumes it;
* an expiry or a secret rotation falls into that wait;
* the service may complete after the gateway stopped waiting for it;
* the store may fail after the redemption committed, and after the outcome was recorded;
* the routes of the evidence API share one flow per session and one ledger: what a route
  read before an await may have been replaced, or written over, after it;
* the console gives a request up after a time-out while the server goes on with it, and
  answers, refreshes and resets come back in any order;
* a runtime bootstrap swaps session, runtime and cache while builds of the old one run;
* one payment may enter by four doors, with credentials that differ, over challenges an
  application translated and saved itself, across restarts with rotated secrets;
* commits are in a -wal file that a copy, a power cut or a leftover from a crash can lose or
  resurrect;
* two commands judge one configuration from different inputs.

## Modules

| Module | Models | Notes |
|---|---|---|
| `Gateway` | Rust gateway, Rust store, the settlement poll | the detailed specification: one action per atomic step of a handler, faults, environment, properties, refinement mapping |
| `PaidDelivery` | what the gateway promises | abstract specification: settle, redeem, execute, deliver or fail, receipt, per payment |
| `GatewayInv` | (proof) | the inductive invariant `IInv`, checked by TLC and used by the proofs |
| `Middleware` | TypeScript middleware and store | the same life cycle with its own store calls, observation and catch; the same refinement mapping target |
| `MCMiddleware` | (TLC) | its instances |
| `Poll` | the settlement polls of both languages, against the clock | one poll: reads, sleeps, a deadline; used twice by `Settlement` |
| `Settlement` | one `paidFetch` call against the clock, with either gateway | expiries, time-outs and rounding, which `Gateway` and `Middleware` abstract |
| `MCSettlement` | (TLC) | its instance |
| `Tournament` | the Battlecode tournament of the evidence API | five routes over one flow per session, the ledger, the prize |
| `MCTournament` | (TLC) | its instance |
| `Tournament_proofs` | (TLAPS) | types, tickets, matches, prizes and the ledger |
| `EvidenceFlow` | the flow routes of the evidence API and the runtime bootstrap | one action per stretch of a route between two awaits |
| `Console` | the browser console over `EvidenceFlow` | EXTENDS it: the tab's functions as jobs, and strangers |
| `Readiness` | the readiness of the evidence API | session, runtime, cached promise, probes, reports |
| `Bootstrap` | `serve` and `doctor` | a configuration by its defects, two commands and a probe that interleave |
| `StoreFiles` | the SQLite store as files, and the storage commands | main, wal, backups; crash, power cut, restore |
| `Serve` | the TypeScript gateway process | EXTENDS `Bootstrap` and `StoreFiles`: rate limit, requests, signals, shutdown, restart |
| `Serve_proofs` | (TLAPS) | redemptions against losses, complete backups, what the doctor knows, both promises of the rate limiter |
| `Entrances` | the middleware's four entrances: Payment, F-L402, F402, x402 | the conversions as operators, the store, rotation, races |
| `MCConsole`, `MCReadiness`, `MCServe`, `MCEntrances` | (TLC) | their instances |
| `MCGateway` | (TLC) | instances, symmetry, the configurations an operator may rotate between |
| `Gateway_proofs` | (TLAPS) | `IInv` is inductive; the safety and action properties follow; `Gateway` implements `PaidDelivery`, and what that promise gives a reader |
| `Middleware_proofs` | (TLAPS) | the same for `Middleware`; then the four entrances of `Entrances` |
| `Console_proofs` | (TLAPS) | the flows of `EvidenceFlow` and the tab of `Console` |
| `Readiness_proofs` | (TLAPS) | the cached promise, fresh and whole answers |
| `Poll_proofs` | (TLAPS) | a poll ends in time and sees a timely settlement |
| `Settlement_proofs` | (TLAPS) | so does the call made of two of them |

### How Gateway corresponds to the code

A handler is a request `r` with a `stage`. The handler's code runs without interruption
between two awaits except for store calls of other handlers, so an action is either one
store call with the code around it, or the code up to an await. The stages are the
places where another handler, a disconnect or a crash can come in:

`idle` -> (`Arrive`: decode the credential and run the checks of `verify_credential` that
precede `verify_paid`; they read one immutable row) -> `polling` -> (`PollPaid`,
`PollRejects`, or `PollPending` to `pending`) -> `settled` -> (`ConsumeRedemption`, the transaction) ->
`consumed` -> (`CallUpstream`) -> `upstream` -> (`UpstreamAnswers`, `UpstreamFails`) ->
`ok`, `refused` or `error` -> (`SaveDelivery`) -> `receipting` -> (`SaveReceipt`) -> `done`;
and from `idle` or a failed check `issuing` -> (`CreateCharge`) -> `invoiced` ->
(`SaveChallenge`) -> `done`.

In `pending` the loop looks at an answer that said Open or Received and may be stale by then: it
asks again (`PollAgain`) or, its deadline past, gives up (`PollFails`), even if the invoice was paid
meanwhile. From `polling` it gives up when the RPC fails.

The tables are variables under the names of their columns. A challenge identifier is
modelled by what it binds that matters here, the payment hash, the secret and the
invoice currency: an HMAC over them. A credential has a source, because the
`credential_hash` depends on it and the same payment may be redeemed through either
scheme. The L402 scheme needs the preimage, which exists for the payer once the invoice
is settled.

Time is abstracted to the set of `expired` challenges, which may grow at any moment,
and timeouts to their nondeterministic firing.

Faults are a constant: `drop` (the handler's future is dropped at an await), `crash` (the
process dies or its shutdown grace elapses; another configuration may start), `store` (a
store call fails and rolls back), `rpc` (a Fiber RPC fails), `insert` (the INSERT into
`redemptions` fails for another reason than a duplicate; the store answers "not consumed"
and the gateway takes it for a replay).

### How Middleware corresponds to the code

A request is a promise chain with a `stage`, as in `Gateway`; an action is one store call, or
the code between two awaits of the node, the store or the route handler. What differs:

* a chain is not dropped when its client leaves: the abort reaches the route handler, whose
  rejection the catch records (`HandlerThrows`, `SaveFailure`);
* `verifyPayload` tests its deadline before the read, so its timeout may fire whatever the
  invoice's status (`PollFails` is enabled all through `polling`);
* `consumeRedemption` turns every error inside its transaction into `false`, so `ConsumeFails`
  goes on to a fresh challenge, or rejects when BEGIN itself failed;
* `savePaymentObservation` stands between the redemption and the try of the delivery
  (`redeemed` -> `SaveObservation` -> `consumed`; `SaveObservationFails` ends the chain);
* the try covers the handler, `saveDeliveryOutcome` and `saveReceipt`; its catch replaces the
  outcome by `failed` (`failing` -> `SaveFailure`). An outcome is therefore not final before
  the receipt is saved, and the refinement mapping takes `receipts`, not the column
  `status`, for what was delivered.

A challenge is identified with its payment hash: `issueChallenge` mints one invoice per
challenge. Secrets and the L402 entrance are left out; `Gateway` has them. Store
failures are counted against the bound `MaxStoreFailures`.

### How Poll and Settlement correspond to the code

`Poll` is one execution of `wait_for_invoice_paid_with`, `waitForFiberPaymentSuccess` or
`waitForFiberInvoicePaid`. A read (`Begin`, `Wake`) is under way while `phase` is `reading`; the
node answers at one instant of it (`NodeAnswers`) and the answer arrives at a later one
(`Receive`), so an answer may be stale when it is looked at. The Rust loop tests its
deadline between an answer and the sleep (`reads_first`), the TypeScript loops between the
sleep and the read. The three verdicts other than `paid` are the errors of the loops.

`Settlement` follows one call of `paidFetch` through `call`: `start`, then at the gateway `binding`
(the challenge is dated) and `minting` (`new_invoice`), `challenged` on the way back,
`authorizing`, `parsing`, `sending` and `paying` at the payer, `retrying` on the way, `verifying` at the
gateway, whose verdict is `redeemed`, `refused` or `error`; then `serving` while the service works on
a redeemed call, or `recharging` while a refused one gets the invoice of its fresh 402; `answering` on the
way back; and one of `returned` and `failed`. The payer's poll is
`Payer == INSTANCE Poll`, the gateway's `Payee == INSTANCE Poll`; what they read is derived
from the two nodes' records. Which gateway it is decides how the poll tests its deadline
and what `expiry` is asked of the node: the floored seconds left in Rust
(`expiry_seconds_from_now`), the whole time to live in TypeScript.

A service behind either reverse proxy is given up after `ServiceTimeout` (`proxied`); a handler of the
TypeScript middleware's own has no time-out, so `ServiceReturns` may never come, and `CallIsBounded` and
`CallEnds` except the call it keeps (`Unbounded`). `Tolerated` is the clock skew the TypeScript gateway
grants after the expiry (`clockSkewSeconds`); the Rust gateway grants none. The client sets no time-out on
its requests: that the network takes at most `MaxTravel` ticks is an assumption of the model.

The clock is `now`, in ticks; expiries are compared in ticks and invoices live for whole
`Second`s, counted by a node whose clock is `skew` ticks ahead. A timer fires on the tick it
is due: a tick is taken to be longer than the scheduler's delays.

### How Tournament corresponds to the code

A handler is one call of a tournament route. `at` is where it awaits: `locking` and
`locking_write` (`createBattlecodeSubmission` appending the submission), `locked` (back in the
route); `found` and `challenging` (`register/unpaid`: the manifest, then the middleware);
`paying` (`register/pay`); `claiming`, `redeemed`, `recording` and `recording_write`
(`register/claim`: the middleware, the ticket, its append); `playing`, `prize`, `reporting` and
`reporting_write` (`match/run`: the engine, the payout, the append).

`flow.tournament` is a JavaScript object shared by reference. The submission and registration
routes replace it; the pay and claim routes took it before their await and write into the one
they took. The model keeps the object by value in `flow` and, for each handler, whether the
one it took is still the flow's (`current`): a replacement or a reset clears it (`Detached`), and
a write into an object nobody can reach any more changes nothing. `register/unpaid` is
different: after its await it writes into `flow.tournament` as it finds it (`StoreChallenge`).

A registration is identified with the submission it names, a challenge with its payment hash;
`bound_to` is the digest of the body the challenge was issued for. `Accepts` is what
`verifyCredential` demands of the credential, and `Redeem` the outcome of the whole middleware
life cycle, which `Middleware` has in detail. `tickets`, `matches` and `prizes` are history: what was
issued, played and paid, whether the ledger has it or not.

The ledger is appended to by `readBattlecodeLedger`, a push and `writeBattlecodeLedger`: two
transactions with awaits around them (`ReadLedger`, `WriteLedger`).

### How EvidenceFlow and Console correspond to the code

A request occupies a slot of `call`, with `pc` the await it stands at: `body` (readJson),
`hash` (the charge's digest), `issue` (the middleware's 402), `pay` (`payCharge`), `present` and
`presented` (the middleware with the credential, before and after its redemption),
`bootstrap`. Flows are JavaScript objects: `flows` is the Map in its order of use, `flow` the
objects, and a route keeps the object it took (`fid`) though the map may evict or replace it.
The middleware appears by its verdicts, external to these modules: `Redeemable` is what
`verifyCredential` demands; what happens after the redemption is `Middleware`'s matter. The route
`status` reads and serialises in one step. A `body` is a flag: whether the protected resource answered
the unpaid request, with a challenge or, without a runtime, with a 503. Resource hash, profile and
parameters are left out: no property depends on them. `ProtectThrows` is a middleware that throws out of
the route (no invoice, a failing store), which writes nothing.

The console's functions are jobs (`runAction`, `clearLog`, `selectResource`, the runtime form's
apply, `refresh`). `latest` and the phase a function holds are those of its closure, not of the
screen. A request is on its way (`stage` `send`, or `resend` for the second one of a guided payment) until
it reaches the server (`Arrive`). `Timeout` is `requestJson`'s abort, at any moment of it: the tab
stops waiting; a request the server works on goes on there, and one still on its way is `lost` to the tab
and may reach the server later, beside what the tab sends next, or never (`ArriveLate`). Only
`runAction` and the runtime form ask for `busy`; clearing the log, selecting a resource and refreshing do
not. `strayed` records what `busy` does not order: a request given up, a function that does not ask, a
bootstrap from another tab. The flow mode is not a variable: the user may switch it between two actions, so
every action is offered and a payment ends as either mode ends it. An action's answer and the status
read after it are one step (`ActionAnswered`); the status of a refresh is a request of its own.
`Stranger` is another session; a script or second tab on the same session, exports, copies, personas and
preferences are left out.

### How Readiness corresponds to the code

`build` is one run of `buildProductionBootstrap` with what it captured (environment, source,
reports, the role and RPC it probes); `cache` the promise and its time to live; `call` a route
that awaits a build. `Ask`, `Apply` and `Reset` are the routes, `ReadReports` and `Probe` the awaits
inside a build, `Respond` the answer. Time only ages the cached promise, two ticks standing
for its 2 s. Evidence files are sets of requirements met, claims the set of values the
reports give. A refused body changes nothing; nothing inside a build rejects. A bootstrap that
fails after it stored the session leaves the new session over the old runtime: `torn`. The
router, the public RPC and the authorization checks are the one flag `exposed`. `answer` holds
only the last step's answer. `Injected` says whether the nodes were given as options: then a route
can always act, whether or not its answer says ready, and `AnswerIsWhole` makes the exception.

### How Bootstrap, StoreFiles and Serve correspond to the code

A configuration is the set of its `Defects`, one per blocker the report can name.
`resolveGatewayConfig` lets options override the file (`Mends`, `Effective`) and builds its report
from the result (`ServeBlocks`); `doctorReport` builds its own from fewer inputs (`DoctorBlocks`,
`Unseen`). Both then ask the node `node_info`, `list_peers` and `list_channels`, one await each, while
the operator edits and the node changes (`Change`). `Starts` is `startGateway`, which finds what neither
report looked at (`StartDefects`): a store that does not open or has another schema, settlement times
and a UDT script that `FiberMethodAdapter.fromEnv` refuses, a blank `server_id`, an upstream that is not an
origin, a port in use.

`StoreFiles` has the redemptions in the `main` file, the `wal` in commit order, whether a -wal
file with frames lies beside it (`hot`), and the backups. A commit goes to the wal
(`Redeem`), a checkpoint or the last connection's close moves it (`Checkpoint`, `CloseLast`), a crash
leaves it to recovery, a power cut may take its tail (`synchronous = NORMAL`). `Backup` is `VACUUM
INTO`; `Restore` is `copyFile` over the main file of a stopped gateway: that it is stopped is the
docs' duty on the operator, which no code enforces. A -wal file left by a crash is then
applied to the restored file; what comes of it is any subset of both.

`Serve` has one request per slot, reduced to what it redeems: `Arrive` (the rate limit),
`ArriveClosing` (on a connection still in use when the server closes; the counts of the limiter are not
followed further then), `TurnAway`, `Consume`, `Deliver`; the middleware's steps are `Middleware`'s. `Signal` begins the drain,
`OtherSignal` adds a second close, which fails without effect, and `Killed` is the same signal
again, after its `once` handler is gone. `Drained` and `GraceElapsed` end the process; whether its
store is closed on the way is left open (`LeaveStore`). Time passes in ticks, of which `Second`
make a second. `told` is what a 429 told a client, `meter` a span of `Window` ticks begun at any
admitted request. Metrics, CORS headers, `readyz` (the doctor's probe again), logging, and the
answers given before the limiter are left out; a request to an operations path by another
method than GET is counted and not refused.

### How Entrances corresponds to the code

An invoice stands for its address, amount, network and payment hash, in one writing; `TermsOf` gives what
else it says (hash algorithm, currency, UDT type script, expiry), which a charge repeats or leaves out, and
`InvoiceMatches` is `assertInvoiceMatches` of the charge against the node's record of it. A
challenge stands for its identifier: `Bind` makes it from what `bindChallengeId` covers, and it
covers neither the description nor the resource's URL, which only the stored record has; two
charges that differ in nothing else share an identifier and INSERT OR IGNORE keeps the first.
`F402Body`, `F402Charge`, `X402Requirements`, `X402Charge` and `L402Charge` do to the fields of a charge what
the adapters do: drop the recipient, the description, lower the currency, and, by way of F402 and F-L402,
drop the UDT type script and what the charge said of the invoice. `Translate` is an
application in front of the middleware, which saves the charge it converted back, as
`tests/integration/full-flow.test.ts` does; that saving is external. `Present` is
`verifyCredential` up to the settlement, `Consume` the transaction: between the two, other
verifications, restarts and the clock. The clock does not go back, so the `issuedAt` check always
holds. Header syntax and the x402 settle response are left out, and so is the letter case of
hashes (`assertInvoiceMatches` ignores it, the UNIQUE index and the F402 and x402 comparisons do
not; the node writes them in one case). The names of this module differ from `Middleware`'s
(`EntrancesSpec`, `rows`, `Offers`, `Absent`), because one proof module extends both.

## Runs

| Run | Instance | Shows |
|---|---|---|
| `gateway_faults` | 3 requests, 2 invoices, 2 resources, 2 secrets, 2 currencies, 4 configurations, all faults | `IInv`; redemption, delivery, ledger and receipt safety; a dropped secret redeems nothing; history is append-only; every step is a step of `PaidDelivery` |
| `gateway_liveness` | 3 requests, 2 invoices, F-L402 enabled, disconnects and crashes, fair handlers | every request is answered, unless its client left or the process died; a payment that is settled when a read of its poll is answered is redeemed; a payer who can still be honoured is not charged again |
| `gateway_abandoned` | 3 requests, disconnects only | a violation, see Findings |
| `gateway_insert` | 3 requests, failing INSERTs | a violation, see Findings |
| `middleware_faults` | 3 requests, 2 invoices, 2 resources, crashes, one failing store call | tables that agree, outcomes that agree with the answers, no forgotten failure, every step a step of `PaidDelivery` |
| `settlement` | one call, either gateway, a service with a time-out of 3 ticks or without one, times to live of 1 and 2 seconds of 2 ticks, a node clock a tick behind or ahead, a tick of tolerated skew | who paid in time is not asked again; the polls see timely settlements; the call comes back, within its bound, unless a handler without a time-out keeps it; the invoice ends with its challenge |
| `tournament` | one session, 2 handlers, 2 submissions, 2 challenges, 2 tickets, a match | every ticket was paid for once, a match is played by the bot its ticket was issued for, prizes are won and recorded with their match, a row is lost only to an overtaken writer |
| `tournament_durable` | the same | a violation, see Findings |
| `console` | 3 sessions over a map of 2 flows, 2 challenges, 2 runtimes, 2 requests at once, in transit or on the server, 2 disturbances | a flow and the screen claim nothing that did not happen; requests of one flow that came one at a time leave it coherent; sessions stay apart; only what ignores `busy`, or was given up, lets a tab's requests overlap |
| `readiness` | 2 nodes in 3 states, 3 bodies, 2 sets of reports, 2 callers, 3 builds, a cache of 2 ticks, 2 disturbances | the cached promise is of the present session and no older than its life; no answer from before a replaced session; an answer speaks of one deployment |
| `operations` | 6 configurations, 3 node states, 2 clients, 1 request, 1 payment, 1 backup, 1 loss, seconds of 2 ticks, a window of 3 ticks for 2 requests | waiting clients are let in, the limit over any span, one redemption per payment and loss, complete backups, the doctor agrees with the start but for what it does not look at, shutdown ends |
| `entrances` | 3 resources (one protected by the middleware itself, one with a body), 1 invoice, of either hash algorithm or for a UDT, 2 translations, 2 verifications side by side, 1 rotation, 3 moments | one response per payment, of what its challenge binds, and a payer who returns is let in, unless the translation of its charge lost what the invoice needs |

Bounds. A payment needs one request to be issued and one to be redeemed; a race needs
two redeeming requests, so three requests are one that issues and two that race, over two
resources. A third hash would only be a further spare invoice. Requests, hashes and
resources are interchangeable, and the safety runs use that symmetry; the liveness run
does not. The rotation run begins with F-L402 enabled and may rotate it away; the proofs have any
configurations and any number of requests. The challenge identifiers range over all hash, secret and
currency combinations. In the middleware a single failing store call is what a property of the
catch can tolerate, since the catch itself stores. With two, `RecordMatchesAnswer` does not hold:
the receipt fails, then the catch does, and a delivered outcome stays beside an error.

In `Settlement` both polls have a timeout of two ticks and an interval of one, and an RPC
may take one: enough for a poll that reads three times, for a challenge that expires
in any stage of the call (the shortest lives two ticks, the call up to two dozen), and for
an answer that is stale by a tick. A service time-out of three ticks is longer than minting a fresh invoice. `MaxBind`, `MaxThink` and `MaxTravel` bound the ticks between two
statements of the gateway, in `authorizePayment`, and on the network: the code bounds none of
the three. The theorems hold for every value of all these constants.

In `Tournament` two handlers are enough for one to come between two steps of another, and
every hazard listed is such a pair; a longer history is made of handlers that ended before.
Two submissions and challenges let a payment, a payload and a bot be mistaken for another, two
tickets let one challenge give two of them, and either settlement of the award is chosen
once. The sessions share nothing but the ledger and the challenges, and two handlers of one
session reach those too.

In `Console` two requests at once are what overlaps; a map of two entries for three sessions, against
16 in the code, lets the flow in use be the oldest or not when a third session evicts one, and `MaxDisturbances` (resets,
bootstraps, time-outs, strangers, actions begun beside a running one; a refresh counts for two) lets any two of
them, or a refresh, fall into one action. The resource is one: that a credential buys its own resource only
is for `gateway_faults` and `entrances`, which have several, and `Console_proofs` has any number. In `Readiness` two swaps or changes fall anywhere into builds of
which three may run, one more than the callers, for the cached one nobody waits for. In
`operations` a window of three ticks with seconds of two does not divide into
seconds, which is what rounding is about; two requests fill it; one payment and one loss are what
the property counts; the configurations are without a defect, or with one that both commands block, that
serve completes, that only serve reports, that an option of serve mends, and that only the start finds. In
`Entrances` one invoice a behaviour, of three kinds, is the payment that must not buy twice and two
translations the application's charges beside the middleware's own; two open verifications race.

Fairness. `WF_vars(HandlerStep(r))` for each request: the tokio runtime polls every
ready task, the settlement poll ends by its timeout, and the two HTTP clients carry
timeouts, so a handler that is not dropped goes on. `SF_vars(PollFails(r))` besides: the poll asks again and
again, and its deadline passes once, so it is not overlooked for ever. Nothing is assumed of the payer, the
node, the service, the clock or the faults. `Middleware` is checked for safety only: an
in-process route handler has no timeout of its own, so nothing bounds `upstream`. `Settlement` has `WF_vars(CodeStep)` and
`WF_vars(Tick)`: timers fire, RPCs answer or are aborted by their time-out, a lost request
fails, and the clock goes on; nothing is assumed of the nodes or of `authorizePayment`, so
`CallEnds` starts when the payment is authorized; nor of `ServiceReturns`, so a handler without a time-out may
keep the call. `Tournament` is checked for safety only: the
payer, the engine and the payout are awaited without a bound of the routes' own. `Serve` has `WF_vars(Tick)`
and `WF_vars(GraceElapsed)`: the clock goes on, and the event loop runs a timer that is due; a
client may keep its body and an upstream its answer for ever. `Console`, `Readiness` and
`Entrances` are checked for safety only. Deadlock is not checked where a run may end: a call of
`Settlement`, the bounds of `Console`, `Serve` and `Entrances`. `Answered` is stated from any stage but
`idle` because a client need not send anything.

### Findings

`gateway_abandoned`: `docs/security.md:25` says "If delivery fails after payment, the
durable delivery outcome is marked failed". When the client disconnects during the
upstream call the handler is dropped at `lib.rs:719-730`; the challenge is consumed, the
service may or may not have run, and the outcome stays `pending`, which no code closes.
The reconciliation policy of `docs/production-operations.md:156-180` lists delivered and
failed outcomes only.

`gateway_insert`: `docs/security-matrix.md:6` says the `replay` refusal covers "Replay or
concurrent duplicate". `consume_redemption` (`lib.rs:213`) answers `Ok(false)` on any error of the INSERT, a full
disk included; the gateway reads that as a replay and answers a verified, settled,
unredeemed payment with a fresh challenge, where a 500 would tell the client to retry.

`tournament_durable`: `docs/battlecode-paid-http-tournament.md:211` promises a "Durable SQLite bot
submission/ticket/match/award ledger". Every append (`battlecode.ts:742-751` for a ticket) reads the
whole ledger, awaits, and writes the whole of it back after deleting all rows; two
overlapping appends keep one row. `LossNeedsRace`, checked and proved, says that nothing else
loses one.

Three further behaviours of the tournament are in the model and break no property, since no
statement of the repository denies them. A submission locked between the payment and the claim
changes the object's submission: the claim redeems the payment, then
`issueBattlecodeTicket` rejects the mismatch, and the entry fee buys nothing. A ticket is not
used up by a match: each further `match/run` plays, and may award, again. A payout whose poll
fails after the payment was sent leaves a prize that no ledger row records.

Behaviours of the other modules worth a reader's knowing, which no run reports as violations:

* `savePaymentObservation` (`server-middleware/src/index.ts:249`) runs after the redemption committed
  and outside the try: when it throws the payer gets a 500, every retry is a replay and the
  outcome stays `pending`, as in `gateway_abandoned`. `FailureNotForgotten` makes the exception.
* `docs/bootstrap.md:63` says that the gateway is blocked unless an F-L402 root key has 32
  characters. `serve` blocks; `doctorReport` does not look (`Unseen`), and `DoctorAgrees` names it, with a port
  that does not parse and the `StartDefects`: after a report of `ready`, `serve` may still stop at any of them.
* `serve` fills in `ckb_hash` for `fl402.hashAlgorithm` (`bootstrap.ts:256`): with an invoice hashed by
  sha256 an F-L402 payer is never let in by that door, and only by it.
* A charge for a UDT that went through F402 or F-L402 and back has lost its type script, and
  `assertInvoiceMatches` (`fiber-method/src/index.ts:664-670`) refuses a payment of it as `wrong-udt`. The
  repository's own `payCharge` makes the same comparison before it pays; another payer may not.
  `ReturningPayerIsAdmitted` makes the exception.
* A request the console gave up may reach the evidence API beside the next action, and both write the same
  flow. `BusyKeepsRequestsApart` makes the exception (`strayed`).
* A poll of the Rust gateway whose last answer said Open gives up at its deadline although the invoice was
  paid while the answer was on its way (`lib.rs:142-157`): the payer gets a 502, and the payment waits for a
  retry. `PaidIsRedeemed` is therefore about payments a read finds settled.
* After a failed runtime bootstrap the evidence API names the new session while it serves
  with the old runtime (`torn`).
* The Rust limiter rounds `retry-after` down (`lib.rs:795`), where the TypeScript one rounds up:
  `RetryIsAdmitted` is of the latter.

## Proofs

`Gateway_proofs` proves, for any number of requests, invoices, resources, secrets,
currencies and configurations and any set of faults:

* `Invariance`: `Spec => []IInv`;
* from it `TypeCorrectness`, `NoDoubleRedemption`, `AtMostOneDelivery`, `NoUnpaidDelivery`,
  `LedgersAgree`, `ReceiptsAreEarned`, `NoSecondCharge`, and the action property
  `HistoryIsKept`.

It also proves `RetiredSecretsStayRetired` (an action property: no step redeems a challenge bound
by a secret that is neither the present nor a previous one), and `ImplementsPromise`:
`Spec => KeepsPromise`, that is, every step of the gateway maps to one step of `PaidDelivery` or a
stutter. `PromiseMeans` says what the abstract specification is worth: receipts are for delivered
payments, deliveries for executed ones, executions for redeemed and redemptions for paid ones,
and no payment is served twice. `GatewayKeepsOrder` carries that back to the gateway.

`Middleware_proofs` proves for `Middleware` `TypeCorrectness`, `LedgersAgree`, `FailuresAreRecorded`,
`ReceiptsAreRecorded`, `AtMostOneDelivery`, `ImplementsPromise`, and `RecordsMatchAnswers`, the
last while fewer than two store calls have failed. Its second part is about `Entrances`, for any
invoices, offers, routes, currencies, algorithms, times and bounds: `PaymentBuysOnce`,
`RedemptionsStayBound`, `ReturningPayersAreAdmitted` and `EntrancesTypes`.

`Poll_proofs` proves, for every timeout, interval and RPC time-out that the configuration
checks accept, that a poll ends within their sum (`PollIsBounded`) and that one that timed out
did not overlook a payment that settled in time (`PollSeesTimely`). `Settlement_proofs` carries
both over to the call by showing that each step of `Settlement` is a step of each poll or
leaves it alone (`PayerStep`, `PayeeStep`), and proves `BothPollsSeeTimely`, `CallsAreBounded`,
`TimelyIsAlwaysHonoured`, `InvoicesFollowChallenges` and `SettlementTypes` for every time to live,
resolution, skew and bound, with a proxied service or a handler without a time-out (`CallsAreBounded` bounds the
way from the authorization to the return of every call but those such a handler keeps).

`Tournament_proofs` proves `TournamentTypes`, `EveryEntryIsPaid`, `EveryMatchIsFair`,
`EveryPrizeIsEarned` and `OnlyRacesLoseRows` for any number of sessions, handlers, submissions,
challenges, tickets and matches.

`Serve_proofs` proves `RedemptionsCostLosses` and the action property `BackupsAreComplete` for any
payments, backups and bound of losses, the action property `DoctorKnows` for any configurations, options
and node states, and `AdmissionsAreBounded` and `WaitersAreAdmitted` for any clients, window, maximum and
resolution of the clock.

`Console_proofs` proves `FlowsTellTheTruth`, `FlowsBelongToOne`, `OneAtATimeIsCoherent`,
`BusyFlagSuffices`, `ScreenIsEarned` and `TypeCorrectness` for any sessions, resources and runtime
secrets, any size of the flow map and any number of requests at once. `Readiness_proofs` proves
`CacheIsOfTheSession`, `AnswersAreFresh` and `AnswersAreWhole` for any environments, nodes, inputs, reports,
callers, builds and life of the cached promise, with the nodes injected or not.

Every invariant and every safety property that a passing run checks is thus stated by a theorem.

`NoSecondCharge` holds under the assumption that no INSERT fails (`"insert" \notin Faults`); the
run `gateway_insert` shows that it needs it. It is therefore checked in `gateway_liveness`, without
that fault. The others hold with every fault.

Assumptions: for the tournament, the two settlements and that `None` is no submission and no
object; otherwise the types of `Configs` and `Faults`, and that `None` is no hash, resource or
credential; for the clock, `0 < Interval <= Timeout` of each poll (`assertPollingConfiguration`)
and positive seconds and times to live; for the rate limiter, at least one request and
one second a window, as the bootstrap report demands, that the observed client is a client and that
`None` is no number; for the entrances, that every invoice has one of the two hash algorithms and that `Absent` is no script,
number or currency; for the
console, that the flow map holds at least one flow (16 in the code), that the process starts with at least
one runtime number to give and that the tab's session is a session; for readiness, a positive life of the
cached promise (2 s in the code), that a build and an environment are not `None`, and that the process
environment and the bodies have the shape the parsers leave. The refusal of a body that does not
have it is modelled as no change.

The argument. None of the safety properties is inductive by itself. They speak of tables
and of what was served; what preserves them is what each handler knows at each await.
`IInv` adds: a handler past the checks holds a credential whose hash, challenge and
resource still match (`HandlersOK`: immutable columns, so other handlers cannot
invalidate them); its invoice is Paid from `settled` on, and Paid is final; a payment hash
is in at most one challenge and at most one handler's hands (`IssuingOK`: the node never
reuses a hash); a redemption row has one `Holder`, the handler between its commit and its
answer or whose request reached the service (`HoldersOK`), which is why one payment buys
one call; that handler's outcome is still `pending` until it records it (`OutcomesOK`),
which is why outcomes are recorded once although the statement is INSERT OR REPLACE; and
a verified handler that is sent back to a new challenge saw a dead invoice, another
currency or a consumed challenge (`RefusalsOK`).

For the clock, `TimesOK` says that no place of a call lasts longer than it may, `PollsAwaited` that
a poll runs only while the call waits for it, and that no time passes between its
verdict and the step that reads it. `SpentOK` then adds up, place by place, how much of the
bound is spent; `PaidOK` says that the gateway's poll runs only after the payment succeeded, and
therefore over an invoice the node holds for good; `DatesOK` relates the seconds asked
of the node to the expiry, by the two inequalities of integer division (`WholeSeconds`).

For the tournament, `Taken` says what a handler has in hand at each place, without which its
fields could be `None` where the code uses them. A ticket is unique because a redeemed challenge
is in the hands of one handler until its ticket exists (`Redemptions`): a claim that raced it
was refused. `Issued` says that the ticket of a flow, which a match will be played for, was
really issued. The ledger is replaced by snapshots, so what holds of its rows must hold of each snapshot
waiting to be written (`Reports`); and a snapshot that no write has overtaken still contains the
ledger (`Snapshots`), which is the step from the read to the write.

For the middleware, the invariant follows a redemption by the stage of the request that holds it
(`Holder`): its outcome is `pending` from the redemption to the first write of the try (`OutcomeOK`),
and it may read `delivered` in the catch only after a store failure, which is what the catch then
overwrites. `DeliveredIsAnswered` counts: a record says delivered to a payer who was told of an error
only after two failed store calls, the receipt's and the catch's own, and that is why
`RecordsMatchAnswers` has its premise. In the refinement a delivery is the saved receipt, so
every rewriting of the `status` column before it is a stutter.

For the entrances, a payment buys once because the redemption table is keyed by the
invoice's payment hash too, whichever challenge and door the credential came by: the invariant
(`RowPerResponse`) says that a payment that bought a response has its row. A redemption stays bound
because records are never replaced and settlements are final, and because what was verified keeps
what it needs over the wait between verification and redemption (`BoundWhenVerified`). A returning payer is admitted because
each pair of conversions gives the payment hash and the algorithm back (`ConversionsKeepThePayment`), because a
charge with the invoice's algorithm and UDT script passes `assertInvoiceMatches`, what it leaves unsaid included,
and because a record's digest is the one its challenge binds (`DigestsAgree`), whatever was saved
under the identifier first.

For the files, a payment without a row was redeemed at most once per loss: `LossesPay` adds that
to the property, without which nothing would keep the next redemption out. A checkpoint, a
close, a crash and a backup leave the rows as they are; only a restore and a power cut take
some, and they count as losses. While nothing was lost the rows are exactly what was granted
(`RowsAreGrants`), so a backup, a snapshot of the rows, has every redemption committed before it. For the
doctor, `CommandKnows` says what each command has established by the RPC it awaits, unless the
operator or the node changed under it (`stale`), and `SaidHolds` keeps its word until such a change.
For the limiter, `SpanFits` relates a span to the client's window by
which of the two ends first: while the window ends first, the span missed the request that
opened it, which is the one the bound is short of `2 * Max`; and who was told to wait was told
at least what is left of the window, by the rounding of `SecondsCover`.

For the evidence flow, the difficulty is that a route keeps an object the map may since have evicted or
replaced. `Owns` therefore says whose an object is by the map and by every route that holds it,
`OwnersOK` that no object has two owners, and `ObjectsOK` and `CallsOK` that what an object, or a route
between two awaits, carries was issued to that owner, paid and served as it claims (`TruthOK`).
`CoherenceOK` adds, for an object of the map no two requests overlapped on, that its challenge, credential
and receipt are of one exchange with the present runtime, and that the one route at work on it holds
what it holds (`InStep`). For the tab, `AnswersOK` says
of every answer under way what `ObjectsOK` says of an object, `JobsOK` which function waits for which
request, and `BusyOK` that as long as nothing strayed one function runs, the open request is its own and none
but a status read is on its way with nobody waiting for it;
`ScreenOK` is `PhaseIsEarned` with the flows and phases the closures remember.

For readiness, `BuildsOK` says that a build begun under the present session captured that session's
environment and source; `CallsOK` (`Waits`) that a caller waits for a build that was begun under the
session the caller met, and had not reached the end of its life then; `CacheOK` that the cached build is of
the present session, because every replacement empties the cache, and that age and remaining life
add up to `TTL`; and `RuntimeOK` that the runtime is the session's, unless the last replacement failed half
way.

What the attempts to prove changed in the models: in `Console` a bootstrap from another
tab had to count among what the busy flag does not order (`strayed`), since it empties the flow under
a running function; a CASE whose guards overlap
left its value open and became an IF; and in `Readiness` `AnswerIsWhole` was false with injected nodes,
which the run did not have, and names them now.

Only model-checked: the liveness properties `Answered`, `PaidIsRedeemed`, `CallEnds` and `ShutdownEnds`, which
are out of the prover's reach. The type invariants of the modules are proved or part of their inductive
invariant; `CacheHolds` contains that of `Readiness`.

## Plan

Every module is free of RECURSIVE operators and every component modelled has its safety proved. What is
left, in order:

1. The Rust gateway's own limiter, readiness and shutdown, against those of `Serve`.
2. Several calls of one `paidFetch` client, which share its node.
3. Proofs: that `Entrances` and `Middleware` redeem alike (a common abstract specification of the redemption
   table), and of the invariants the first two items will need.

## Not modelled

* Canonical JSON, HMAC and signature computation, header syntax, schema validation on open,
  proxied headers: pure functions of their input.
* The Rust gateway's rate limit, readiness, metrics, shutdown and configuration, and the Rust
  adapter crates: the TypeScript counterparts are modelled in `Serve`, `Bootstrap` and `Entrances`.
* The client commands and the conformance vectors, the evidence web server (static files), the
  scripts, the deployment files and the examples: one-shot sequences, or input and
  output, with no interaction to check.
* The parts of modelled components named under the correspondences above.
