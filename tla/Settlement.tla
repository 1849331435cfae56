----------------------------- MODULE Settlement -----------------------------
(***************************************************************************)
(* One paid call against the clock: paidFetch (packages/client) asks, is   *)
(* challenged, has the payment authorized, pays through the payer's node   *)
(* (packages/fiber-method) and repeats its request once; the gateway,      *)
(* Rust or TypeScript, mints the invoice, dates the challenge and, when    *)
(* the credential comes back, polls the payee's node, calls the service    *)
(* or asks for a fresh invoice, and answers.  Gateway and Middleware have  *)
(* the same steps without time and with many requests.                     *)
(*                                                                         *)
(* A tick is the clock's resolution, and Second is what the expiry of an   *)
(* invoice is counted in.  The payee's node has a clock of its own.        *)
(***************************************************************************)
EXTENDS Integers

CONSTANTS
    Second,                    \* ticks in a second
    Ttls,                      \* values of challenge_ttl_seconds to consider
    PayTimeout, PayInterval,   \* the payer's settlement poll
    PaidTimeout, PaidInterval, \* the gateway's
    RpcTimeout,
    ServiceTimeout,            \* upstream time-out of the two reverse proxies
    Tolerated,                 \* clockSkewSeconds of the TypeScript gateway, in ticks
    Gateways,                  \* the gateways to consider, of {"rust", "ts"}
    Skews,                     \* how far the payee's node's clock may be ahead
    MaxBind,                   \* bound: ticks the gateway takes before it asks the node
    MaxThink,                  \* bound: ticks authorizePayment takes
    MaxTravel                  \* bound: ticks a request or an answer travels

ASSUME SettlementAssumption ==
    /\ {Second, PayTimeout, PayInterval, PaidTimeout, PaidInterval, RpcTimeout,
        ServiceTimeout} \subseteq Nat \ {0}
    /\ PayInterval <= PayTimeout /\ PaidInterval <= PaidTimeout
    /\ Ttls \subseteq Nat \ {0}
    /\ Gateways \subseteq {"rust", "ts"}
    /\ Skews \subseteq Int
    /\ {Tolerated, MaxBind, MaxThink, MaxTravel} \subseteq Nat

VARIABLES
    gateway, ttl, skew,                  \* chosen once
    proxied,                             \* so is: the service has a time-out
    now,
    expires,                             \* challenge.expires
    seconds,                             \* the expiry asked of new_invoice
    invoice, invoice_expires, paid_at,   \* at the payee's node
    payment, succeeded_at,               \* at the payer's node
    call, since,                         \* where paidFetch is, and since when
    authorized_at, arrived_at,
    verdict,                             \* what the gateway made of the credential
    pay_poll, paid_poll

world == <<gateway, ttl, skew, proxied>>
challenge == <<expires, seconds>>
payee == <<invoice, invoice_expires, paid_at>>
payer == <<payment, succeeded_at>>
instants == <<authorized_at, arrived_at>>
polls == <<pay_poll, paid_poll>>
vars == <<world, now, challenge, payee, payer, call, since, instants, verdict, polls>>

\* What get_payment and get_invoice answer, as the two loops read it.
Payer == INSTANCE Poll WITH
    Timeout <- PayTimeout, Interval <- PayInterval, poll <- pay_poll,
    status <- CASE payment = "Success" -> "settled"
                [] payment = "Failed" -> "terminal"
                [] OTHER -> "pending",
    settled <- succeeded_at

Payee == INSTANCE Poll WITH
    Timeout <- PaidTimeout, Interval <- PaidInterval, poll <- paid_poll,
    status <- CASE invoice = "Paid" -> "settled"
                [] invoice \in {"Cancelled", "Expired"} -> "terminal"
                [] OTHER -> "pending",
    settled <- paid_at

Rpc == {"minting", "parsing", "sending"}
Travelling == {"challenged", "retrying", "answering"}
Serving == {"serving", "recharging"}   \* the service is called, a fresh invoice asked for
Over == {"returned", "failed"}
Call == {"start", "binding", "authorizing", "paying", "verifying"} \cup Rpc \cup Travelling
            \cup Serving \cup Over
Verdicts == {"none", "redeemed", "refused", "error"}

\* The Rust gateway always proxies; a TypeScript route may have a handler of its own,
\* which nothing interrupts.
Worlds == gateway \in Gateways /\ ttl \in Ttls /\ skew \in Skews
             /\ proxied \in BOOLEAN /\ (gateway = "rust" => proxied)

TypeOK ==
    /\ Worlds
    /\ now \in Nat /\ expires \in Nat
    /\ call # "start" /\ call # "binding" => seconds \in 1..ttl
    /\ invoice \in {"none", "Open", "Received", "Paid", "Cancelled", "Expired"}
    /\ invoice_expires \in Int /\ paid_at \in Nat
    /\ payment \in {"none", "Inflight", "Success", "Failed"} /\ succeeded_at \in Nat
    /\ call \in Call /\ since \in Nat
    /\ authorized_at \in Nat /\ arrived_at \in Nat /\ verdict \in Verdicts
    /\ Payer!PollTypeOK /\ Payee!PollTypeOK

Init ==
    /\ Worlds
    /\ now = 1
    /\ expires = 0 /\ seconds = 0
    /\ invoice = "none" /\ invoice_expires = 0 /\ paid_at = 0
    /\ payment = "none" /\ succeeded_at = 0
    /\ call = "start" /\ since = 0
    /\ authorized_at = 0 /\ arrived_at = 0 /\ verdict = "none"
    /\ pay_poll = Payer!Fresh(FALSE)
    /\ paid_poll = Payee!Fresh(gateway = "rust")

Goto(place) == call' = place /\ since' = now

-----------------------------------------------------------------------------
(* The challenge                                                           *)

\* The gateway dates the challenge before it asks for an invoice.
Request ==
    /\ call = "start"
    /\ expires' = now + ttl * Second
    /\ Goto("binding")
    /\ UNCHANGED <<world, now, seconds, payee, payer, instants, verdict, polls>>

AtLeastOne(n) == IF n < 1 THEN 1 ELSE n

\* Mutant: rounding up.
SecondsRoundedUp ==
    IF gateway = "rust" THEN AtLeastOne((expires - now + Second - 1) \div Second) ELSE ttl

\* Rust counts the whole seconds left, TypeScript passes the time to live.
InvoiceSeconds ==
    IF gateway = "rust" THEN AtLeastOne((expires - now) \div Second) ELSE ttl

AskInvoice ==
    /\ call = "binding"
    /\ seconds' = InvoiceSeconds
    /\ Goto("minting")
    /\ UNCHANGED <<world, now, expires, payee, payer, instants, verdict, polls>>

\* new_invoice at the payee's node, dated by its own clock.
MintInvoice ==
    /\ call = "minting"
    /\ invoice = "none"
    /\ invoice' = "Open"
    /\ invoice_expires' = now + skew + seconds * Second
    /\ UNCHANGED <<world, now, challenge, paid_at, payer, call, since, instants, verdict, polls>>

\* The answer is validated, unexpired by the gateway's clock, and the 402 leaves.
IssueChallenge ==
    /\ call = "minting"
    /\ invoice # "none"
    /\ Goto(IF invoice_expires > now THEN "challenged" ELSE "failed")
    /\ UNCHANGED <<world, now, challenge, payee, payer, instants, verdict, polls>>

\* The client reads the 402: an expired challenge ends the call.
ReadChallenge ==
    /\ call = "challenged"
    /\ Goto(IF now > expires THEN "failed" ELSE "authorizing")
    /\ UNCHANGED <<world, now, challenge, payee, payer, instants, verdict, polls>>

-----------------------------------------------------------------------------
(* The payment                                                             *)

\* authorizePayment answers, yes or no; the challenge's expiry is not looked at again.
Authorize ==
    /\ call = "authorizing"
    /\ \/ authorized_at' = now /\ Goto("parsing")
       \/ UNCHANGED authorized_at /\ Goto("failed")
    /\ UNCHANGED <<world, now, challenge, payee, payer, arrived_at, verdict, polls>>

\* parse_invoice: an unexpired invoice is sent, whatever the age of its challenge.
CheckInvoice ==
    /\ call = "parsing"
    /\ Goto(IF invoice_expires > now THEN "sending" ELSE "failed")
    /\ UNCHANGED <<world, now, challenge, payee, payer, instants, verdict, polls>>

\* send_payment reaches the payer's node.
SendPayment ==
    /\ call = "sending"
    /\ payment = "none"
    /\ payment' = "Inflight"
    /\ UNCHANGED <<world, now, challenge, payee, succeeded_at, call, since, instants, verdict, polls>>

AwaitPayment ==
    /\ call = "sending"
    /\ payment # "none"
    /\ Payer!Begin
    /\ Goto("paying")
    /\ UNCHANGED <<world, now, challenge, payee, payer, instants, verdict, paid_poll>>

\* Mutant: only new_invoice has a time-out.
OnlyMintingFails ==
    /\ call = "minting"
    /\ Goto("failed")
    /\ UNCHANGED <<world, now, challenge, payee, payer, instants, verdict, polls>>

\* The time-out or an error of an RPC ends the call; what reached a node stays there.
RpcFails ==
    /\ call \in Rpc
    /\ Goto("failed")
    /\ UNCHANGED <<world, now, challenge, payee, payer, instants, verdict, polls>>

PollPayment ==
    /\ call = "paying"
    /\ Payer!NodeAnswers \/ Payer!Receive \/ Payer!ReadFails \/ Payer!Wake
    /\ UNCHANGED <<world, now, challenge, payee, payer, call, since, instants, verdict, paid_poll>>

\* payCharge returns, and the request is repeated with the credential, or it throws.
PaymentOver ==
    /\ call = "paying"
    /\ pay_poll.phase \in Payer!Verdict
    /\ Goto(IF pay_poll.phase = "paid" THEN "retrying" ELSE "failed")
    /\ UNCHANGED <<world, now, challenge, payee, payer, instants, verdict, polls>>

-----------------------------------------------------------------------------
(* The verification                                                        *)

Tolerance == IF gateway = "ts" THEN Tolerated ELSE 0

\* The credential reaches the gateway; an expired challenge is answered with a fresh
\* 402.
Arrive ==
    /\ call = "retrying"
    /\ arrived_at' = now
    /\ \/ /\ now - Tolerance > expires
          /\ verdict' = "refused" /\ Goto("recharging")
          /\ UNCHANGED paid_poll
       \/ /\ now - Tolerance <= expires
          /\ Payee!Begin /\ Goto("verifying")
          /\ UNCHANGED verdict
    /\ UNCHANGED <<world, now, challenge, payee, payer, authorized_at, pay_poll>>

\* A request or an answer is lost.
Lost ==
    /\ call \in Travelling
    /\ Goto("failed")
    /\ UNCHANGED <<world, now, challenge, payee, payer, instants, verdict, polls>>

PollInvoice ==
    /\ call = "verifying"
    /\ Payee!NodeAnswers \/ Payee!Receive \/ Payee!ReadFails \/ Payee!Wake
    /\ UNCHANGED <<world, now, challenge, payee, payer, call, since, instants, verdict, pay_poll>>

Decide(v) ==
    /\ verdict' = v
    /\ Goto(CASE v = "redeemed" -> "serving"
              [] v = "refused" -> "recharging"
              [] v = "error" -> "answering")

\* Mutant: the expiry is tested when the settlement is known.
VerifyThenExpire ==
    /\ call = "verifying"
    /\ \/ paid_poll.phase = "paid" /\ Decide(IF now > expires THEN "refused" ELSE "redeemed")
       \/ paid_poll.phase = "terminal" /\ Decide("refused")
       \/ paid_poll.phase \in {"timeout", "failed"} /\ Decide("error")
    /\ UNCHANGED <<world, now, challenge, payee, payer, instants, polls>>

\* Settled: the payment is redeemed and the service called.  Terminal: a fresh 402.
\* Otherwise the answer is an error.
VerifyOver ==
    /\ call = "verifying"
    /\ \/ paid_poll.phase = "paid" /\ Decide("redeemed")
       \/ paid_poll.phase = "terminal" /\ Decide("refused")
       \/ paid_poll.phase \in {"timeout", "failed"} /\ Decide("error")
    /\ UNCHANGED <<world, now, challenge, payee, payer, instants, polls>>

-----------------------------------------------------------------------------
(* The answer                                                              *)

\* The service, or the handler of a route, returns or throws; nothing makes it.
ServiceReturns ==
    /\ call = "serving"
    /\ Goto("answering")
    /\ UNCHANGED <<world, now, challenge, payee, payer, instants, verdict, polls>>

\* The reverse proxies stop waiting.
ServiceTimesOut ==
    /\ call = "serving"
    /\ proxied
    /\ now >= since + ServiceTimeout
    /\ Goto("answering")
    /\ UNCHANGED <<world, now, challenge, payee, payer, instants, verdict, polls>>

\* new_invoice answers or fails: a fresh 402, whose payment would be another call, or an
\* error.
Recharge ==
    /\ call = "recharging"
    /\ Goto("answering")
    /\ UNCHANGED <<world, now, challenge, payee, payer, instants, verdict, polls>>

\* paidFetch returns the answer to its repeated request, whatever it is.
Return ==
    /\ call = "answering"
    /\ Goto("returned")
    /\ UNCHANGED <<world, now, challenge, payee, payer, instants, verdict, polls>>

-----------------------------------------------------------------------------
(* The nodes and the clock                                                 *)

\* The payee's node holds a payment of an open, unexpired invoice, then settles it.
InvoiceStep ==
    /\ \/ /\ payment = "Inflight" /\ invoice = "Open" /\ now + skew < invoice_expires
          /\ invoice' = "Received" /\ UNCHANGED paid_at
       \/ /\ invoice = "Received"
          /\ invoice' = "Paid" /\ paid_at' = now
       \/ /\ invoice = "Open" /\ now + skew >= invoice_expires
          /\ invoice' = "Expired" /\ UNCHANGED paid_at
       \/ /\ invoice \in {"Open", "Received"} /\ payment # "Success"
          /\ invoice' = "Cancelled" /\ UNCHANGED paid_at
    /\ UNCHANGED <<world, now, challenge, invoice_expires, payer, call, since, instants, verdict, polls>>

\* The payer's node learns that the payee takes the payment, perhaps before the payee's
\* node shows it as Paid, or gives it up.
PaymentStep ==
    /\ payment = "Inflight"
    /\ \/ /\ invoice \in {"Received", "Paid"}
          /\ payment' = "Success" /\ succeeded_at' = now
       \/ /\ invoice \notin {"Received", "Paid"}
          /\ payment' = "Failed" /\ UNCHANGED succeeded_at
    /\ UNCHANGED <<world, now, challenge, payee, call, since, instants, verdict, polls>>

\* Ticks each place may take.  A handler without a time-out takes none here: it may stay
\* for ever, and how long it stays is not counted.
Lasts == CASE call = "binding" -> MaxBind
           [] call \in Rpc -> RpcTimeout
           [] call = "authorizing" -> MaxThink
           [] call \in Travelling -> MaxTravel
           [] call = "serving" /\ proxied -> ServiceTimeout
           [] call = "recharging" -> MaxBind + RpcTimeout
           [] OTHER -> 0

Tick ==
    /\ \/ now < since + Lasts
       \/ call = "paying" /\ pay_poll.phase \in Payer!Waiting /\ Payer!MayPass
       \/ call = "verifying" /\ paid_poll.phase \in Payee!Waiting /\ Payee!MayPass
    /\ now' = now + 1
    /\ UNCHANGED <<world, challenge, payee, payer, call, since, instants, verdict, polls>>

CodeStep ==
    \/ AskInvoice
    \/ IssueChallenge
    \/ ReadChallenge
    \/ CheckInvoice
    \/ AwaitPayment
    \/ RpcFails
    \/ PollPayment
    \/ PaymentOver
    \/ Arrive
    \/ Lost
    \/ PollInvoice
    \/ VerifyOver
    \/ ServiceTimesOut
    \/ Recharge
    \/ Return

Next ==
    \/ Request
    \/ MintInvoice
    \/ Authorize
    \/ SendPayment
    \/ ServiceReturns
    \/ CodeStep
    \/ InvoiceStep
    \/ PaymentStep
    \/ Tick

\* Timers fire, RPCs answer or are aborted, and the clock goes on.
Spec == Init /\ [][Next]_vars /\ WF_vars(CodeStep) /\ WF_vars(Tick)

-----------------------------------------------------------------------------
(* Properties                                                              *)

\* A client that paid, and whose repeated request reaches the gateway by the expiry of
\* its challenge, or within the clock skew that the TypeScript gateway tolerates after
\* it, is never asked to pay again: the settlement poll may outlast the challenge
\* (assert_not_expired before verify_paid, and only there).
TimelyIsHonoured == verdict = "refused" => arrived_at > expires + Tolerance

\* What follows the poll of the gateway: the call of the service or a fresh invoice.
Aftermath ==
    IF ServiceTimeout > MaxBind + RpcTimeout THEN ServiceTimeout ELSE MaxBind + RpcTimeout

\* The handler of a TypeScript route that is no reverse proxy may take any time.
Unbounded == verdict = "redeemed" /\ ~proxied

\* From the authorization to the end of paidFetch no more time passes than the payer's
\* poll, two RPCs of the payer, the gateway's poll, the service or a fresh invoice, and
\* the way there and back take (the deadline tests of the loops, the time-outs of the
\* RPCs and of the proxies), unless a handler without a time-out was called.
CallIsBounded ==
    authorized_at > 0 /\ ~Unbounded =>
        now - authorized_at
            <= 2 * RpcTimeout + Payer!Longest + Payee!Longest + Aftermath + 2 * MaxTravel

\* Neither poll gives up on a payment that settled before its deadline, but for the
\* last read (Poll).
TimelyIsSeen == Payer!TimelyIsSeen /\ Payee!TimelyIsSeen

\* Money cannot be taken long after the challenge it is for expired: but for the node's
\* clock, the invoice outlives the challenge by the minting RPC at most when the seconds
\* left are rounded down, and by the time it took to ask when they are not: the
\* TypeScript gateway, or a last second (expiry_seconds_from_now).
InvoiceFollowsChallenge ==
    invoice # "none" =>
        invoice_expires - skew <=
            expires + RpcTimeout
                + (IF gateway = "rust" /\ ttl * Second - MaxBind >= Second THEN 0 ELSE MaxBind)

\* An authorized call ends, or its payment is redeemed and a handler without a time-out
\* keeps it.
CallEnds == call = "parsing" ~> call \in Over \/ (call = "serving" /\ Unbounded)
=============================================================================
