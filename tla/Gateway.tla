------------------------------ MODULE Gateway ------------------------------
(***************************************************************************)
(* The Rust gateway (crates/fiber-paid-http-server) over its SQLite store  *)
(* (crates/fiber-paid-http-storage): any number of request handlers run    *)
(* concurrently, each one a tokio task that may be suspended at an await   *)
(* (the Fiber RPC of create_charge, the settlement poll of verify_paid,    *)
(* the upstream call) and holds the store lock only inside one store call. *)
(* A handler whose client goes away is dropped at an await; a crash stops  *)
(* every handler and keeps the database.                                   *)
(*                                                                         *)
(* The Fiber node and the protected service are external: they are         *)
(* modelled by what the gateway asks of them.  Time is abstracted to the   *)
(* set of challenges whose expiry has passed; module Settlement has the    *)
(* clock.                                                                  *)
(***************************************************************************)
EXTENDS Integers, FiniteSets

CONSTANTS
    Requests,   \* HTTP requests reaching the gateway, one handler each
    Hashes,     \* payment hashes the Fiber node may mint
    Resources,  \* protected resources: method, URL, body digest, content type
    Keys,       \* challenge secrets
    Currencies, \* invoice currencies of the payee node
    Configs,    \* configurations the operator may start the gateway with
    Faults,     \* which faults may happen
    None        \* absence of a credential, an invoice or a row

ASSUME ConfigsAssumption ==
    Configs \subseteq [secret : Keys, previous : SUBSET Keys, currency : Currencies,
                        fl402 : BOOLEAN]

ASSUME NoneAssumption == None \notin Hashes /\ None \notin Resources

ASSUME FaultsAssumption == Faults \subseteq {"drop", "crash", "store", "insert", "rpc"}

\* bind_challenge_id: the identifier is an HMAC, under the active secret, of
\* the challenge's fields; among them the charge request, hence the payment hash
\* and the invoice currency.
ChallengeId == [hash : Hashes, key : Keys, currency : Currencies]

\* An "Authorization: Payment" credential echoes the challenge, with a source of the
\* client's choice; an L402 one is rebuilt from the capability's challengeId with
\* source "l402".  The credential_hash depends on the source.
Schemes == {"Payment", "L402"}
Sources == {"mpp", "l402"}
Credential == [challenge : ChallengeId, source : Sources, hash : Hashes]

ASSUME NoCredentialAssumption == None \notin Credential

Redemption == [challenge : ChallengeId, credential : Credential, hash : Hashes]
Receipt == [reference : Hashes, challenge : ChallengeId]

InvoiceStatus == {"none", "Open", "Received", "Paid", "Cancelled", "Expired"}
Outcome == {"none", "pending", "delivered", "failed"}

\* Where a handler is.  "polling" has a get_invoice before it that the node has not
\* yet answered; "pending" an answer, perhaps still on its way, that the invoice is
\* unpaid.  "ok", "refused" and "error" have the upstream's result in hand: a 2xx,
\* another status, no answer.
Stage == {"idle", "issuing", "invoiced", "polling", "pending", "settled", "consumed",
          "upstream", "ok", "refused", "error", "receipting", "done", "dropped"}
Awaiting == {"issuing", "polling", "pending", "upstream"}
Over == {"done", "dropped"}
Redeeming == {"consumed", "upstream", "ok", "refused", "error", "receipting"}

\* What the client was answered: a 402 with a fresh challenge, a 2xx with a
\* Payment-Receipt, the service's own non-2xx, or an error_response of the gateway.
Reply == {"none", "challenge", "receipt", "upstream", "error"}

VARIABLES
    config,             \* the running gateway's configuration
    invoices,           \* the payee node: payment hash -> invoice status
    expired,            \* challenges whose expiry has passed
    resource_binding,   \* challenges.resource_binding, None where no row
    consumed_at,        \* challenges with a consumed_at
    redemptions,        \* rows of redemptions
    delivery_outcomes,  \* challenge -> delivery_outcomes.status
    receipts,           \* rows of receipts
    stage,              \* handler -> where it is
    resource,           \* handler -> the resource its request names
    credential,         \* handler -> the credential it verifies
    charge,             \* handler -> hash of the invoice it just created
    upstream,           \* handler -> what the service did with its request
    reply               \* handler -> its response

node == <<invoices, expired>>
store == <<resource_binding, consumed_at, redemptions, delivery_outcomes, receipts>>
handlers == <<stage, resource, credential, charge, reply>>
vars == <<config, node, store, handlers, upstream>>

TypeOK ==
    /\ config \in Configs
    /\ invoices \in [Hashes -> InvoiceStatus]
    /\ expired \subseteq ChallengeId
    /\ resource_binding \in [ChallengeId -> Resources \cup {None}]
    /\ consumed_at \subseteq ChallengeId
    /\ redemptions \subseteq Redemption
    /\ delivery_outcomes \in [ChallengeId -> Outcome]
    /\ receipts \subseteq Receipt
    /\ stage \in [Requests -> Stage]
    /\ resource \in [Requests -> Resources \cup {None}]
    /\ credential \in [Requests -> Credential \cup {None}]
    /\ charge \in [Requests -> Hashes \cup {None}]
    /\ upstream \in [Requests -> {"none", "sent", "ok", "refused", "lost"}]
    /\ reply \in [Requests -> Reply]

Init ==
    /\ config \in Configs
    /\ invoices = [h \in Hashes |-> "none"]
    /\ expired = {}
    /\ resource_binding = [i \in ChallengeId |-> None]
    /\ consumed_at = {}
    /\ redemptions = {}
    /\ delivery_outcomes = [i \in ChallengeId |-> "none"]
    /\ receipts = {}
    /\ stage = [r \in Requests |-> "idle"]
    /\ resource = [r \in Requests |-> None]
    /\ credential = [r \in Requests |-> None]
    /\ charge = [r \in Requests |-> None]
    /\ upstream = [r \in Requests |-> "none"]
    /\ reply = [r \in Requests |-> "none"]

Goto(r, s) == stage' = [stage EXCEPT ![r] = s]

Answer(r, status) ==
    /\ Goto(r, "done")
    /\ reply' = [reply EXCEPT ![r] = status]

-----------------------------------------------------------------------------
(* Arrival: everything handle_gateway_request does before its first await  *)
(* on Fiber.  The checks read one immutable challenge row.                 *)

Issued(i) == resource_binding[i] # None

VerifyKeys == {config.secret} \cup config.previous

\* credential_from_authorization.  For the L402 scheme verify_fl402_proof needs the
\* preimage, which the payee node reveals only by settling the invoice, and the
\* F-L402 entrance must be configured.
Decoded(c, scheme) ==
    scheme = "L402" => c.source = "l402" /\ config.fl402 /\ invoices[c.hash] = "Paid"

\* Mutant: the credential's payment hash is not compared with the charge's.
AcceptableAnyHash(c, res) ==
    /\ Issued(c.challenge)
    /\ c.challenge.key \in VerifyKeys
    /\ c.challenge \notin expired
    /\ resource_binding[c.challenge] = res

\* The checks of verify_credential that precede verify_paid.
Acceptable(c, res) ==
    /\ Issued(c.challenge)
    /\ c.challenge.key \in VerifyKeys
    /\ c.challenge \notin expired
    /\ resource_binding[c.challenge] = res
    /\ c.hash = c.challenge.hash

\* A request without a credential, or with one that fails a check (a Payment,
\* Fl402 or Core error), is answered with a fresh challenge.
Arrive(r, res, c) ==
    /\ stage[r] = "idle"
    /\ resource' = [resource EXCEPT ![r] = res]
    /\ \/ /\ c # None
          /\ Acceptable(c, res)
          /\ \E scheme \in Schemes : Decoded(c, scheme)
          /\ credential' = [credential EXCEPT ![r] = c]
          /\ Goto(r, "polling")
       \/ /\ c # None /\ Acceptable(c, res) => \E scheme \in Schemes : ~Decoded(c, scheme)
          /\ UNCHANGED credential
          /\ Goto(r, "issuing")
    /\ UNCHANGED <<config, node, store, charge, reply, upstream>>

\* The rate limit, the body limit, or get_challenge failing.
Refuse(r) ==
    /\ stage[r] = "idle"
    /\ Answer(r, "error")
    /\ UNCHANGED <<config, node, store, resource, credential, charge, upstream>>

-----------------------------------------------------------------------------
(* issue_challenge                                                         *)

\* create_charge: the node mints an invoice under a hash it never used.
CreateCharge(r, h) ==
    /\ stage[r] = "issuing"
    /\ invoices[h] = "none"
    /\ invoices' = [invoices EXCEPT ![h] = "Open"]
    /\ charge' = [charge EXCEPT ![r] = h]
    /\ Goto(r, "invoiced")
    /\ UNCHANGED <<config, expired, store, resource, credential, reply, upstream>>

\* The RPC fails, before or after the node minted the invoice, or the invoice
\* does not pass validate_invoice_record.
CreateChargeFails(r) ==
    /\ stage[r] = "issuing"
    /\ \/ UNCHANGED invoices
       \/ \E h \in Hashes : /\ invoices[h] = "none"
                            /\ invoices' = [invoices EXCEPT ![h] = "Open"]
    /\ Answer(r, "error")
    /\ UNCHANGED <<config, expired, store, resource, credential, charge, upstream>>

\* save_challenge (INSERT OR IGNORE) and the 402.
SaveChallenge(r) ==
    LET i == [hash |-> charge[r], key |-> config.secret, currency |-> config.currency] IN
    /\ stage[r] = "invoiced"
    /\ resource_binding' =
           [resource_binding EXCEPT ![i] = IF Issued(i) THEN @ ELSE resource[r]]
    /\ Answer(r, "challenge")
    /\ UNCHANGED <<config, node, consumed_at, redemptions, delivery_outcomes,
                   receipts, resource, credential, charge, upstream>>

-----------------------------------------------------------------------------
(* verify_credential                                                       *)

\* The node answers the poll's get_invoice with the status of now.  What it says of
\* a final status stays true however late the answer is acted on; a pending one may
\* be stale by then.

\* verify_paid sees the invoice Paid, in the currency the gateway charges today.
PollPaid(r) ==
    /\ stage[r] = "polling"
    /\ invoices[credential[r].hash] = "Paid"
    /\ credential[r].challenge.currency = config.currency
    /\ Goto(r, "settled")
    /\ UNCHANGED <<config, node, store, resource, credential, charge, reply, upstream>>

\* The Payment errors of verify_paid: a terminal invoice, or a paid one in a
\* currency the gateway no longer charges.
PollRejects(r) ==
    /\ stage[r] = "polling"
    /\ \/ invoices[credential[r].hash] \in {"Cancelled", "Expired"}
       \/ /\ invoices[credential[r].hash] = "Paid"
          /\ credential[r].challenge.currency # config.currency
    /\ Goto(r, "issuing")
    /\ UNCHANGED <<config, node, store, resource, credential, charge, reply, upstream>>

PollPending(r) ==
    /\ stage[r] = "polling"
    /\ invoices[credential[r].hash] \in {"Open", "Received"}
    /\ Goto(r, "pending")
    /\ UNCHANGED <<config, node, store, resource, credential, charge, reply, upstream>>

\* The answer came in time: after a pause there is another read.
PollAgain(r) ==
    /\ stage[r] = "pending"
    /\ Goto(r, "polling")
    /\ UNCHANGED <<config, node, store, resource, credential, charge, reply, upstream>>

\* Mutant: the deadline is tested before the read, not on its answer.
PollTimeoutFirst(r) ==
    /\ stage[r] \in {"polling", "pending"}
    /\ Answer(r, "error")
    /\ UNCHANGED <<config, node, store, resource, credential, charge, upstream>>

\* InvoiceTimeout on an answer that was pending, whatever the invoice is by now; a
\* failing RPC any time.
PollFails(r) ==
    /\ \/ stage[r] = "pending"
       \/ stage[r] = "polling" /\ "rpc" \in Faults
    /\ Answer(r, "error")
    /\ UNCHANGED <<config, node, store, resource, credential, charge, upstream>>

RowOf(c) == [challenge |-> c.challenge, credential |-> c, hash |-> c.hash]

\* Mutant: the expiry is checked again after the settlement poll.
UnconsumedAndLive(i) == Issued(i) /\ i \notin consumed_at /\ i \notin expired

\* consume_redemption: WHERE consumed_at IS NULL, and the UNIQUE columns.
Unconsumed(i) == Issued(i) /\ i \notin consumed_at
Violates(row) ==
    \E old \in redemptions : \/ old.challenge = row.challenge
                             \/ old.credential = row.credential
                             \/ old.hash = row.hash

\* Mutant: consumed_at is only looked at before the poll, and rows are replaced.
ConsumeUnguarded(r) ==
    LET c == credential[r] IN
    /\ stage[r] = "settled"
    /\ consumed_at' = consumed_at \cup {c.challenge}
    /\ redemptions' = redemptions \cup {RowOf(c)}
    /\ delivery_outcomes' = [delivery_outcomes EXCEPT ![c.challenge] = "pending"]
    /\ Goto(r, "consumed")
    /\ UNCHANGED <<config, node, resource_binding, receipts, resource, credential,
                   charge, reply, upstream>>

\* Mutant: a failing redemption insert commits the consumed challenge, and the
\* pending outcome is left to the caller.
ConsumeWithoutOutcome(r) ==
    LET c == credential[r] IN
    /\ stage[r] = "settled"
    /\ consumed_at' = consumed_at \cup {c.challenge}
    /\ IF Unconsumed(c.challenge) /\ ~Violates(RowOf(c))
       THEN redemptions' = redemptions \cup {RowOf(c)} /\ Goto(r, "consumed")
       ELSE UNCHANGED redemptions /\ Goto(r, "issuing")
    /\ UNCHANGED <<config, node, resource_binding, delivery_outcomes, receipts, resource,
                   credential, charge, reply, upstream>>

\* One transaction: the challenge, the redemption and the pending outcome.  A
\* challenge already consumed or a duplicate rolls it back: "replay".
ConsumeRedemption(r) ==
    LET c == credential[r] IN
    /\ stage[r] = "settled"
    /\ IF Unconsumed(c.challenge) /\ ~Violates(RowOf(c))
       THEN /\ consumed_at' = consumed_at \cup {c.challenge}
            /\ redemptions' = redemptions \cup {RowOf(c)}
            /\ delivery_outcomes' = [delivery_outcomes EXCEPT ![c.challenge] = "pending"]
            /\ Goto(r, "consumed")
       ELSE /\ UNCHANGED <<consumed_at, redemptions, delivery_outcomes>>
            /\ Goto(r, "issuing")
    /\ UNCHANGED <<config, node, resource_binding, receipts, resource, credential,
                   charge, reply, upstream>>

-----------------------------------------------------------------------------
(* The upstream call and finish_upstream                                   *)

CallUpstream(r) ==
    /\ stage[r] = "consumed"
    /\ Goto(r, "upstream")
    /\ upstream' = [upstream EXCEPT ![r] = "sent"]
    /\ UNCHANGED <<config, node, store, resource, credential, charge, reply>>

\* The service answers 2xx or not...
UpstreamAnswers(r) ==
    /\ stage[r] = "upstream"
    /\ upstream[r] \in {"ok", "refused"}
    /\ Goto(r, upstream[r])
    /\ UNCHANGED <<config, node, store, resource, credential, charge, reply, upstream>>

\* Mutant: the upstream client has no timeout.
UpstreamNeverTimesOut(r) ==
    /\ stage[r] = "upstream"
    /\ upstream[r] = "lost"
    /\ Goto(r, "error")
    /\ UNCHANGED <<config, node, store, resource, credential, charge, reply, upstream>>

\* ... or the call ends without an answer: connection, timeout, size limit.
UpstreamFails(r) ==
    /\ stage[r] = "upstream"
    /\ Goto(r, "error")
    /\ UNCHANGED <<config, node, store, resource, credential, charge, reply, upstream>>

\* Mutant: any answer of the upstream is a delivery.
SaveAnyAnswer(r) ==
    /\ stage[r] \in {"ok", "refused", "error"}
    /\ delivery_outcomes' = [delivery_outcomes EXCEPT
           ![credential[r].challenge] = IF stage[r] = "error" THEN "failed" ELSE "delivered"]
    /\ IF stage[r] = "error" THEN Answer(r, "error")
       ELSE Goto(r, "receipting") /\ UNCHANGED reply
    /\ UNCHANGED <<config, node, resource_binding, consumed_at, redemptions, receipts,
                   resource, credential, charge, upstream>>

\* save_delivery: INSERT OR REPLACE, before the receipt.
SaveDelivery(r) ==
    /\ stage[r] \in {"ok", "refused", "error"}
    /\ delivery_outcomes' = [delivery_outcomes EXCEPT
           ![credential[r].challenge] = IF stage[r] = "ok" THEN "delivered" ELSE "failed"]
    /\ \/ stage[r] = "ok" /\ Goto(r, "receipting") /\ UNCHANGED reply
       \/ stage[r] = "refused" /\ Answer(r, "upstream")
       \/ stage[r] = "error" /\ Answer(r, "error")
    /\ UNCHANGED <<config, node, resource_binding, consumed_at, redemptions, receipts,
                   resource, credential, charge, upstream>>

ReceiptOf(c) == [reference |-> c.hash, challenge |-> c.challenge]

\* save_receipt: INSERT OR IGNORE on a taken reference or challenge.
SaveReceipt(r) ==
    LET new == ReceiptOf(credential[r]) IN
    /\ stage[r] = "receipting"
    /\ receipts' = IF \E old \in receipts : \/ old.reference = new.reference
                                            \/ old.challenge = new.challenge
                   THEN receipts
                   ELSE receipts \cup {new}
    /\ Answer(r, "receipt")
    /\ UNCHANGED <<config, node, resource_binding, consumed_at, redemptions,
                   delivery_outcomes, resource, credential, charge, upstream>>

-----------------------------------------------------------------------------
(* Faults                                                                  *)

\* Mutant: an error after the recorded delivery is itself recorded as a failure.
StoreFailsThenOverwrites(r) ==
    /\ "store" \in Faults
    /\ stage[r] \in {"ok", "refused", "error", "receipting"}
    /\ delivery_outcomes' = [delivery_outcomes EXCEPT ![credential[r].challenge] = "failed"]
    /\ Answer(r, "error")
    /\ UNCHANGED <<config, node, resource_binding, consumed_at, redemptions, receipts,
                   resource, credential, charge, upstream>>

\* A store call returns an error: its transaction is rolled back, the answer is a 500.
StoreFails(r) ==
    /\ "store" \in Faults
    /\ stage[r] \in {"invoiced", "settled", "ok", "refused", "error", "receipting"}
    /\ Answer(r, "error")
    /\ UNCHANGED <<config, node, store, resource, credential, charge, upstream>>

\* The redemption row cannot be inserted although nothing conflicts with it:
\* consume_redemption rolls back and reports a replay, whatever the error.
InsertFails(r) ==
    /\ "insert" \in Faults
    /\ stage[r] = "settled"
    /\ Unconsumed(credential[r].challenge)
    /\ Goto(r, "issuing")
    /\ UNCHANGED <<config, node, store, resource, credential, charge, reply, upstream>>

\* The client goes away: hyper drops the handler's future where it awaits.
Disconnect(r) ==
    /\ "drop" \in Faults
    /\ stage[r] \in Awaiting
    /\ Goto(r, "dropped")
    /\ UNCHANGED <<config, node, store, resource, credential, charge, reply, upstream>>

\* Mutant: a reload swaps the configuration under the running handlers.
Reload ==
    /\ "crash" \in Faults
    /\ config' \in Configs
    /\ UNCHANGED <<node, store, handlers, upstream>>

\* The process dies, or its shutdown grace elapses, and it starts again,
\* perhaps with rotated secrets.
Restart ==
    /\ "crash" \in Faults
    /\ config' \in Configs
    /\ stage' = [r \in Requests |-> IF stage[r] \in Over \cup {"idle"}
                                    THEN stage[r] ELSE "dropped"]
    /\ UNCHANGED <<node, store, resource, credential, charge, reply, upstream>>

-----------------------------------------------------------------------------
(* The environment: the payee's node, the clock, the protected service     *)

Pay(h) == invoices[h] = "Open" /\ invoices' = [invoices EXCEPT ![h] = "Received"]
Settle(h) == invoices[h] = "Received" /\ invoices' = [invoices EXCEPT ![h] = "Paid"]
Abandon(h) ==
    /\ invoices[h] \in {"Open", "Received"}
    /\ \E s \in {"Cancelled", "Expired"} : invoices' = [invoices EXCEPT ![h] = s]

NodeStep(h) ==
    /\ Pay(h) \/ Settle(h) \/ Abandon(h)
    /\ UNCHANGED <<config, expired, store, handlers, upstream>>

Expire(i) ==
    /\ Issued(i)
    /\ i \notin expired
    /\ expired' = expired \cup {i}
    /\ UNCHANGED <<config, invoices, store, handlers, upstream>>

\* The service serves a request that was sent to it, whether or not the handler
\* still waits; it may also refuse it or never see it.
ServiceStep(r) ==
    /\ upstream[r] = "sent"
    /\ \E s \in {"ok", "refused", "lost"} : upstream' = [upstream EXCEPT ![r] = s]
    /\ UNCHANGED <<config, node, store, handlers>>

-----------------------------------------------------------------------------

\* What the handler does by itself, once its request is in.
HandlerStep(r) ==
    \/ \E h \in Hashes : CreateCharge(r, h)
    \/ CreateChargeFails(r)
    \/ SaveChallenge(r)
    \/ PollPaid(r)
    \/ PollRejects(r)
    \/ PollPending(r)
    \/ PollAgain(r)
    \/ PollFails(r)
    \/ ConsumeRedemption(r)
    \/ CallUpstream(r)
    \/ UpstreamAnswers(r)
    \/ UpstreamFails(r)
    \/ SaveDelivery(r)
    \/ SaveReceipt(r)

Arrival(r) ==
    \/ \E res \in Resources : Arrive(r, res, None)
    \/ \E res \in Resources, c \in Credential : Issued(c.challenge) /\ Arrive(r, res, c)
    \/ Refuse(r)

\* Every request is over: nothing is left to do.
Quiescent == (\A r \in Requests : stage[r] \in Over) /\ UNCHANGED vars

Next ==
    \/ \E r \in Requests : Arrival(r) \/ HandlerStep(r)
    \/ \E r \in Requests :
           StoreFails(r) \/ InsertFails(r) \/ Disconnect(r) \/ ServiceStep(r)
    \/ Restart
    \/ \E h \in Hashes : NodeStep(h)
    \/ \E i \in ChallengeId : Expire(i)
    \/ Quiescent

Spec == Init /\ [][Next]_vars

\* The runtime polls every ready task, the settlement poll and both HTTP
\* clients have timeouts: a handler that can go on does, and a poll that finds its
\* invoice pending again and again gives up.
Fairness == \A r \in Requests : WF_vars(HandlerStep(r)) /\ SF_vars(PollFails(r))

FairSpec == Spec /\ Fairness

-----------------------------------------------------------------------------
(* Properties                                                              *)

\* A redemption is unique by challenge, by credential and by payment hash, even
\* when an MPP and an L402 retry of one payment race past the settlement poll
\* (consume_redemption).
RedeemedOnce ==
    \A a, b \in redemptions :
        a.challenge = b.challenge \/ a.credential = b.credential \/ a.hash = b.hash
        => a = b

\* One payment buys at most one upstream call, over every retry, every fault and
\* every restart (handle_gateway_request calls the upstream only after consuming).
ServedOnce ==
    \A r, s \in Requests :
        /\ upstream[r] # "none"
        /\ upstream[s] # "none"
        /\ credential[r].hash = credential[s].hash
        => r = s

\* The upstream is called only for a request whose credential is redeemed, whose
\* invoice is settled and whose resource is the one the challenge was issued for.
ServedIsPaid ==
    \A r \in Requests : upstream[r] # "none" =>
        /\ RowOf(credential[r]) \in redemptions
        /\ invoices[credential[r].hash] = "Paid"
        /\ resource_binding[credential[r].challenge] = resource[r]

\* The tables agree at every instant, crashes included: a challenge is consumed
\* exactly when it has a redemption and a delivery outcome, and it was issued
\* (the transaction of consume_redemption).
LedgerAgrees ==
    \A i \in ChallengeId :
        LET Redeemed == \E row \in redemptions : row.challenge = i IN
        /\ i \in consumed_at <=> Redeemed
        /\ delivery_outcomes[i] # "none" <=> Redeemed
        /\ Redeemed => Issued(i)

\* A recorded delivery means that the service really answered 2xx to the request
\* that redeemed the challenge; a receipt, stored or answered, is for a recorded
\* delivery (finish_upstream records the outcome before the receipt).
ReceiptIsEarned ==
    /\ \A i \in ChallengeId : delivery_outcomes[i] = "delivered" =>
           \E r \in Requests : /\ upstream[r] = "ok"
                               /\ credential[r].challenge = i
                               /\ RowOf(credential[r]) \in redemptions
    /\ \A rec \in receipts : /\ delivery_outcomes[rec.challenge] = "delivered"
                             /\ rec.reference = rec.challenge.hash
    /\ \A r \in Requests : reply[r] = "receipt" => ReceiptOf(credential[r]) \in receipts

\* A credential that passed the checks, whose invoice is settled and in the
\* currency still charged, is turned away with a fresh challenge only when its
\* challenge was redeemed by another request: neither an expiry that passes during
\* the settlement poll nor a rotation makes the gateway ask for a second payment
\* (verify_credential; "replay" is documented as a replay or concurrent duplicate).
PaidNotTurnedAway ==
    \A r \in Requests :
        /\ credential[r] # None
        /\ stage[r] \in {"issuing", "invoiced"}
        /\ invoices[credential[r].hash] = "Paid"
        /\ credential[r].challenge.currency = config.currency
        => credential[r].challenge \in consumed_at

\* A redemption nobody works on any more has a final outcome: what
\* docs/security.md says of a delivery that fails after payment.
FailureRecorded ==
    \A i \in ChallengeId : delivery_outcomes[i] = "pending" =>
        \E r \in Requests : /\ credential[r] # None
                            /\ credential[r].challenge = i
                            /\ stage[r] \in Redeeming

\* Nothing the store holds is taken back: challenges, redemptions and receipts
\* are immutable, and an outcome is recorded once, from pending.
HistoryKept ==
    [][/\ \A i \in ChallengeId : Issued(i) => resource_binding'[i] = resource_binding[i]
       /\ consumed_at \subseteq consumed_at'
       /\ redemptions \subseteq redemptions'
       /\ receipts \subseteq receipts'
       /\ \A i \in ChallengeId :
              \/ delivery_outcomes'[i] = delivery_outcomes[i]
              \/ delivery_outcomes[i] = "none" /\ delivery_outcomes'[i] = "pending"
              \/ /\ delivery_outcomes[i] = "pending"
                 /\ delivery_outcomes'[i] \in {"delivered", "failed"}]_vars

\* A challenge whose secret the running configuration no longer accepts is not
\* redeemed, however long its settlement poll took: the configuration a handler
\* started under lasts as long as the handler (Arc<GatewayConfig>).
RetiredSecretsRedeemNothing ==
    [][\A i \in consumed_at' : i \notin consumed_at => i.key \in VerifyKeys]_vars

\* Every request that came in is answered, unless its client left or the process
\* died: the settlement poll and the upstream call are bounded.
Answered == \A r \in Requests : stage[r] # "idle" ~> stage[r] \in Over

\* As long as RPC and store answer, a payment that is settled when the node answers
\* a read of its poll is redeemed, by this request or another one, unless the
\* handler is dropped: the poll gives up only on an answer that was pending, never
\* between two reads.  A settlement that comes after the answer of the last read
\* is not seen: that request ends in InvoiceTimeout, and the payment waits for a
\* retry (Poll bounds how late such a settlement can be).
PaidIsRedeemed ==
    \A r \in Requests :
        stage[r] = "polling" /\ invoices[credential[r].hash] = "Paid"
        ~> \/ credential[r] # None /\ credential[r].challenge \in consumed_at
           \/ stage[r] = "dropped"

-----------------------------------------------------------------------------
(* The gateway implements the promise of PaidDelivery.                     *)

HashesOf(outcome) == {i.hash : i \in {j \in ChallengeId : delivery_outcomes[j] = outcome}}

Promise == INSTANCE PaidDelivery WITH
    Payments <- Hashes,
    paid <- {h \in Hashes : invoices[h] = "Paid"},
    redeemed <- {row.hash : row \in redemptions},
    runs <- {hr \in Hashes \X Requests : /\ upstream[hr[2]] = "ok"
                                        /\ credential[hr[2]].hash = hr[1]},
    delivered <- HashesOf("delivered"),
    failed <- HashesOf("failed"),
    receipted <- {rec.reference : rec \in receipts}

\* Every step of the gateway is a step of PaidDelivery or changes nothing there.
KeepsPromise == Promise!Spec
=============================================================================
