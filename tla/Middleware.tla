----------------------------- MODULE Middleware -----------------------------
(***************************************************************************)
(* The TypeScript middleware (packages/server-middleware) over the         *)
(* TypeScript store (packages/storage).  The life cycle is the gateway's,  *)
(* with three differences this module is about: every store call is        *)
(* awaited, so other requests run between any two of them; a payment       *)
(* observation is saved between the redemption and the delivery; and the   *)
(* delivery is inside a try whose catch records a failure and answers it.  *)
(* A request is a promise chain: nothing drops it but the end of the       *)
(* process.  A challenge is identified with its payment hash here: one     *)
(* challenge is issued per invoice.                                        *)
(***************************************************************************)
EXTENDS Integers, FiniteSets

CONSTANTS
    Requests,
    Hashes,
    Resources,
    MayCrash,         \* whether the process may die
    MaxStoreFailures, \* bound: how many store calls may fail
    None

ASSUME MiddlewareAssumption ==
    MayCrash \in BOOLEAN /\ MaxStoreFailures \in Nat /\ None \notin Hashes \cup Resources

\* A credential may name a source; its hash covers it.
Sources == {"absent", "payer"}
Credential == [challenge : Hashes, source : Sources]

ASSUME NoCredential == None \notin Credential

InvoiceStatus == {"none", "Open", "Received", "Paid", "Cancelled", "Expired"}
Outcome == {"none", "pending", "delivered", "failed"}

\* "failing" is the catch block.
Stage == {"idle", "issuing", "invoiced", "polling", "settled", "redeemed", "consumed",
          "upstream", "ok", "refused", "failing", "receipting", "receipted", "done", "dead"}
Over == {"done", "dead"}
Delivering == {"redeemed", "consumed", "upstream", "ok", "refused", "failing"}
Reply == {"none", "challenge", "receipt", "upstream", "error"}

VARIABLES
    invoices, expired,
    resource_binding, consumed_at, redemptions, payment_observations,
    delivery_outcomes, receipts,
    storeFailures,
    stage, resource, credential, charge, upstream, reply

node == <<invoices, expired>>
tables == <<resource_binding, consumed_at, redemptions, payment_observations,
            delivery_outcomes, receipts>>
store == <<tables, storeFailures>>
chain == <<stage, resource, credential, charge, reply>>
vars == <<node, store, chain, upstream>>

TypeOK ==
    /\ invoices \in [Hashes -> InvoiceStatus]
    /\ expired \subseteq Hashes
    /\ resource_binding \in [Hashes -> Resources \cup {None}]
    /\ consumed_at \subseteq Hashes
    /\ redemptions \subseteq Credential
    /\ payment_observations \subseteq Hashes
    /\ delivery_outcomes \in [Hashes -> Outcome]
    /\ receipts \subseteq Hashes
    /\ storeFailures \in 0..MaxStoreFailures
    /\ stage \in [Requests -> Stage]
    /\ resource \in [Requests -> Resources \cup {None}]
    /\ credential \in [Requests -> Credential \cup {None}]
    /\ charge \in [Requests -> Hashes \cup {None}]
    /\ upstream \in [Requests -> {"none", "sent", "ok", "refused", "lost"}]
    /\ reply \in [Requests -> Reply]

Init ==
    /\ invoices = [h \in Hashes |-> "none"]
    /\ expired = {}
    /\ resource_binding = [h \in Hashes |-> None]
    /\ consumed_at = {}
    /\ redemptions = {}
    /\ payment_observations = {}
    /\ delivery_outcomes = [h \in Hashes |-> "none"]
    /\ receipts = {}
    /\ storeFailures = 0
    /\ stage = [r \in Requests |-> "idle"]
    /\ resource = [r \in Requests |-> None]
    /\ credential = [r \in Requests |-> None]
    /\ charge = [r \in Requests |-> None]
    /\ upstream = [r \in Requests |-> "none"]
    /\ reply = [r \in Requests |-> "none"]

Goto(r, s) == stage' = [stage EXCEPT ![r] = s]

Answer(r, what) ==
    /\ Goto(r, "done")
    /\ reply' = [reply EXCEPT ![r] = what]

\* A store call that throws, leaving the tables as they were.
StoreThrows ==
    /\ storeFailures < MaxStoreFailures
    /\ storeFailures' = storeFailures + 1
    /\ UNCHANGED tables

-----------------------------------------------------------------------------
(* protect, before the settlement                                          *)

Issued(h) == resource_binding[h] # None

\* The checks of verifyCredential that precede verifyPayload.
Acceptable(c, res) == /\ resource_binding[c.challenge] = res
                      /\ c.challenge \notin expired

Arrive(r, res, c) ==
    /\ stage[r] = "idle"
    /\ resource' = [resource EXCEPT ![r] = res]
    /\ \/ /\ c # None
          /\ Acceptable(c, res)
          /\ credential' = [credential EXCEPT ![r] = c]
          /\ Goto(r, "polling")
       \/ /\ c # None => ~Acceptable(c, res)
          /\ UNCHANGED credential
          /\ Goto(r, "issuing")
    /\ UNCHANGED <<node, store, charge, reply, upstream>>

\* getChallenge throws: a 500, but a fresh challenge for an L402 credential, whose
\* every error becomes a 402.
ReadFails(r, res) ==
    /\ stage[r] = "idle"
    /\ StoreThrows
    /\ resource' = [resource EXCEPT ![r] = res]
    /\ \/ Answer(r, "error")
       \/ Goto(r, "issuing") /\ UNCHANGED reply
    /\ UNCHANGED <<node, credential, charge, upstream>>

CreateCharge(r, h) ==
    /\ stage[r] = "issuing"
    /\ invoices[h] = "none"
    /\ invoices' = [invoices EXCEPT ![h] = "Open"]
    /\ charge' = [charge EXCEPT ![r] = h]
    /\ Goto(r, "invoiced")
    /\ UNCHANGED <<expired, store, resource, credential, reply, upstream>>

\* The RPC fails, before or after the invoice exists: the chain rejects.
CreateChargeFails(r) ==
    /\ stage[r] = "issuing"
    /\ \/ UNCHANGED invoices
       \/ \E h \in Hashes : /\ invoices[h] = "none"
                            /\ invoices' = [invoices EXCEPT ![h] = "Open"]
    /\ Answer(r, "error")
    /\ UNCHANGED <<expired, store, resource, credential, charge, upstream>>

SaveChallenge(r) ==
    /\ stage[r] = "invoiced"
    /\ resource_binding' =
           [resource_binding EXCEPT ![charge[r]] = IF @ = None THEN resource[r] ELSE @]
    /\ Answer(r, "challenge")
    /\ UNCHANGED <<node, consumed_at, redemptions, payment_observations, delivery_outcomes,
                   receipts, storeFailures, resource, credential, charge, upstream>>

\* A store call of issueChallenge throws: the chain rejects.
SaveChallengeFails(r) ==
    /\ stage[r] = "invoiced"
    /\ StoreThrows
    /\ Answer(r, "error")
    /\ UNCHANGED <<node, resource, credential, charge, upstream>>

\* Mutant: an invoice the payee holds but has not settled counts as paid.
PollReceived(r) ==
    /\ stage[r] = "polling"
    /\ invoices[credential[r].challenge] \in {"Received", "Paid"}
    /\ Goto(r, "settled")
    /\ UNCHANGED <<node, store, resource, credential, charge, reply, upstream>>

\* verifyPayload reads the invoice as Paid.
PollPaid(r) ==
    /\ stage[r] = "polling"
    /\ invoices[credential[r].challenge] = "Paid"
    /\ Goto(r, "settled")
    /\ UNCHANGED <<node, store, resource, credential, charge, reply, upstream>>

\* The 402 errors of verifyPayload: a terminal invoice.
PollRejects(r) ==
    /\ stage[r] = "polling"
    /\ invoices[credential[r].challenge] \in {"Cancelled", "Expired"}
    /\ Goto(r, "issuing")
    /\ UNCHANGED <<node, store, resource, credential, charge, reply, upstream>>

\* A failing RPC, or the deadline, which is tested before the read: a payment that
\* settles during the last sleep is not seen.
PollFails(r) ==
    /\ stage[r] = "polling"
    /\ Answer(r, "error")
    /\ UNCHANGED <<node, store, resource, credential, charge, upstream>>

-----------------------------------------------------------------------------
(* consumeRedemption and savePaymentObservation                            *)

Unconsumed(h) == Issued(h) /\ h \notin consumed_at
Violates(c) == \E old \in redemptions : old.challenge = c.challenge \/ old = c

\* BEGIN IMMEDIATE ... COMMIT.
ConsumeRedemption(r) ==
    LET c == credential[r] IN
    /\ stage[r] = "settled"
    /\ IF Unconsumed(c.challenge) /\ ~Violates(c)
       THEN /\ consumed_at' = consumed_at \cup {c.challenge}
            /\ redemptions' = redemptions \cup {c}
            /\ delivery_outcomes' = [delivery_outcomes EXCEPT ![c.challenge] = "pending"]
            /\ Goto(r, "redeemed")
       ELSE /\ UNCHANGED <<consumed_at, redemptions, delivery_outcomes>>
            /\ Goto(r, "issuing")
    /\ UNCHANGED <<node, resource_binding, payment_observations, receipts, storeFailures,
                   resource, credential, charge, reply, upstream>>

\* Mutant: the catch forgets the ROLLBACK, and the next commit keeps the UPDATE.
ConsumeFailsHalfway(r) ==
    /\ stage[r] = "settled"
    /\ storeFailures < MaxStoreFailures
    /\ storeFailures' = storeFailures + 1
    /\ consumed_at' = consumed_at \cup {credential[r].challenge}
    /\ Goto(r, "issuing")
    /\ UNCHANGED <<node, resource_binding, redemptions, payment_observations,
                   delivery_outcomes, receipts, resource, credential, charge, reply, upstream>>

\* An error inside the transaction is rolled back and read as a replay; one of
\* BEGIN is a 500.
ConsumeFails(r) ==
    /\ stage[r] = "settled"
    /\ StoreThrows
    /\ \/ Goto(r, "issuing") /\ UNCHANGED reply
       \/ Answer(r, "error")
    /\ UNCHANGED <<node, resource, credential, charge, upstream>>

SaveObservation(r) ==
    /\ stage[r] = "redeemed"
    /\ payment_observations' = payment_observations \cup {credential[r].challenge}
    /\ Goto(r, "consumed")
    /\ UNCHANGED <<node, resource_binding, consumed_at, redemptions, delivery_outcomes,
                   receipts, storeFailures, resource, credential, charge, reply, upstream>>

\* verifyCredential throws after the redemption committed: outside the try of the
\* delivery, so nothing is recorded.
SaveObservationFails(r) ==
    /\ stage[r] = "redeemed"
    /\ StoreThrows
    /\ Answer(r, "error")
    /\ UNCHANGED <<node, resource, credential, charge, upstream>>

-----------------------------------------------------------------------------
(* The delivery                                                            *)

\* The handler: of serve, the reverse proxy, which sends the request on.
CallHandler(r) ==
    /\ stage[r] = "consumed"
    /\ Goto(r, "upstream")
    /\ upstream' = [upstream EXCEPT ![r] = "sent"]
    /\ UNCHANGED <<node, store, resource, credential, charge, reply>>

HandlerReturns(r) ==
    /\ stage[r] = "upstream"
    /\ upstream[r] \in {"ok", "refused"}
    /\ Goto(r, upstream[r])
    /\ UNCHANGED <<node, store, resource, credential, charge, reply, upstream>>

\* It throws: the service failed, the timeout or the client aborted the call, or the
\* answer is too large.
HandlerThrows(r) ==
    /\ stage[r] = "upstream"
    /\ Goto(r, "failing")
    /\ UNCHANGED <<node, store, resource, credential, charge, reply, upstream>>

SaveOutcome(r, status) ==
    /\ delivery_outcomes' = [delivery_outcomes EXCEPT ![credential[r].challenge] = status]
    /\ UNCHANGED <<node, resource_binding, consumed_at, redemptions, payment_observations,
                   receipts, storeFailures, resource, credential, charge, upstream>>

\* A 2xx is recorded and goes on to its receipt; another status is recorded and
\* passed on.
SaveDelivery(r) ==
    \/ /\ stage[r] = "ok"
       /\ SaveOutcome(r, "delivered")
       /\ Goto(r, "receipting")
       /\ UNCHANGED reply
    \/ /\ stage[r] = "refused"
       /\ SaveOutcome(r, "failed")
       /\ Answer(r, "upstream")

SaveReceipt(r) ==
    /\ stage[r] = "receipting"
    /\ receipts' = receipts \cup {credential[r].challenge}
    /\ Goto(r, "receipted")
    /\ UNCHANGED <<node, resource_binding, consumed_at, redemptions, payment_observations,
                   delivery_outcomes, storeFailures, resource, credential, charge, reply,
                   upstream>>

AnswerReceipt(r) ==
    /\ stage[r] = "receipted"
    /\ Answer(r, "receipt")
    /\ UNCHANGED <<node, store, resource, credential, charge, upstream>>

\* Mutant: the stores of the delivery are outside the try.
DeliveryStoreRejects(r) ==
    /\ stage[r] \in {"ok", "refused", "receipting"}
    /\ StoreThrows
    /\ Answer(r, "error")
    /\ UNCHANGED <<node, resource, credential, charge, upstream>>

\* saveDeliveryOutcome or saveReceipt throws inside the try.
DeliveryStoreFails(r) ==
    /\ stage[r] \in {"ok", "refused", "receipting"}
    /\ StoreThrows
    /\ Goto(r, "failing")
    /\ UNCHANGED <<node, resource, credential, charge, reply, upstream>>

\* Mutant: the catch only answers.
CatchAnswers(r) ==
    /\ stage[r] = "failing"
    /\ Answer(r, "error")
    /\ UNCHANGED <<node, store, resource, credential, charge, upstream>>

\* The catch: the failure replaces whatever outcome was recorded, also a delivered
\* one whose receipt could not be saved.
SaveFailure(r) ==
    /\ stage[r] = "failing"
    /\ SaveOutcome(r, "failed")
    /\ Answer(r, "error")

SaveFailureFails(r) ==
    /\ stage[r] = "failing"
    /\ StoreThrows
    /\ Answer(r, "error")
    /\ UNCHANGED <<node, resource, credential, charge, upstream>>

-----------------------------------------------------------------------------
(* The process and its environment                                         *)

Crash ==
    /\ MayCrash
    /\ stage' = [r \in Requests |-> IF stage[r] \in Over \cup {"idle"} THEN stage[r] ELSE "dead"]
    /\ UNCHANGED <<node, store, resource, credential, charge, reply, upstream>>

Pay(h) == invoices[h] = "Open" /\ invoices' = [invoices EXCEPT ![h] = "Received"]
Settle(h) == invoices[h] = "Received" /\ invoices' = [invoices EXCEPT ![h] = "Paid"]
Abandon(h) ==
    /\ invoices[h] \in {"Open", "Received"}
    /\ \E s \in {"Cancelled", "Expired"} : invoices' = [invoices EXCEPT ![h] = s]

NodeStep(h) ==
    /\ Pay(h) \/ Settle(h) \/ Abandon(h)
    /\ UNCHANGED <<expired, store, chain, upstream>>

Expire(h) ==
    /\ Issued(h)
    /\ h \notin expired
    /\ expired' = expired \cup {h}
    /\ UNCHANGED <<invoices, store, chain, upstream>>

\* The service works on a request, whether or not the middleware still waits.
ServiceStep(r) ==
    /\ upstream[r] = "sent"
    /\ \E s \in {"ok", "refused", "lost"} : upstream' = [upstream EXCEPT ![r] = s]
    /\ UNCHANGED <<node, store, chain>>

-----------------------------------------------------------------------------

ChainStep(r) ==
    \/ \E h \in Hashes : CreateCharge(r, h)
    \/ CreateChargeFails(r)
    \/ SaveChallenge(r)
    \/ PollPaid(r)
    \/ PollRejects(r)
    \/ PollFails(r)
    \/ ConsumeRedemption(r)
    \/ SaveObservation(r)
    \/ CallHandler(r)
    \/ HandlerReturns(r)
    \/ HandlerThrows(r)
    \/ SaveDelivery(r)
    \/ SaveReceipt(r)
    \/ AnswerReceipt(r)
    \/ SaveFailure(r)

StoreFailure(r) ==
    \/ \E res \in Resources : ReadFails(r, res)
    \/ SaveChallengeFails(r)
    \/ ConsumeFails(r)
    \/ SaveObservationFails(r)
    \/ DeliveryStoreFails(r)
    \/ SaveFailureFails(r)

Arrival(r) ==
    \/ \E res \in Resources : Arrive(r, res, None)
    \/ \E res \in Resources, c \in Credential : Issued(c.challenge) /\ Arrive(r, res, c)

Quiescent == (\A r \in Requests : stage[r] \in Over) /\ UNCHANGED vars

Next ==
    \/ \E r \in Requests : Arrival(r) \/ ChainStep(r) \/ StoreFailure(r) \/ ServiceStep(r)
    \/ Crash
    \/ \E h \in Hashes : NodeStep(h) \/ Expire(h)
    \/ Quiescent

Spec == Init /\ [][Next]_vars

-----------------------------------------------------------------------------
(* Properties                                                              *)

\* The tables agree at every instant: a challenge is consumed exactly when it has one
\* redemption and an outcome, and an observation is of a redeemed one (the ROLLBACK of
\* consumeRedemption).
LedgerAgrees ==
    /\ consumed_at = {c.challenge : c \in redemptions}
    /\ \A c, d \in redemptions : c.challenge = d.challenge => c = d
    /\ \A h \in Hashes : delivery_outcomes[h] # "none" <=> h \in consumed_at
    /\ payment_observations \subseteq consumed_at

\* With one failing store call, the outcome agrees with the answer: recorded as
\* delivered exactly while a receipt is on its way or was sent, so a payer who got an
\* error is on the list of failures (the catch of protect).
RecordMatchesAnswer ==
    /\ \A h \in Hashes : delivery_outcomes[h] = "delivered" =>
           \E r \in Requests :
               /\ credential[r] # None
               /\ credential[r].challenge = h
               /\ stage[r] \in {"receipting", "receipted", "failing", "dead"} \/ reply[r] = "receipt"
    /\ \A r \in Requests : reply[r] = "receipt" =>
           /\ delivery_outcomes[credential[r].challenge] = "delivered"
           /\ credential[r].challenge \in receipts

\* A redemption stays pending for ever only when the process died or a store call
\* failed: a handler that threw, timed out or was aborted by its client is recorded
\* (the catch of protect).
FailureNotForgotten ==
    \A h \in Hashes : delivery_outcomes[h] = "pending" =>
        \/ storeFailures > 0
        \/ \E r \in Requests : /\ credential[r] # None
                               /\ credential[r].challenge = h
                               /\ stage[r] \in Delivering \cup {"dead"}

-----------------------------------------------------------------------------
(* The middleware keeps the promise of PaidDelivery, the delivery being    *)
(* settled with the receipt: until then the catch may still turn it into a *)
(* failure.                                                                *)

Promise == INSTANCE PaidDelivery WITH
    Payments <- Hashes,
    paid <- {h \in Hashes : invoices[h] = "Paid"},
    redeemed <- {c.challenge : c \in redemptions},
    runs <- {hr \in Hashes \X Requests : /\ upstream[hr[2]] = "ok"
                                        /\ credential[hr[2]].challenge = hr[1]},
    delivered <- receipts,
    failed <- {h \in Hashes : delivery_outcomes[h] = "failed"},
    receipted <- {credential[r].challenge : r \in {q \in Requests : reply[q] = "receipt"}}

\* Every step of the middleware, failing store calls included, is a step of
\* PaidDelivery or changes nothing there.
KeepsPromise == Promise!Spec
=============================================================================
