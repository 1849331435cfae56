------------------------- MODULE Middleware_proofs -------------------------
(***************************************************************************)
(* The safety of Middleware, for any number of requests, payment hashes    *)
(* and resources, with or without crashes and for any number of failing    *)
(* store calls.  IInv says which request works for which redemption and    *)
(* how far its record has come.  The last part is about the entrances a    *)
(* credential comes by (Entrances).                                        *)
(***************************************************************************)
EXTENDS Middleware, Entrances, TLAPS

USE MiddlewareAssumption, NoCredential

-----------------------------------------------------------------------------
(* The inductive invariant                                                 *)

\* The stages after the redemption.
Working == Delivering \cup {"receipting", "receipted"}

\* The request redeemed its credential and works for it, or called the service.
Holder(r) == stage[r] \in Working \/ upstream[r] # "none"

ChainOK(r) ==
    /\ stage[r] = "idle" => credential[r] = None
    /\ stage[r] \in {"issuing", "invoiced", "polling", "settled"} => resource[r] \in Resources
    /\ stage[r] = "invoiced" => charge[r] \in Hashes
    /\ stage[r] \in {"polling", "settled"} => credential[r] \in Credential
    /\ credential[r] # None => Issued(credential[r].challenge)
    /\ stage[r] = "settled" => invoices[credential[r].challenge] = "Paid"
    /\ stage[r] \in {"idle", "issuing", "invoiced", "polling", "settled", "redeemed",
                     "consumed"} => upstream[r] = "none"
    /\ stage[r] \in {"ok", "receipting", "receipted"} => upstream[r] = "ok"
    /\ reply[r] # "none" => stage[r] = "done"
    /\ reply[r] = "receipt" => upstream[r] = "ok"

HolderOK(r) ==
    Holder(r) => /\ credential[r] \in redemptions
                 /\ \A q \in Requests :
                        Holder(q) /\ credential[q].challenge = credential[r].challenge => q = r

\* How far the record of a redemption has come, by the stage of the request that holds it.
OutcomeOK(r) ==
    LET h == credential[r].challenge IN
    /\ stage[r] \in {"redeemed", "consumed", "upstream", "ok", "refused"} =>
           delivery_outcomes[h] = "pending"
    /\ stage[r] = "failing" =>
           \/ delivery_outcomes[h] = "pending"
           \/ delivery_outcomes[h] = "delivered" /\ storeFailures > 0
    /\ stage[r] \in Working \ {"receipted"} => h \notin receipts
    /\ stage[r] \in {"receipting", "receipted"} \/ reply[r] = "receipt" =>
           delivery_outcomes[h] = "delivered"
    /\ stage[r] = "receipted" \/ reply[r] = "receipt" => h \in receipts

\* A redemption is of a settled invoice; a receipt of a delivered redemption.
RowsOK ==
    /\ \A c \in redemptions : invoices[c.challenge] = "Paid"
    /\ \A h \in receipts : delivery_outcomes[h] = "delivered"

\* Two store calls must fail before a record says delivered to a payer who was told
\* of an error.
DeliveredIsAnswered ==
    \A h \in Hashes : delivery_outcomes[h] = "delivered" =>
        \/ storeFailures > 1
        \/ \E r \in Requests :
               /\ credential[r] # None
               /\ credential[r].challenge = h
               /\ \/ stage[r] \in {"receipting", "receipted", "failing", "dead"}
                  \/ reply[r] = "receipt"

IInv ==
    /\ TypeOK
    /\ \A r \in Requests : ChainOK(r)
    /\ \A r \in Requests : HolderOK(r)
    /\ \A r \in Requests : OutcomeOK(r)
    /\ RowsOK
    /\ LedgerAgrees
    /\ FailureNotForgotten
    /\ DeliveredIsAnswered

-----------------------------------------------------------------------------
(* Type correctness                                                        *)

LEMMA TypeStep == IInv /\ [Next]_vars => TypeOK'
<1> SUFFICES ASSUME IInv, [Next]_vars PROVE TypeOK'
  OBVIOUS
<1> USE DEF IInv, TypeOK, node, tables, store, chain, Goto, Answer, StoreThrows
<1>1. ASSUME NEW r \in Requests, NEW res \in Resources, NEW c \in Credential \cup {None},
             Arrive(r, res, c)
      PROVE  TypeOK'
  BY <1>1 DEF Arrive, Stage
<1>2. ASSUME NEW r \in Requests, ChainStep(r)
      PROVE  TypeOK'
  <2>1. ASSUME NEW h \in Hashes, CreateCharge(r, h)
        PROVE  TypeOK'
    BY <2>1 DEF CreateCharge, Stage, InvoiceStatus
  <2>2. CASE CreateChargeFails(r)
    BY <2>2 DEF CreateChargeFails, Stage, Reply, InvoiceStatus
  <2>3. CASE SaveChallenge(r)
    BY <2>3 DEF SaveChallenge, Stage, Reply, ChainOK
  <2>4. CASE PollPaid(r) \/ PollRejects(r) \/ PollFails(r)
    BY <2>4 DEF PollPaid, PollRejects, PollFails, Stage, Reply
  <2>5. CASE ConsumeRedemption(r)
    BY <2>5 DEF ConsumeRedemption, ChainOK, Stage, Outcome, Credential
  <2>6. CASE SaveObservation(r)
    BY <2>6 DEF SaveObservation, Stage, HolderOK, Holder, Working, Delivering, Credential
  <2>7. CASE CallHandler(r) \/ HandlerReturns(r) \/ HandlerThrows(r)
    BY <2>7 DEF CallHandler, HandlerReturns, HandlerThrows, Stage
  <2>8. CASE SaveDelivery(r) \/ SaveFailure(r)
    BY <2>8 DEF SaveDelivery, SaveFailure, SaveOutcome, Stage, Outcome, Reply
  <2>9. CASE SaveReceipt(r)
    BY <2>9 DEF SaveReceipt, Stage, HolderOK, Holder, Working, Credential
  <2>10. CASE AnswerReceipt(r)
    BY <2>10 DEF AnswerReceipt, Stage, Reply
  <2>11. QED
    BY <1>2, <2>1, <2>2, <2>3, <2>4, <2>5, <2>6, <2>7, <2>8, <2>9, <2>10 DEF ChainStep
<1>3. ASSUME NEW r \in Requests, StoreFailure(r)
      PROVE  TypeOK'
  BY <1>3 DEF StoreFailure, ReadFails, SaveChallengeFails, ConsumeFails,
              SaveObservationFails, DeliveryStoreFails, SaveFailureFails, Stage, Reply
<1>4. ASSUME NEW r \in Requests, ServiceStep(r)
      PROVE  TypeOK'
  BY <1>4 DEF ServiceStep
<1>5. CASE Crash
  BY <1>5 DEF Crash, Stage
<1>6. ASSUME NEW h \in Hashes, NodeStep(h) \/ Expire(h)
      PROVE  TypeOK'
  BY <1>6 DEF NodeStep, Pay, Settle, Abandon, Expire, InvoiceStatus
<1>7. CASE UNCHANGED vars
  BY <1>7 DEF vars
<1>8. QED
  BY <1>1, <1>2, <1>3, <1>4, <1>5, <1>6, <1>7 DEF Next, Arrival, Quiescent

-----------------------------------------------------------------------------
(* Frames: which step writes what                                          *)

\* A successful consumeRedemption: the row of a settled credential whose challenge was
\* not redeemed enters with its challenge and its pending outcome.
Redeems(r) ==
    LET c == credential[r] IN
    /\ stage[r] = "settled"
    /\ c \in Credential
    /\ invoices[c.challenge] = "Paid"
    /\ c.challenge \notin consumed_at
    /\ \A old \in redemptions : old.challenge # c.challenge
    /\ consumed_at' = consumed_at \cup {c.challenge}
    /\ redemptions' = redemptions \cup {c}
    /\ delivery_outcomes' = [delivery_outcomes EXCEPT ![c.challenge] = "pending"]
    /\ stage' = [stage EXCEPT ![r] = "redeemed"]
    /\ UNCHANGED <<node, resource_binding, payment_observations, receipts, storeFailures,
                   resource, credential, charge, reply, upstream>>

LEMMA ConsumeCases ==
    ASSUME IInv, NEW r \in Requests, ConsumeRedemption(r)
    PROVE  \/ Redeems(r)
           \/ /\ stage' = [stage EXCEPT ![r] = "issuing"]
              /\ UNCHANGED <<node, store, resource, credential, charge, reply, upstream>>
<1>1. stage[r] = "settled"
  BY DEF ConsumeRedemption
<1>2. credential[r] \in Credential /\ invoices[credential[r].challenge] = "Paid"
  BY <1>1 DEF IInv, ChainOK
<1>3. QED
  BY <1>1, <1>2 DEF ConsumeRedemption, Redeems, Unconsumed, Violates, Goto, store, tables

LEMMA WhoWrites ==
    [Next]_vars =>
        \/ UNCHANGED <<consumed_at, redemptions, delivery_outcomes, receipts>>
        \/ \E r \in Requests : \/ ConsumeRedemption(r) \/ SaveDelivery(r)
                               \/ SaveReceipt(r) \/ SaveFailure(r)
BY DEF Next, Arrival, ChainStep, StoreFailure, Quiescent, Arrive, ReadFails, CreateCharge,
       CreateChargeFails, SaveChallenge, SaveChallengeFails, PollPaid, PollRejects, PollFails,
       ConsumeFails, SaveObservation, SaveObservationFails, CallHandler, HandlerReturns,
       HandlerThrows, AnswerReceipt, DeliveryStoreFails, SaveFailureFails, StoreThrows,
       ServiceStep, Crash, NodeStep, Expire, vars, store, tables

LEMMA WhoObserves ==
    [Next]_vars => \/ UNCHANGED payment_observations
                   \/ \E r \in Requests : SaveObservation(r)
BY DEF Next, Arrival, ChainStep, StoreFailure, Quiescent, Arrive, ReadFails, CreateCharge,
       CreateChargeFails, SaveChallenge, SaveChallengeFails, PollPaid, PollRejects, PollFails,
       ConsumeRedemption, ConsumeFails, SaveObservationFails, CallHandler, HandlerReturns,
       HandlerThrows, SaveDelivery, SaveReceipt, SaveFailure, SaveOutcome, AnswerReceipt,
       DeliveryStoreFails, SaveFailureFails, StoreThrows, ServiceStep, Crash, NodeStep, Expire,
       vars, store, tables

LEMMA WhoIssues ==
    [Next]_vars => \/ UNCHANGED resource_binding
                   \/ \E r \in Requests : SaveChallenge(r)
BY DEF Next, Arrival, ChainStep, StoreFailure, Quiescent, Arrive, ReadFails, CreateCharge,
       CreateChargeFails, SaveChallengeFails, PollPaid, PollRejects, PollFails,
       ConsumeRedemption, ConsumeFails, SaveObservation, SaveObservationFails, CallHandler,
       HandlerReturns, HandlerThrows, SaveDelivery, SaveReceipt, SaveFailure, SaveOutcome,
       AnswerReceipt, DeliveryStoreFails, SaveFailureFails, StoreThrows, ServiceStep, Crash,
       NodeStep, Expire, vars, store, tables

LEMMA WhoMovesInvoices ==
    [Next]_vars => \/ UNCHANGED invoices
                   \/ \E r \in Requests, h \in Hashes : CreateCharge(r, h)
                   \/ \E r \in Requests : CreateChargeFails(r)
                   \/ \E h \in Hashes : NodeStep(h)
BY DEF Next, Arrival, ChainStep, StoreFailure, Quiescent, Arrive, ReadFails, SaveChallenge,
       SaveChallengeFails, PollPaid, PollRejects, PollFails, ConsumeRedemption, ConsumeFails,
       SaveObservation, SaveObservationFails, CallHandler, HandlerReturns, HandlerThrows,
       SaveDelivery, SaveReceipt, SaveFailure, SaveOutcome, AnswerReceipt,
       DeliveryStoreFails, SaveFailureFails, ServiceStep, Crash, Expire, vars, node

LEMMA WhoPresents ==
    [Next]_vars => \/ UNCHANGED credential
                   \/ \E r \in Requests, res \in Resources, c \in Credential \cup {None} :
                          Arrive(r, res, c) /\ (c # None => Issued(c.challenge))
BY DEF Next, Arrival, ChainStep, StoreFailure, Quiescent, ReadFails, CreateCharge,
       CreateChargeFails, SaveChallenge, SaveChallengeFails, PollPaid, PollRejects, PollFails,
       ConsumeRedemption, ConsumeFails, SaveObservation, SaveObservationFails, CallHandler,
       HandlerReturns, HandlerThrows, SaveDelivery, SaveReceipt, SaveFailure, SaveOutcome,
       AnswerReceipt, DeliveryStoreFails, SaveFailureFails, ServiceStep, Crash, NodeStep,
       Expire, vars, chain

\* A settled invoice stays settled.
LEMMA PaidStep ==
    ASSUME IInv, [Next]_vars, NEW h \in Hashes, invoices[h] = "Paid"
    PROVE  invoices'[h] = "Paid"
<1> USE DEF IInv, TypeOK
<1>1. ASSUME NEW r \in Requests, NEW g \in Hashes, CreateCharge(r, g)
      PROVE  invoices'[h] = "Paid"
  BY <1>1 DEF CreateCharge
<1>2. ASSUME NEW r \in Requests, CreateChargeFails(r)
      PROVE  invoices'[h] = "Paid"
  BY <1>2 DEF CreateChargeFails
<1>3. ASSUME NEW g \in Hashes, NodeStep(g)
      PROVE  invoices'[h] = "Paid"
  BY <1>3 DEF NodeStep, Pay, Settle, Abandon
<1>4. QED
  BY <1>1, <1>2, <1>3, WhoMovesInvoices

\* An issued challenge keeps its resource.
LEMMA IssuedStep ==
    ASSUME IInv, [Next]_vars, NEW h \in Hashes, Issued(h)
    PROVE  resource_binding'[h] = resource_binding[h]
<1>1. ASSUME NEW r \in Requests, SaveChallenge(r)
      PROVE  resource_binding'[h] = resource_binding[h]
  BY <1>1 DEF SaveChallenge, IInv, TypeOK, ChainOK, Issued
<1>2. QED
  BY <1>1, WhoIssues

\* A request never changes the credential it verifies.
LEMMA CredentialStep ==
    ASSUME IInv, [Next]_vars, NEW r \in Requests, credential[r] # None
    PROVE  credential'[r] = credential[r]
<1>1. ASSUME NEW q \in Requests, NEW res \in Resources, NEW c \in Credential \cup {None},
             Arrive(q, res, c)
      PROVE  credential'[r] = credential[r]
  BY <1>1 DEF Arrive, IInv, TypeOK, ChainOK
<1>2. QED
  BY <1>1, WhoPresents

-----------------------------------------------------------------------------
(* What a request knows                                                    *)

LEMMA ChainStepOK == IInv /\ [Next]_vars => \A s \in Requests : ChainOK(s)'
<1> SUFFICES ASSUME IInv, [Next]_vars, NEW s \in Requests PROVE ChainOK(s)'
  OBVIOUS
<1> USE DEF IInv, TypeOK, node, tables, store, chain, Goto, Answer, StoreThrows, ChainOK, Issued
<1>1. /\ \A h \in Hashes : invoices[h] = "Paid" => invoices'[h] = "Paid"
      /\ \A h \in Hashes : Issued(h) => Issued(h)'
      /\ credential[s] # None => credential'[s] = credential[s]
      /\ credential[s] # None => credential[s] \in Credential /\ credential[s].challenge \in Hashes
  BY PaidStep, IssuedStep, CredentialStep DEF Credential
<1>2. ASSUME NEW r \in Requests, NEW res \in Resources, NEW c \in Credential \cup {None},
             Arrive(r, res, c), c # None => Issued(c.challenge)
      PROVE  ChainOK(s)'
  BY <1>2 DEF Arrive, Stage, Credential
<1>3. ASSUME NEW r \in Requests, ChainStep(r)
      PROVE  ChainOK(s)'
  <2>1. ASSUME NEW h \in Hashes, CreateCharge(r, h)
        PROVE  ChainOK(s)'
    BY <1>1, <2>1 DEF CreateCharge, Stage
  <2>2. CASE CreateChargeFails(r)
    BY <1>1, <2>2 DEF CreateChargeFails, Stage
  <2>3. CASE SaveChallenge(r)
    BY <1>1, <2>3 DEF SaveChallenge, Stage
  <2>4. CASE PollPaid(r) \/ PollRejects(r) \/ PollFails(r)
    BY <1>1, <2>4 DEF PollPaid, PollRejects, PollFails, Stage
  <2>5. CASE ConsumeRedemption(r)
    BY <1>1, <2>5 DEF ConsumeRedemption, Stage
  <2>6. CASE SaveObservation(r)
    BY <1>1, <2>6 DEF SaveObservation, Stage
  <2>7. CASE CallHandler(r) \/ HandlerReturns(r) \/ HandlerThrows(r)
    BY <1>1, <2>7 DEF CallHandler, HandlerReturns, HandlerThrows, Stage
  <2>8. CASE SaveDelivery(r) \/ SaveFailure(r)
    BY <1>1, <2>8 DEF SaveDelivery, SaveFailure, SaveOutcome, Stage
  <2>9. CASE SaveReceipt(r)
    BY <1>1, <2>9 DEF SaveReceipt, Stage
  <2>10. CASE AnswerReceipt(r)
    BY <1>1, <2>10 DEF AnswerReceipt, Stage
  <2>11. QED
    BY <1>3, <2>1, <2>2, <2>3, <2>4, <2>5, <2>6, <2>7, <2>8, <2>9, <2>10 DEF ChainStep
<1>4. ASSUME NEW r \in Requests, StoreFailure(r)
      PROVE  ChainOK(s)'
  BY <1>1, <1>4 DEF StoreFailure, ReadFails, SaveChallengeFails, ConsumeFails,
              SaveObservationFails, DeliveryStoreFails, SaveFailureFails, Stage
<1>5. ASSUME NEW r \in Requests, ServiceStep(r)
      PROVE  ChainOK(s)'
  BY <1>1, <1>5 DEF ServiceStep
<1>6. CASE Crash
  BY <1>1, <1>6 DEF Crash, Stage, Over
<1>7. ASSUME NEW h \in Hashes, NodeStep(h)
      PROVE  ChainOK(s)'
  BY <1>1, <1>7 DEF NodeStep
<1>8. ASSUME NEW h \in Hashes, Expire(h)
      PROVE  ChainOK(s)'
  BY <1>8 DEF Expire
<1>9. CASE UNCHANGED vars
  BY <1>9 DEF vars
<1>10. QED
  BY <1>2, <1>3, <1>4, <1>5, <1>6, <1>7, <1>8, <1>9 DEF Next, Arrival, Quiescent

-----------------------------------------------------------------------------
(* The owner of a redemption                                               *)

Pending == {"redeemed", "consumed", "upstream", "ok", "refused"}

\* How a request comes to the stages the invariant speaks of, and how it leaves them.
Walk(s) ==
    /\ stage'[s] \in Pending => stage[s] \in Pending \/ Redeems(s)
    /\ stage'[s] = "failing" => \/ stage[s] = "failing"
                                \/ stage[s] \in Pending
                                \/ stage[s] = "receipting" /\ storeFailures' > 0
    /\ stage'[s] = "receipting" => \/ stage[s] = "receipting"
                                   \/ stage[s] = "ok" /\ SaveDelivery(s)
    /\ stage'[s] = "receipted" => stage[s] = "receipted" \/ SaveReceipt(s)
    /\ reply'[s] = "receipt" => reply[s] = "receipt" \/ stage[s] = "receipted"
    /\ upstream'[s] # "none" => Holder(s)
    /\ stage[s] \in Delivering \cup {"dead"} =>
           \/ stage'[s] \in Delivering \cup {"dead"}
           \/ storeFailures' > 0
           \/ SaveDelivery(s)
           \/ SaveFailure(s)
    /\ stage[s] \in {"receipting", "receipted", "failing", "dead"} =>
           \/ stage'[s] \in {"receipting", "receipted", "failing", "dead"}
           \/ reply'[s] = "receipt"
           \/ SaveFailure(s)
           \/ stage[s] = "failing" /\ storeFailures' = storeFailures + 1
    /\ reply[s] = "receipt" => reply'[s] = "receipt"

LEMMA StageStep ==
    ASSUME IInv, [Next]_vars, NEW s \in Requests
    PROVE  Walk(s)
<1> USE DEF IInv, TypeOK, ChainOK, Goto, Answer, node, chain, Holder, Working, Delivering,
            Pending, Walk
<1>1. ASSUME NEW r \in Requests, NEW res \in Resources, NEW c \in Credential \cup {None},
             Arrive(r, res, c)
      PROVE  Walk(s)
  BY <1>1 DEF Arrive
<1>2. ASSUME NEW r \in Requests, ChainStep(r)
      PROVE  Walk(s)
  <2>1. CASE CreateChargeFails(r) \/ SaveChallenge(r) \/ \E h \in Hashes : CreateCharge(r, h)
    BY <2>1 DEF CreateCharge, CreateChargeFails, SaveChallenge
  <2>2. CASE PollPaid(r) \/ PollRejects(r) \/ PollFails(r)
    BY <2>2 DEF PollPaid, PollRejects, PollFails
  <2>3. CASE ConsumeRedemption(r)
    <3>1. /\ UNCHANGED <<upstream, reply, storeFailures>>
          /\ stage[r] = "settled"
          /\ \/ stage' = [stage EXCEPT ![r] = "redeemed"] /\ Redeems(r)
             \/ stage' = [stage EXCEPT ![r] = "issuing"]
      BY <2>3, ConsumeCases DEF Redeems, store, ConsumeRedemption
    <3>2. QED
      BY <3>1
  <2>4. CASE SaveObservation(r) \/ CallHandler(r) \/ HandlerReturns(r) \/ HandlerThrows(r)
    BY <2>4 DEF SaveObservation, CallHandler, HandlerReturns, HandlerThrows
  <2>5. CASE SaveDelivery(r)
    <3>1. /\ UNCHANGED upstream
          /\ \/ stage' = [stage EXCEPT ![r] = "receipting"] /\ stage[r] = "ok" /\ UNCHANGED reply
             \/ /\ stage' = [stage EXCEPT ![r] = "done"]
                /\ stage[r] = "refused"
                /\ reply' = [reply EXCEPT ![r] = "upstream"]
      BY <2>5 DEF SaveDelivery, SaveOutcome
    <3>2. QED
      BY <2>5, <3>1
  <2>6. CASE SaveReceipt(r)
    <3>1. /\ UNCHANGED <<upstream, reply>>
          /\ stage[r] = "receipting"
          /\ stage' = [stage EXCEPT ![r] = "receipted"]
      BY <2>6 DEF SaveReceipt
    <3>2. QED
      BY <2>6, <3>1
  <2>7. CASE SaveFailure(r)
    <3>1. /\ UNCHANGED upstream
          /\ stage[r] = "failing"
          /\ stage' = [stage EXCEPT ![r] = "done"]
          /\ reply' = [reply EXCEPT ![r] = "error"]
      BY <2>7 DEF SaveFailure, SaveOutcome
    <3>2. QED
      BY <2>7, <3>1
  <2>8. CASE AnswerReceipt(r)
    BY <2>8 DEF AnswerReceipt
  <2>9. QED
    BY <1>2, <2>1, <2>2, <2>3, <2>4, <2>5, <2>6, <2>7, <2>8 DEF ChainStep
<1>3. ASSUME NEW r \in Requests, StoreFailure(r)
      PROVE  Walk(s)
  <2>1. storeFailures' > 0 /\ storeFailures' = storeFailures + 1 /\ upstream' = upstream
    BY <1>3 DEF StoreFailure, ReadFails, SaveChallengeFails, ConsumeFails,
                SaveObservationFails, DeliveryStoreFails, SaveFailureFails, StoreThrows
  <2>2. \/ /\ stage[r] \in {"idle", "invoiced", "settled", "redeemed", "failing"}
           /\ \/ stage' = [stage EXCEPT ![r] = "issuing"] /\ stage[r] # "failing"
                 /\ stage[r] # "redeemed" /\ reply' = reply
              \/ stage' = [stage EXCEPT ![r] = "done"] /\ reply' = [reply EXCEPT ![r] = "error"]
        \/ /\ stage[r] \in {"ok", "refused", "receipting"}
           /\ stage' = [stage EXCEPT ![r] = "failing"] /\ reply' = reply
    BY <1>3 DEF StoreFailure, ReadFails, SaveChallengeFails, ConsumeFails,
                SaveObservationFails, DeliveryStoreFails, SaveFailureFails
  <2>3. QED
    BY <2>1, <2>2
<1>4. ASSUME NEW r \in Requests, ServiceStep(r)
      PROVE  Walk(s)
  BY <1>4 DEF ServiceStep
<1>5. CASE Crash
  BY <1>5 DEF Crash, Over
<1>6. ASSUME NEW h \in Hashes, NodeStep(h) \/ Expire(h)
      PROVE  Walk(s)
  BY <1>6 DEF NodeStep, Expire
<1>7. CASE UNCHANGED vars
  BY <1>7 DEF vars
<1>8. QED
  BY <1>1, <1>2, <1>3, <1>4, <1>5, <1>6, <1>7 DEF Next, Arrival, Quiescent

\* Only a successful consumeRedemption makes a holder.
LEMMA HolderStep ==
    ASSUME IInv, [Next]_vars, NEW s \in Requests, Holder(s)'
    PROVE  Holder(s) \/ Redeems(s)
<1>1. stage'[s] \in Pending \cup {"failing", "receipting", "receipted"} \/ upstream'[s] # "none"
  BY DEF Holder, Working, Delivering, Pending
<1>2. SaveReceipt(s) => stage[s] = "receipting"
  BY DEF SaveReceipt
<1>3. QED
  BY <1>1, <1>2, StageStep DEF Walk, Holder, Working, Delivering, Pending

\* The credential of a holder stays in the table.
LEMMA HolderKeeps ==
    ASSUME IInv, [Next]_vars, NEW r \in Requests, Holder(r) \/ Redeems(r)
    PROVE  /\ credential'[r] = credential[r]
           /\ credential[r] \in redemptions'
           /\ credential[r] \in Credential
           /\ credential[r].challenge \in Hashes
           /\ Holder(r) => credential[r] \in redemptions
<1>1. redemptions \subseteq redemptions'
  <2>1. ASSUME NEW q \in Requests, ConsumeRedemption(q)
        PROVE  redemptions \subseteq redemptions'
    BY <2>1 DEF ConsumeRedemption
  <2>2. ASSUME NEW q \in Requests, SaveDelivery(q) \/ SaveReceipt(q) \/ SaveFailure(q)
        PROVE  redemptions \subseteq redemptions'
    BY <2>2 DEF SaveDelivery, SaveReceipt, SaveFailure, SaveOutcome
  <2>3. QED
    BY <2>1, <2>2, WhoWrites
<1>2. CASE Holder(r)
  <2>1. credential[r] \in redemptions
    BY <1>2 DEF IInv, HolderOK
  <2>2. credential[r] \in Credential
    BY <2>1 DEF IInv, TypeOK
  <2>3. QED
    BY <1>1, <2>1, <2>2, CredentialStep, NoCredential DEF Credential
<1>3. CASE Redeems(r) /\ ~Holder(r)
  BY <1>3, CredentialStep DEF Redeems, Credential
<1>4. QED
  BY <1>2, <1>3

LEMMA HoldersStep == IInv /\ [Next]_vars => \A r \in Requests : HolderOK(r)'
<1> SUFFICES ASSUME IInv, [Next]_vars, NEW r \in Requests, Holder(r)'
             PROVE  /\ credential'[r] \in redemptions'
                    /\ \A q \in Requests :
                           Holder(q)' /\ credential'[q].challenge = credential'[r].challenge
                           => q = r
  BY DEF HolderOK
<1>1. credential'[r] \in redemptions'
  BY HolderStep, HolderKeeps
<1>2. ASSUME NEW q \in Requests, Holder(q)',
             credential'[q].challenge = credential'[r].challenge
      PROVE  q = r
  <2>1. credential[q].challenge = credential[r].challenge
    BY <1>2, HolderStep, HolderKeeps
  <2>2. CASE Holder(r) /\ Holder(q)
    BY <2>1, <2>2 DEF IInv, HolderOK
  <2>3. CASE Redeems(r) /\ Holder(q)
    BY <2>1, <2>3, HolderKeeps DEF Redeems
  <2>4. CASE Holder(r) /\ Redeems(q)
    BY <2>1, <2>4, HolderKeeps DEF Redeems
  <2>5. CASE Redeems(r) /\ Redeems(q)
    BY <2>5 DEF Redeems, IInv, TypeOK
  <2>6. QED
    BY <1>2, <2>2, <2>3, <2>4, <2>5, HolderStep
<1>3. QED
  BY <1>1, <1>2

\* Two holders have different challenges.
LEMMA HoldersDiffer ==
    ASSUME IInv, NEW r \in Requests, NEW s \in Requests, Holder(r), Holder(s),
           credential[r].challenge = credential[s].challenge
    PROVE  r = s
BY DEF IInv, HolderOK

\* A redeeming request finds a challenge that nobody holds.
LEMMA RedeemsFresh ==
    ASSUME IInv, [Next]_vars, NEW r \in Requests, Redeems(r)
    PROVE  /\ ~Holder(r)
           /\ \A q \in Requests : Holder(q) => credential[q].challenge # credential[r].challenge
           /\ delivery_outcomes[credential[r].challenge] = "none"
           /\ credential[r].challenge \notin receipts
<1>1. ~Holder(r)
  BY DEF Redeems, Holder, Working, Delivering, IInv, ChainOK
<1>2. \A q \in Requests : Holder(q) => credential[q].challenge # credential[r].challenge
  BY HolderKeeps DEF Redeems
<1>3. delivery_outcomes[credential[r].challenge] = "none"
  BY DEF Redeems, IInv, LedgerAgrees, Credential
<1>4. credential[r].challenge \notin receipts
  BY <1>3 DEF IInv, RowsOK
<1>5. QED
  BY <1>1, <1>2, <1>3, <1>4

-----------------------------------------------------------------------------
(* Outcomes and receipts                                                   *)

\* What a step may do to the outcomes and the receipts.
LEMMA OutcomeStep ==
    ASSUME IInv, [Next]_vars
    PROVE  \/ UNCHANGED <<delivery_outcomes, receipts>>
           \/ \E r \in Requests : Redeems(r)
           \/ \E r \in Requests :
                 /\ stage[r] = "ok"
                 /\ stage' = [stage EXCEPT ![r] = "receipting"]
                 /\ delivery_outcomes' =
                        [delivery_outcomes EXCEPT ![credential[r].challenge] = "delivered"]
                 /\ UNCHANGED <<receipts, reply, storeFailures>>
           \/ \E r \in Requests :
                 /\ stage[r] \in {"refused", "failing"}
                 /\ stage' = [stage EXCEPT ![r] = "done"]
                 /\ delivery_outcomes' =
                        [delivery_outcomes EXCEPT ![credential[r].challenge] = "failed"]
                 /\ \E a \in {"upstream", "error"} : reply' = [reply EXCEPT ![r] = a]
                 /\ UNCHANGED <<receipts, storeFailures>>
           \/ \E r \in Requests :
                 /\ stage[r] = "receipting"
                 /\ stage' = [stage EXCEPT ![r] = "receipted"]
                 /\ receipts' = receipts \cup {credential[r].challenge}
                 /\ UNCHANGED <<delivery_outcomes, reply, storeFailures>>
<1>1. ASSUME NEW r \in Requests, ConsumeRedemption(r)
      PROVE  UNCHANGED <<delivery_outcomes, receipts>> \/ Redeems(r)
  BY <1>1, ConsumeCases DEF store, tables
<1>2. QED
  BY <1>1, WhoWrites DEF SaveDelivery, SaveFailure, SaveReceipt, SaveOutcome, Answer, Goto

LEMMA FailuresGrow == IInv /\ [Next]_vars => storeFailures' >= storeFailures
BY DEF IInv, TypeOK, Next, Arrival, ChainStep, StoreFailure, Quiescent, Arrive, ReadFails,
       CreateCharge, CreateChargeFails, SaveChallenge, SaveChallengeFails, PollPaid, PollRejects,
       PollFails, ConsumeRedemption, ConsumeFails, SaveObservation, SaveObservationFails,
       CallHandler, HandlerReturns, HandlerThrows, SaveDelivery, SaveReceipt, SaveFailure,
       SaveOutcome, AnswerReceipt, DeliveryStoreFails, SaveFailureFails, StoreThrows,
       ServiceStep, Crash, NodeStep, Expire, vars, store

LEMMA OutcomesStep == IInv /\ [Next]_vars => \A s \in Requests : OutcomeOK(s)'
<1> SUFFICES ASSUME IInv, [Next]_vars, NEW s \in Requests PROVE OutcomeOK(s)'
  OBVIOUS
<1> DEFINE h == credential[s].challenge
<1>1. /\ delivery_outcomes \in [Hashes -> Outcome]
      /\ stage \in [Requests -> Stage]
      /\ reply \in [Requests -> Reply]
      /\ storeFailures \in Nat /\ storeFailures' \in Nat
      /\ storeFailures' >= storeFailures
  BY FailuresGrow, TypeStep DEF IInv, TypeOK
<1>2. ASSUME stage'[s] \in Working \/ reply'[s] = "receipt"
      PROVE  Holder(s) \/ Redeems(s)
  <2>1. Walk(s)
    BY StageStep
  <2>2. reply'[s] = "receipt" => reply[s] = "receipt" \/ stage[s] = "receipted"
    BY <2>1 DEF Walk
  <2>3. reply[s] = "receipt" => upstream[s] # "none"
    BY DEF IInv, ChainOK
  <2>4. stage'[s] \in Working => Holder(s) \/ Redeems(s)
    BY HolderStep DEF Holder
  <2>5. QED
    BY <1>2, <2>2, <2>3, <2>4 DEF Holder, Working
<1>3. CASE Redeems(s)
  <2>1. stage'[s] = "redeemed" /\ reply'[s] = "none"
    BY <1>1, <1>3 DEF Redeems, IInv, ChainOK
  <2>2. credential'[s] = credential[s] /\ h \in Hashes
    BY <1>3, HolderKeeps
  <2>3. delivery_outcomes'[h] = "pending" /\ h \notin receipts'
    BY <1>1, <1>3, <2>2, RedeemsFresh DEF Redeems
  <2>4. QED
    BY <2>1, <2>2, <2>3 DEF OutcomeOK, Working, Delivering
<1>4. CASE ~Holder(s) /\ ~Redeems(s)
  BY <1>2, <1>4 DEF OutcomeOK, Working, Delivering
<1>5. CASE Holder(s)
  <2>1. credential'[s] = credential[s] /\ h \in Hashes
    BY <1>5, HolderKeeps
  <2>2. ~Redeems(s)
    BY <1>5, RedeemsFresh
  <2>3. Walk(s)
    BY StageStep
  <2>4. OutcomeOK(s)
    BY DEF IInv
  <2>5. CASE UNCHANGED <<delivery_outcomes, receipts>>
    <3>1. SaveDelivery(s) => \/ (stage'[s] = "receipting" /\ delivery_outcomes'[h] = "delivered")
                             \/ stage'[s] = "done"
      BY <1>1, <2>1 DEF SaveDelivery, SaveOutcome, Goto, Answer
    <3>2. SaveReceipt(s) => stage[s] = "receipting" /\ h \in receipts'
      BY DEF SaveReceipt
    <3>3. QED
      BY <1>1, <2>1, <2>2, <2>3, <2>4, <2>5, <3>1, <3>2
         DEF OutcomeOK, Walk, Working, Delivering, Pending
  <2>6. ASSUME NEW r \in Requests, Redeems(r)
        PROVE  OutcomeOK(s)'
    <3>1. r # s /\ credential[r].challenge # h
      BY <1>5, <2>2, <2>6, RedeemsFresh
    <3>2. /\ stage'[s] = stage[s] /\ UNCHANGED <<reply, receipts, storeFailures>>
          /\ delivery_outcomes'[h] = delivery_outcomes[h]
      BY <1>1, <2>1, <2>6, <3>1 DEF Redeems
    <3>3. QED
      BY <2>1, <2>4, <3>2 DEF OutcomeOK
  <2>7. ASSUME NEW r \in Requests, r # s, stage[r] \in {"ok", "refused", "failing", "receipting"},
               UNCHANGED storeFailures,
               \E x \in {"receipting", "done", "receipted"} : stage' = [stage EXCEPT ![r] = x],
               \/ UNCHANGED reply
               \/ \E a \in {"upstream", "error"} : reply' = [reply EXCEPT ![r] = a],
               \/ UNCHANGED delivery_outcomes
               \/ \E o \in {"delivered", "failed"} :
                     delivery_outcomes' =
                         [delivery_outcomes EXCEPT ![credential[r].challenge] = o],
               receipts' = receipts \/ receipts' = receipts \cup {credential[r].challenge}
        PROVE  OutcomeOK(s)'
    <3>1. credential[r].challenge # h
      BY <1>5, <2>7, HoldersDiffer DEF Holder, Working, Delivering
    <3>2. /\ stage'[s] = stage[s] /\ reply'[s] = reply[s]
          /\ delivery_outcomes'[h] = delivery_outcomes[h]
          /\ h \in receipts' <=> h \in receipts
      BY <1>1, <2>1, <2>7, <3>1
    <3>3. QED
      BY <2>1, <2>4, <2>7, <3>2 DEF OutcomeOK
  <2>8. CASE /\ stage[s] = "ok"
             /\ stage' = [stage EXCEPT ![s] = "receipting"]
             /\ delivery_outcomes' = [delivery_outcomes EXCEPT ![h] = "delivered"]
             /\ UNCHANGED <<receipts, reply, storeFailures>>
    <3>1. reply[s] = "none"
      BY <1>1, <2>8 DEF IInv, ChainOK
    <3>2. QED
      BY <1>1, <2>1, <2>4, <2>8, <3>1 DEF OutcomeOK, Working, Delivering
  <2>9. CASE /\ stage[s] \in {"refused", "failing"}
             /\ stage' = [stage EXCEPT ![s] = "done"]
             /\ \E a \in {"upstream", "error"} : reply' = [reply EXCEPT ![s] = a]
    BY <1>1, <2>9 DEF OutcomeOK, Working, Delivering
  <2>10. CASE /\ stage[s] = "receipting"
              /\ stage' = [stage EXCEPT ![s] = "receipted"]
              /\ receipts' = receipts \cup {h}
              /\ UNCHANGED <<delivery_outcomes, reply, storeFailures>>
    BY <1>1, <2>1, <2>4, <2>10 DEF OutcomeOK, Working, Delivering
  <2>11. ASSUME NEW r \in Requests,
                stage[r] = "ok",
                stage' = [stage EXCEPT ![r] = "receipting"],
                delivery_outcomes' =
                    [delivery_outcomes EXCEPT ![credential[r].challenge] = "delivered"],
                UNCHANGED <<receipts, reply, storeFailures>>
         PROVE  OutcomeOK(s)'
    BY <2>7, <2>8, <2>11
  <2>12. ASSUME NEW r \in Requests,
                stage[r] \in {"refused", "failing"},
                stage' = [stage EXCEPT ![r] = "done"],
                delivery_outcomes' =
                    [delivery_outcomes EXCEPT ![credential[r].challenge] = "failed"],
                \E a \in {"upstream", "error"} : reply' = [reply EXCEPT ![r] = a],
                UNCHANGED <<receipts, storeFailures>>
         PROVE  OutcomeOK(s)'
    BY <2>7, <2>9, <2>12
  <2>13. ASSUME NEW r \in Requests,
                stage[r] = "receipting",
                stage' = [stage EXCEPT ![r] = "receipted"],
                receipts' = receipts \cup {credential[r].challenge},
                UNCHANGED <<delivery_outcomes, reply, storeFailures>>
         PROVE  OutcomeOK(s)'
    BY <2>7, <2>10, <2>13
  <2>14. QED
    BY <2>5, <2>6, <2>11, <2>12, <2>13, OutcomeStep
<1>6. QED
  BY <1>3, <1>4, <1>5

\* The record of a redemption, once it says delivered, is changed by its holder only,
\* and before the receipt.
LEMMA RowsStep == IInv /\ [Next]_vars => RowsOK'
<1> SUFFICES ASSUME IInv, [Next]_vars PROVE RowsOK'
  OBVIOUS
<1>1. ASSUME NEW c \in redemptions' PROVE invoices'[c.challenge] = "Paid"
  <2>1. c \in redemptions \/ \E r \in Requests : Redeems(r) /\ c = credential[r]
    BY WhoWrites, ConsumeCases
       DEF SaveDelivery, SaveFailure, SaveReceipt, SaveOutcome, store, tables, Redeems
  <2>2. c \in Credential /\ invoices[c.challenge] = "Paid"
    BY <2>1 DEF Redeems, IInv, TypeOK, RowsOK
  <2>3. QED
    BY <2>2, PaidStep DEF Credential
<1>2. ASSUME NEW h \in receipts' PROVE delivery_outcomes'[h] = "delivered"
  <2>1. /\ delivery_outcomes \in [Hashes -> Outcome]
        /\ h \in receipts => delivery_outcomes[h] = "delivered"
        /\ \A r \in Requests : OutcomeOK(r)
    BY DEF IInv, TypeOK, RowsOK
  <2>2. ASSUME NEW r \in Requests, Redeems(r) PROVE delivery_outcomes'[h] = "delivered"
    <3>1. delivery_outcomes[credential[r].challenge] = "none"
      BY <2>2, RedeemsFresh
    <3>2. QED
      BY <1>2, <2>1, <2>2, <3>1 DEF Redeems
  <2>3. ASSUME NEW r \in Requests, stage[r] = "ok",
               delivery_outcomes' =
                   [delivery_outcomes EXCEPT ![credential[r].challenge] = "delivered"],
               UNCHANGED receipts
        PROVE  delivery_outcomes'[h] = "delivered"
    BY <1>2, <2>1, <2>3 DEF OutcomeOK, Working, Delivering
  <2>4. ASSUME NEW r \in Requests, stage[r] \in {"refused", "failing"},
               delivery_outcomes' =
                   [delivery_outcomes EXCEPT ![credential[r].challenge] = "failed"],
               UNCHANGED receipts
        PROVE  delivery_outcomes'[h] = "delivered"
    <3>1. h # credential[r].challenge
      BY <1>2, <2>1, <2>4 DEF OutcomeOK, Working, Delivering
    <3>2. QED
      BY <1>2, <2>1, <2>4, <3>1
  <2>5. ASSUME NEW r \in Requests, stage[r] = "receipting",
               receipts' = receipts \cup {credential[r].challenge},
               UNCHANGED delivery_outcomes
        PROVE  delivery_outcomes'[h] = "delivered"
    BY <1>2, <2>1, <2>5 DEF OutcomeOK
  <2>6. QED
    BY <1>2, <2>1, <2>2, <2>3, <2>4, <2>5, OutcomeStep
<1>3. QED
  BY <1>1, <1>2 DEF RowsOK

-----------------------------------------------------------------------------
(* The tables agree                                                        *)

LEMMA LedgerStep == IInv /\ [Next]_vars => LedgerAgrees'
<1> SUFFICES ASSUME IInv, [Next]_vars PROVE LedgerAgrees'
  OBVIOUS
<1> USE DEF IInv, TypeOK, LedgerAgrees
<1>1. ASSUME NEW r \in Requests, Redeems(r)
      PROVE  /\ (consumed_at = {c.challenge : c \in redemptions})'
             /\ (\A c, d \in redemptions : c.challenge = d.challenge => c = d)'
             /\ (\A h \in Hashes : delivery_outcomes[h] # "none" <=> h \in consumed_at)'
  BY <1>1 DEF Redeems
<1>2. ASSUME UNCHANGED <<consumed_at, redemptions>>,
             \A h \in Hashes : delivery_outcomes'[h] # "none" <=> delivery_outcomes[h] # "none"
      PROVE  /\ (consumed_at = {c.challenge : c \in redemptions})'
             /\ (\A c, d \in redemptions : c.challenge = d.challenge => c = d)'
             /\ (\A h \in Hashes : delivery_outcomes[h] # "none" <=> h \in consumed_at)'
  BY <1>2
<1>3. ASSUME NEW r \in Requests, SaveDelivery(r) \/ SaveFailure(r) \/ SaveReceipt(r)
      PROVE  /\ UNCHANGED <<consumed_at, redemptions>>
             /\ \A h \in Hashes : delivery_outcomes'[h] # "none" <=> delivery_outcomes[h] # "none"
  <2>1. Holder(r) /\ (stage[r] \in {"ok", "refused", "failing"} =>
                         delivery_outcomes[credential[r].challenge] # "none")
    BY <1>3 DEF SaveDelivery, SaveFailure, SaveReceipt, Holder, Working, Delivering, OutcomeOK
  <2>2. QED
    BY <1>3, <2>1 DEF SaveDelivery, SaveFailure, SaveReceipt, SaveOutcome
<1>4. /\ (consumed_at = {c.challenge : c \in redemptions})'
      /\ (\A c, d \in redemptions : c.challenge = d.challenge => c = d)'
      /\ (\A h \in Hashes : delivery_outcomes[h] # "none" <=> h \in consumed_at)'
      /\ consumed_at \subseteq consumed_at'
  <2>1. ASSUME NEW r \in Requests, ConsumeRedemption(r)
        PROVE  \/ Redeems(r)
               \/ UNCHANGED <<consumed_at, redemptions, delivery_outcomes>>
    BY <2>1, ConsumeCases DEF store, tables
  <2>2. QED
    BY <1>1, <1>2, <1>3, <2>1, WhoWrites DEF Redeems
<1>5. payment_observations' \subseteq consumed_at'
  <2>1. ASSUME NEW r \in Requests, SaveObservation(r)
        PROVE  payment_observations' \subseteq consumed_at
    <3>1. credential[r] \in redemptions
      BY <2>1, HolderKeeps DEF SaveObservation, Holder, Working, Delivering
    <3>2. QED
      BY <2>1, <3>1 DEF SaveObservation
  <2>2. QED
    BY <1>4, <2>1, WhoObserves
<1>6. QED
  BY <1>4, <1>5

-----------------------------------------------------------------------------
(* What is recorded and what was answered                                  *)

LEMMA NotForgottenStep == IInv /\ [Next]_vars => FailureNotForgotten'
<1> SUFFICES ASSUME IInv, [Next]_vars, NEW h \in Hashes, delivery_outcomes'[h] = "pending",
                    ~(storeFailures' > 0)
             PROVE  \E r \in Requests : /\ credential'[r] # None
                                         /\ credential'[r].challenge = h
                                         /\ stage'[r] \in Delivering \cup {"dead"}
  BY DEF FailureNotForgotten
<1>1. /\ delivery_outcomes \in [Hashes -> Outcome]
      /\ stage \in [Requests -> Stage]
      /\ ~(storeFailures > 0)
  BY FailuresGrow, TypeStep DEF IInv, TypeOK
<1>2. CASE delivery_outcomes[h] = "pending"
  <2>1. PICK r \in Requests : /\ credential[r] # None
                              /\ credential[r].challenge = h
                              /\ stage[r] \in Delivering \cup {"dead"}
    BY <1>1, <1>2 DEF IInv, FailureNotForgotten
  <2>2. credential'[r] = credential[r]
    BY <2>1, CredentialStep
  <2>3. ~SaveDelivery(r) /\ ~SaveFailure(r)
    BY <1>1, <2>1 DEF SaveDelivery, SaveFailure, SaveOutcome
  <2>4. stage'[r] \in Delivering \cup {"dead"}
    BY <2>1, <2>3, StageStep DEF Walk
  <2>5. QED
    BY <2>1, <2>2, <2>4
<1>3. CASE delivery_outcomes[h] # "pending"
  <2>1. PICK r \in Requests : Redeems(r) /\ credential[r].challenge = h
    BY <1>1, <1>3, OutcomeStep DEF Redeems
  <2>2. stage'[r] = "redeemed" /\ credential'[r] = credential[r] /\ credential[r] # None
    BY <1>1, <2>1, NoCredential DEF Redeems
  <2>3. QED
    BY <2>1, <2>2 DEF Delivering
<1>4. QED
  BY <1>2, <1>3

LEMMA DeliveredStep == IInv /\ [Next]_vars => DeliveredIsAnswered'
<1> SUFFICES ASSUME IInv, [Next]_vars, NEW h \in Hashes, delivery_outcomes'[h] = "delivered",
                    ~(storeFailures' > 1)
             PROVE  \E r \in Requests :
                       /\ credential'[r] # None
                       /\ credential'[r].challenge = h
                       /\ \/ stage'[r] \in {"receipting", "receipted", "failing", "dead"}
                          \/ reply'[r] = "receipt"
  BY DEF DeliveredIsAnswered
<1>1. /\ delivery_outcomes \in [Hashes -> Outcome]
      /\ stage \in [Requests -> Stage]
      /\ storeFailures \in Nat /\ storeFailures' \in Nat
      /\ storeFailures' >= storeFailures
  BY FailuresGrow, TypeStep DEF IInv, TypeOK
<1>2. CASE delivery_outcomes[h] = "delivered"
  <2>1. PICK r \in Requests :
            /\ credential[r] # None
            /\ credential[r].challenge = h
            /\ \/ stage[r] \in {"receipting", "receipted", "failing", "dead"}
               \/ reply[r] = "receipt"
    BY <1>1, <1>2 DEF IInv, DeliveredIsAnswered
  <2>2. credential'[r] = credential[r]
    BY <2>1, CredentialStep
  <2>3. ~SaveFailure(r)
    BY <1>1 , <2>1 DEF SaveFailure, SaveOutcome
  <2>4. ~(stage[r] = "failing" /\ storeFailures' = storeFailures + 1)
    BY <1>1, <1>2, <2>1 DEF IInv, OutcomeOK
  <2>5. QED
    BY <2>1, <2>2, <2>3, <2>4, StageStep DEF Walk
<1>3. CASE delivery_outcomes[h] # "delivered"
  <2>1. PICK r \in Requests : /\ stage[r] = "ok"
                              /\ stage' = [stage EXCEPT ![r] = "receipting"]
                              /\ credential[r].challenge = h
    BY <1>1, <1>3, OutcomeStep DEF Redeems
  <2>2. credential'[r] = credential[r] /\ credential[r] # None
    BY <2>1, HolderKeeps, NoCredential DEF Holder, Working, Delivering
  <2>3. QED
    BY <1>1, <2>1, <2>2
<1>4. QED
  BY <1>2, <1>3

-----------------------------------------------------------------------------
(* The theorems                                                            *)

LEMMA InitInvariant == Init => IInv
<1> SUFFICES ASSUME Init PROVE IInv
  OBVIOUS
<1> USE DEF Init
<1>1. TypeOK
  BY DEF TypeOK, InvoiceStatus, Outcome, Stage, Reply
<1>2. ASSUME NEW r \in Requests
      PROVE  ChainOK(r) /\ HolderOK(r) /\ OutcomeOK(r)
  BY DEF ChainOK, HolderOK, OutcomeOK, Holder, Working, Delivering
<1>3. RowsOK /\ LedgerAgrees /\ FailureNotForgotten /\ DeliveredIsAnswered
  BY DEF RowsOK, LedgerAgrees, FailureNotForgotten, DeliveredIsAnswered
<1>4. QED
  BY <1>1, <1>2, <1>3 DEF IInv

\* protect and the store keep the invariant, whatever is interleaved, crashes or fails.
THEOREM Invariance == Spec => []IInv
<1>1. IInv /\ [Next]_vars => IInv'
  BY TypeStep, ChainStepOK, HoldersStep, OutcomesStep, RowsStep, LedgerStep,
     NotForgottenStep, DeliveredStep DEF IInv
<1>2. QED
  BY <1>1, InitInvariant, PTL DEF Spec

\* Every variable keeps its type.
THEOREM TypeCorrectness == Spec => []TypeOK
<1>1. IInv => TypeOK
  BY DEF IInv
<1>2. QED
  BY <1>1, Invariance, PTL

\* The tables agree at every instant, with any number of failing store calls: the
\* transaction of consumeRedemption leaves no challenge consumed without its redemption.
THEOREM LedgersAgree == Spec => []LedgerAgrees
<1>1. IInv => LedgerAgrees
  BY DEF IInv
<1>2. QED
  BY <1>1, Invariance, PTL

\* A redemption pending for ever takes a failing store call or a dead process: the catch
\* of protect records every failure of the handler.
THEOREM FailuresAreRecorded == Spec => []FailureNotForgotten
<1>1. IInv => FailureNotForgotten
  BY DEF IInv
<1>2. QED
  BY <1>1, Invariance, PTL

\* As long as at most one store call has failed, the record says delivered exactly to the
\* payers who got or will get their receipt.
THEOREM RecordsMatchAnswers == Spec => [](storeFailures < 2 => RecordMatchesAnswer)
<1>1. IInv => (storeFailures < 2 => RecordMatchesAnswer)
  <2> SUFFICES ASSUME IInv, storeFailures < 2 PROVE RecordMatchesAnswer
    OBVIOUS
  <2>1. storeFailures \in Nat /\ ~(storeFailures > 1)
    BY DEF IInv, TypeOK
  <2>2. \A r \in Requests : reply[r] = "receipt" =>
           /\ delivery_outcomes[credential[r].challenge] = "delivered"
           /\ credential[r].challenge \in receipts
    BY DEF IInv, OutcomeOK
  <2>3. QED
    BY <2>1, <2>2 DEF IInv, DeliveredIsAnswered, RecordMatchesAnswer
<1>2. QED
  BY <1>1, Invariance, PTL

\* A payer with a receipt is on record as delivered, however many store calls fail.
THEOREM ReceiptsAreRecorded ==
    Spec => [](\A r \in Requests : reply[r] = "receipt" =>
                  /\ credential[r] \in redemptions
                  /\ delivery_outcomes[credential[r].challenge] = "delivered"
                  /\ credential[r].challenge \in receipts)
<1>1. IInv => \A r \in Requests : reply[r] = "receipt" =>
                  /\ credential[r] \in redemptions
                  /\ delivery_outcomes[credential[r].challenge] = "delivered"
                  /\ credential[r].challenge \in receipts
  BY DEF IInv, ChainOK, HolderOK, Holder, OutcomeOK
<1>2. QED
  BY <1>1, Invariance, PTL

-----------------------------------------------------------------------------
(* The middleware implements PaidDelivery                                  *)

Paid == {h \in Hashes : invoices[h] = "Paid"}
Redeemed == {c.challenge : c \in redemptions}
Runs == {hr \in Hashes \X Requests : /\ upstream[hr[2]] = "ok"
                                     /\ credential[hr[2]].challenge = hr[1]}
Failed == {h \in Hashes : delivery_outcomes[h] = "failed"}
Receipted == {credential[r].challenge : r \in {q \in Requests : reply[q] = "receipt"}}

LEMMA MappedVars ==
    UNCHANGED <<Paid, Redeemed, Runs, receipts, Failed, Receipted>> => UNCHANGED Promise!vars
BY DEF Promise!vars, Paid, Redeemed, Runs, Failed, Receipted

LEMMA InitMaps == Init => Promise!Init
BY DEF Init, Promise!Init

\* Only AnswerReceipt gives a payer its receipt.
NoReceiptGiven ==
    \/ UNCHANGED reply
    \/ \E r \in Requests, a \in {"challenge", "upstream", "error"} :
           /\ stage[r] # "done"
           /\ reply' = [reply EXCEPT ![r] = a]

LEMMA ReceiptedStays ==
    ASSUME IInv, NoReceiptGiven, UNCHANGED credential
    PROVE  UNCHANGED Receipted
<1>1. \A q \in Requests : reply'[q] = "receipt" <=> reply[q] = "receipt"
  BY DEF NoReceiptGiven, IInv, TypeOK, ChainOK
<1>2. QED
  BY <1>1 DEF Receipted

\* One mapped variable moves at a time.
LEMMA OneAtATime ==
    ASSUME [Next]_vars
    PROVE  \/ /\ UNCHANGED <<redemptions, upstream, credential, delivery_outcomes, receipts>>
              /\ NoReceiptGiven
           \/ \E r \in Requests : \/ ConsumeRedemption(r) \/ SaveDelivery(r) \/ SaveFailure(r)
                                  \/ SaveReceipt(r) \/ AnswerReceipt(r)
                                  \/ CallHandler(r) \/ ServiceStep(r)
           \/ \E r \in Requests, res \in Resources, c \in Credential \cup {None} :
                  Arrive(r, res, c)
<1> USE DEF NoReceiptGiven, Answer, vars, store, tables, chain
<1>1. ASSUME NEW r \in Requests, ChainStep(r)
      PROVE  \/ /\ UNCHANGED <<redemptions, upstream, credential, delivery_outcomes, receipts>>
                /\ NoReceiptGiven
             \/ \/ ConsumeRedemption(r) \/ SaveDelivery(r) \/ SaveFailure(r)
                \/ SaveReceipt(r) \/ AnswerReceipt(r) \/ CallHandler(r)
  BY <1>1 DEF ChainStep, CreateCharge, CreateChargeFails, SaveChallenge, PollPaid,
              PollRejects, PollFails, SaveObservation, HandlerReturns, HandlerThrows
<1>2. ASSUME NEW r \in Requests, StoreFailure(r)
      PROVE  /\ UNCHANGED <<redemptions, upstream, credential, delivery_outcomes, receipts>>
             /\ NoReceiptGiven
  BY <1>2 DEF StoreFailure, ReadFails, SaveChallengeFails, ConsumeFails, SaveObservationFails,
              DeliveryStoreFails, SaveFailureFails, StoreThrows
<1>3. QED
  BY <1>1, <1>2 DEF Next, Arrival, Quiescent, Crash, NodeStep, Expire

\* The settlement of an invoice.
LEMMA SettleMaps ==
    ASSUME IInv, [Next]_vars, NoReceiptGiven,
           UNCHANGED <<redemptions, upstream, credential, delivery_outcomes, receipts>>
    PROVE  [Promise!Next]_(Promise!vars)
<1>1. UNCHANGED <<Redeemed, Runs, receipts, Failed, Receipted>>
  BY ReceiptedStays DEF Redeemed, Runs, Failed
<1>2. Paid' = Paid \/ \E h \in Hashes : Paid' = Paid \cup {h}
  <2>1. ASSUME NEW r \in Requests, NEW h \in Hashes, CreateCharge(r, h)
        PROVE  Paid' = Paid
    BY <2>1 DEF CreateCharge, Paid, IInv, TypeOK
  <2>2. ASSUME NEW r \in Requests, CreateChargeFails(r)
        PROVE  Paid' = Paid
    BY <2>2 DEF CreateChargeFails, Paid, IInv, TypeOK
  <2>3. ASSUME NEW h \in Hashes, NodeStep(h)
        PROVE  Paid' = Paid \/ Paid' = Paid \cup {h}
    BY <2>3 DEF NodeStep, Pay, Settle, Abandon, Paid, IInv, TypeOK
  <2>4. CASE UNCHANGED invoices
    BY <2>4 DEF Paid
  <2>5. QED
    BY <2>1, <2>2, <2>3, <2>4, WhoMovesInvoices
<1>3. ASSUME NEW h \in Hashes, Paid' = Paid \cup {h}
      PROVE  Promise!Next
  <2>1. Promise!Settle(h)
    BY <1>1, <1>3 DEF Promise!Settle, Paid, Redeemed, Runs, Failed, Receipted
  <2>2. QED
    BY <2>1 DEF Promise!Next
<1>4. QED
  BY <1>1, <1>2, <1>3, MappedVars

\* consumeRedemption redeems a settled payment that no row redeemed.
LEMMA ConsumeMaps ==
    ASSUME IInv, [Next]_vars, NEW r \in Requests, ConsumeRedemption(r)
    PROVE  [Promise!Next]_(Promise!vars)
<1> DEFINE h == credential[r].challenge
<1>1. UNCHANGED <<Paid, Runs, receipts, Receipted>>
  <2>1. UNCHANGED <<invoices, upstream, credential, receipts, reply>>
    BY DEF ConsumeRedemption, node
  <2>2. QED
    BY <2>1 DEF Paid, Runs, Receipted
<1>2. CASE Redeems(r)
  <2>1. h \in Hashes /\ h \in Paid /\ h \notin Redeemed /\ Redeemed' = Redeemed \cup {h}
    BY <1>2 DEF Redeems, Credential, Paid, Redeemed
  <2>2. UNCHANGED Failed
    <3>1. delivery_outcomes[h] = "none" /\ delivery_outcomes \in [Hashes -> Outcome]
      BY <1>2, RedeemsFresh DEF IInv, TypeOK
    <3>2. QED
      BY <1>2, <3>1 DEF Redeems, Failed
  <2>3. PICK p \in Hashes : p = h
    BY <2>1
  <2>4. Promise!Redeem(p)
    BY <1>1, <2>1, <2>2, <2>3 DEF Promise!Redeem, Paid, Redeemed, Runs, Failed, Receipted
  <2>5. QED
    BY <2>4 DEF Promise!Next
<1>3. CASE UNCHANGED store
  <2>1. UNCHANGED <<Redeemed, Failed>>
    BY <1>3 DEF store, tables, Redeemed, Failed
  <2>2. QED
    BY <1>1, <2>1, MappedVars
<1>4. QED
  BY <1>2, <1>3, ConsumeCases

\* The service executes the request that redeemed the payment, and no other.
LEMMA UpstreamMaps ==
    ASSUME IInv, IInv', [Next]_vars, NEW r \in Requests, CallHandler(r) \/ ServiceStep(r)
    PROVE  [Promise!Next]_(Promise!vars)
<1> DEFINE h == credential[r].challenge
<1>1. UNCHANGED <<Paid, Redeemed, receipts, Failed, Receipted>>
  BY DEF CallHandler, ServiceStep, node, store, tables, chain, Paid, Redeemed, Failed, Receipted
<1>2. /\ UNCHANGED credential
      /\ upstream[r] # "ok"
      /\ \E s \in {"sent", "ok", "refused", "lost"} : upstream' = [upstream EXCEPT ![r] = s]
      /\ Holder(r)
  BY DEF CallHandler, ServiceStep, chain, IInv, ChainOK, Holder, Working, Delivering
<1>3. upstream \in [Requests -> {"none", "sent", "ok", "refused", "lost"}]
  BY DEF IInv, TypeOK
<1>4. CASE upstream'[r] # "ok"
  <2>1. UNCHANGED Runs
    BY <1>2, <1>3, <1>4 DEF Runs
  <2>2. QED
    BY <1>1, <2>1, MappedVars
<1>5. CASE upstream'[r] = "ok"
  <2>1. h \in Hashes /\ h \in Redeemed
    BY <1>2, HolderKeeps DEF Redeemed
  <2>2. \A q \in Requests : <<h, q>> \notin Runs
    <3>1. ASSUME NEW q \in Requests, upstream[q] = "ok", credential[q].challenge = h
          PROVE  FALSE
      BY <1>2, <3>1, HoldersDiffer DEF Holder
    <3>2. QED
      BY <3>1 DEF Runs
  <2>3. Runs' = Runs \cup {<<h, r>>}
    BY <1>2, <1>3, <1>5, <2>1 DEF Runs
  <2>4. Promise!Execute(h, r)
    BY <1>1, <2>1, <2>2, <2>3
       DEF Promise!Execute, Promise!Ran, Paid, Redeemed, Runs, Failed, Receipted
  <2>5. QED
    BY <2>1, <2>4 DEF Promise!Next
<1>6. QED
  BY <1>4, <1>5

\* A failure is recorded before any receipt, whether the service refused, the handler
\* threw or a store call of the delivery did.
LEMMA OutcomeMaps ==
    ASSUME IInv, [Next]_vars, NEW r \in Requests, SaveDelivery(r) \/ SaveFailure(r)
    PROVE  [Promise!Next]_(Promise!vars)
<1> DEFINE h == credential[r].challenge
<1>1. UNCHANGED <<Paid, Redeemed, Runs, receipts, Receipted>>
  <2>1. UNCHANGED <<invoices, redemptions, upstream, credential, receipts>> /\ NoReceiptGiven
    BY DEF SaveDelivery, SaveFailure, SaveOutcome, node, Answer, NoReceiptGiven
  <2>2. QED
    BY <2>1, ReceiptedStays DEF Paid, Redeemed, Runs
<1>2. /\ stage[r] \in {"ok", "refused", "failing"}
      /\ Holder(r)
      /\ delivery_outcomes' = [delivery_outcomes EXCEPT
             ![h] = IF stage[r] = "ok" THEN "delivered" ELSE "failed"]
  BY DEF SaveDelivery, SaveFailure, SaveOutcome, Holder, Working, Delivering
<1>3. h \in Hashes /\ h \in Redeemed
  BY <1>2, HolderKeeps DEF Redeemed
<1>4. h \notin receipts /\ h \notin Failed
  BY <1>2 DEF IInv, OutcomeOK, Working, Delivering, Failed
<1>5. delivery_outcomes \in [Hashes -> Outcome]
  BY DEF IInv, TypeOK
<1>6. CASE stage[r] = "ok"
  <2>1. UNCHANGED Failed
    BY <1>2, <1>3, <1>4, <1>5, <1>6 DEF Failed
  <2>2. QED
    BY <1>1, <2>1, MappedVars
<1>7. CASE stage[r] # "ok"
  <2>1. Failed' = Failed \cup {h}
    BY <1>2, <1>3, <1>5, <1>7 DEF Failed
  <2>2. PICK p \in Hashes : p = h
    BY <1>3
  <2>3. Promise!Fail(p)
    BY <1>1, <1>3, <1>4, <2>1, <2>2
       DEF Promise!Fail, Promise!Closed, Paid, Redeemed, Runs, Failed, Receipted
  <2>4. QED
    BY <2>3 DEF Promise!Next
<1>8. QED
  BY <1>6, <1>7

\* The stored receipt settles the delivery: the service ran, and nothing turns it into a
\* failure any more.
LEMMA ReceiptMaps ==
    ASSUME IInv, [Next]_vars, NEW r \in Requests, SaveReceipt(r)
    PROVE  [Promise!Next]_(Promise!vars)
<1> DEFINE h == credential[r].challenge
<1>1. UNCHANGED <<Paid, Redeemed, Runs, Failed, Receipted>>
  <2>1. UNCHANGED <<invoices, redemptions, upstream, credential, delivery_outcomes, reply>>
    BY DEF SaveReceipt, node
  <2>2. QED
    BY <2>1 DEF Paid, Redeemed, Runs, Failed, Receipted
<1>2. /\ stage[r] = "receipting" /\ Holder(r)
      /\ receipts' = receipts \cup {h}
  BY DEF SaveReceipt, Holder, Working
<1>3. h \in Hashes
  BY <1>2, HolderKeeps
<1>4. h \notin receipts /\ h \notin Failed
  BY <1>2 DEF IInv, OutcomeOK, Working, Delivering, Failed
<1>5. <<h, r>> \in Runs
  BY <1>2, <1>3 DEF IInv, ChainOK, Runs
<1>6. Promise!Deliver(h)
  BY <1>1, <1>2, <1>4, <1>5
     DEF Promise!Deliver, Promise!Ran, Promise!Closed, Paid, Redeemed, Runs, Failed, Receipted
<1>7. QED
  BY <1>3, <1>6 DEF Promise!Next

\* The payer is given the receipt that was stored.
LEMMA AnswerMaps ==
    ASSUME IInv, [Next]_vars, NEW r \in Requests, AnswerReceipt(r)
    PROVE  [Promise!Next]_(Promise!vars)
<1> DEFINE h == credential[r].challenge
<1>1. UNCHANGED <<Paid, Redeemed, Runs, receipts, Failed>>
  BY DEF AnswerReceipt, node, store, tables, Paid, Redeemed, Runs, Failed
<1>2. Holder(r) /\ h \in receipts
  BY DEF AnswerReceipt, Holder, Working, IInv, OutcomeOK
<1>3. h \in Hashes
  BY <1>2, HolderKeeps
<1>4. Receipted' = Receipted \cup {h}
  <2>1. /\ UNCHANGED credential
        /\ reply' = [reply EXCEPT ![r] = "receipt"]
        /\ reply \in [Requests -> Reply]
    BY DEF AnswerReceipt, Answer, IInv, TypeOK
  <2>2. \A q \in Requests : reply'[q] = "receipt" <=> reply[q] = "receipt" \/ q = r
    BY <2>1
  <2>3. QED
    BY <2>1, <2>2 DEF Receipted
<1>5. PICK p \in Hashes : p = h
  BY <1>3
<1>6. Promise!GiveReceipt(p)
  BY <1>1, <1>2, <1>4, <1>5 DEF Promise!GiveReceipt, Paid, Redeemed, Runs, Failed, Receipted
<1>7. QED
  BY <1>6 DEF Promise!Next

\* An arriving request was idle: the service never saw it, and it has no answer.
LEMMA ArriveMaps ==
    ASSUME IInv, NEW r \in Requests, NEW res \in Resources, NEW c \in Credential \cup {None},
           Arrive(r, res, c)
    PROVE  UNCHANGED Promise!vars
<1>1. UNCHANGED <<Paid, Redeemed, receipts, Failed>>
  BY DEF Arrive, node, store, tables, Paid, Redeemed, Failed
<1>2. /\ UNCHANGED <<upstream, reply>>
      /\ upstream[r] = "none" /\ reply[r] # "receipt"
      /\ \A q \in Requests : q # r => credential'[q] = credential[q]
  BY DEF Arrive, IInv, ChainOK, TypeOK
<1>3. UNCHANGED <<Runs, Receipted>>
  BY <1>2 DEF Runs, Receipted
<1>4. QED
  BY <1>1, <1>3, MappedVars

\* The middleware, with crashes and failing store calls, implements PaidDelivery.
THEOREM ImplementsPromise == Spec => KeepsPromise
<1>1. IInv /\ IInv' /\ [Next]_vars => [Promise!Next]_(Promise!vars)
  <2> SUFFICES ASSUME IInv, IInv', [Next]_vars PROVE [Promise!Next]_(Promise!vars)
    OBVIOUS
  <2>1. ASSUME NEW r \in Requests,
               \/ ConsumeRedemption(r) \/ SaveDelivery(r) \/ SaveFailure(r)
               \/ SaveReceipt(r) \/ AnswerReceipt(r) \/ CallHandler(r) \/ ServiceStep(r)
        PROVE  [Promise!Next]_(Promise!vars)
    BY <2>1, ConsumeMaps, OutcomeMaps, ReceiptMaps, AnswerMaps, UpstreamMaps
  <2>2. ASSUME NEW r \in Requests, NEW res \in Resources, NEW c \in Credential \cup {None},
               Arrive(r, res, c)
        PROVE  [Promise!Next]_(Promise!vars)
    BY <2>2, ArriveMaps
  <2>3. QED
    BY <2>1, <2>2, SettleMaps, OneAtATime
<1>2. QED
  BY <1>1, InitMaps, Invariance, PTL DEF Spec, KeepsPromise, Promise!Spec

\* One payment runs the protected handler at most once, and is not recorded as failed
\* once its receipt is stored.
THEOREM AtMostOneDelivery == Spec => [](Promise!AtMostOnce)
<1>1. IInv => Promise!AtMostOnce
  <2> SUFFICES ASSUME IInv PROVE Promise!AtMostOnce
    OBVIOUS
  <2>1. ASSUME NEW h \in Hashes, NEW q1 \in Requests, NEW q2 \in Requests,
               <<h, q1>> \in Runs, <<h, q2>> \in Runs
        PROVE  q1 = q2
    BY <2>1, HoldersDiffer DEF Runs, Holder
  <2>2. receipts \cap Failed = {}
    BY DEF IInv, RowsOK, Failed
  <2>3. QED
    BY <2>1, <2>2 DEF Promise!AtMostOnce, Runs, Failed
<1>2. QED
  BY <1>1, Invariance, PTL

-----------------------------------------------------------------------------
(* The four entrances of the middleware, for any invoices, resources,      *)
(* currencies and bounds: one payment buys one response whichever way its  *)
(* credential comes, what was redeemed is still what the store says was    *)
(* sold, and a payer who returns in time is admitted.                      *)

\* A payment that has bought a response has its row in the table; without it
\* RowFree would not keep a second credential of the payment out.
RowPerResponse ==
  /\ granted \in [Invoices -> 0..1]
  /\ \A i \in Invoices :
       granted[i] = 1 => \E row \in rows : row.cred.invoice = i

LEMMA RowPerResponseInductive == RowPerResponse /\ [EntrancesNext]_entrances => RowPerResponse'
  <1> SUFFICES ASSUME RowPerResponse, [EntrancesNext]_entrances PROVE RowPerResponse'
    OBVIOUS
  <1> USE DEF RowPerResponse
  <1>1. CASE UNCHANGED <<rows, granted>>
    BY <1>1
  <1>2. ASSUME NEW v \in verifying, Consume(v), RowFree(v.cred) PROVE RowPerResponse'
    <2> DEFINE i == v.cred.invoice
    <2>1. rows' = rows \cup {v} /\ granted' = [granted EXCEPT ![i] = @ + 1]
      BY <1>2 DEF Consume
    <2>2. i \in Invoices => granted[i] = 0
      BY <1>2 DEF RowFree
    <2>3. granted' \in [Invoices -> 0..1]
      <3>1. CASE i \in Invoices
        <4>1. granted[i] + 1 = 1
          BY <2>2, <3>1
        <4>2. granted' = [granted EXCEPT ![i] = 1]
          BY <2>1, <4>1
        <4>3. granted \in [Invoices -> 0..1] /\ 1 \in 0..1
          OBVIOUS
        <4> QED BY ONLY <4>2, <4>3
      <3>2. CASE i \notin Invoices
        BY <2>1, <3>2
      <3> QED BY <3>1, <3>2
    <2>4. ASSUME NEW j \in Invoices, granted'[j] = 1
          PROVE  \E row \in rows' : row.cred.invoice = j
      BY <2>1, <2>4
    <2> QED BY <2>3, <2>4
  <1>3. CASE EntrancesNext
    <2>1. CASE \E v \in verifying : Consume(v)
      BY <1>1, <1>2, <2>1 DEF Consume
    <2>2. CASE ~ \E v \in verifying : Consume(v)
      <3>1. UNCHANGED <<rows, granted>>
        BY <1>3, <2>2
        DEF EntrancesNext, IssueChallenge, TranslateF402, TranslateX402, TranslateL402,
            Translate, PresentPayment, PresentF402, PresentL402, PresentX402,
            Present, SettleInvoice, Tick, RotateSecret, RotateRootKey, Restart
      <3> QED BY <3>1, <1>1
    <2> QED BY <2>1, <2>2
  <1> QED BY <1>1, <1>3 DEF entrances

\* One payment buys one response (consumeRedemption, through all entrances).
THEOREM PaymentBuysOnce == EntrancesSpec => []OneResponsePerPayment
  <1>1. EntrancesInit => RowPerResponse
    BY DEF EntrancesInit, RowPerResponse
  <1>2. RowPerResponse => OneResponsePerPayment
    BY DEF RowPerResponse, OneResponsePerPayment
  <1> QED BY <1>1, <1>2, RowPerResponseInductive, PTL DEF EntrancesSpec

-----------------------------------------------------------------------------
\* An admission agrees with the node and with the store.
Bound(v) ==
  /\ v.cred.invoice \in settled
  /\ v.cred.challenge \in DOMAIN records
  /\ records[v.cred.challenge] = v.resource

\* The inductive invariant: a verification is as sound as a row, since it is
\* about to become one.
BoundWhenVerified == \A v \in verifying \cup rows : Bound(v)

\* Saving a challenge leaves the records there are.
LEMMA SavedStays ==
  ASSUME NEW c, NEW r, NEW d \in DOMAIN records
  PROVE  d \in DOMAIN RecordsWith(c, r) /\ RecordsWith(c, r)[d] = records[d]
  BY DEF RecordsWith

LEMMA BoundWhenVerifiedInductive ==
  BoundWhenVerified /\ [EntrancesNext]_entrances => BoundWhenVerified'
  <1> SUFFICES ASSUME BoundWhenVerified, [EntrancesNext]_entrances PROVE BoundWhenVerified'
    OBVIOUS
  <1>1. ASSUME NEW c, NEW r, records' = RecordsWith(c, r),
               UNCHANGED <<settled, verifying, rows>>
        PROVE  BoundWhenVerified'
    BY <1>1, SavedStays DEF BoundWhenVerified, Bound
  <1>2. ASSUME NEW r, NEW currency, IssueChallenge(r, currency) PROVE BoundWhenVerified'
    BY <1>1, <1>2 DEF IssueChallenge
  <1>3. ASSUME NEW offer, NEW expires, NEW r, Translate(offer, expires, r)
        PROVE  BoundWhenVerified'
    BY <1>1, <1>3 DEF Translate
  <1>4. ASSUME NEW credentials, NEW r, Present(credentials, r) PROVE BoundWhenVerified'
    BY <1>4 DEF Present, Verified, BoundWhenVerified, Bound
  <1>5. ASSUME NEW i \in Invoices, SettleInvoice(i) PROVE BoundWhenVerified'
    BY <1>5 DEF SettleInvoice, BoundWhenVerified, Bound
  <1>6. ASSUME NEW v \in verifying, Consume(v) PROVE BoundWhenVerified'
    BY <1>6 DEF Consume, BoundWhenVerified, Bound
  <1>7. ASSUME Tick \/ RotateSecret \/ RotateRootKey PROVE BoundWhenVerified'
    BY <1>7 DEF Tick, RotateSecret, RotateRootKey, Restart, BoundWhenVerified, Bound
  <1>8. CASE EntrancesNext
    BY <1>2, <1>3, <1>4, <1>5, <1>6, <1>7, <1>8
    DEF EntrancesNext, TranslateF402, TranslateX402, TranslateL402,
        PresentPayment, PresentF402, PresentL402, PresentX402
  <1>9. CASE UNCHANGED entrances
    BY <1>9 DEF entrances, BoundWhenVerified, Bound
  <1> QED BY <1>8, <1>9

\* What was redeemed was settled and stays what its challenge's record binds
\* (saveChallenge is INSERT OR IGNORE).
THEOREM RedemptionsStayBound == EntrancesSpec => []RedeemedAsBound
  <1>1. EntrancesInit => BoundWhenVerified
    BY DEF EntrancesInit, BoundWhenVerified
  <1>2. BoundWhenVerified => RedeemedAsBound
    BY DEF BoundWhenVerified, Bound, RedeemedAsBound
  <1> QED BY <1>1, <1>2, BoundWhenVerifiedInductive, PTL DEF EntrancesSpec

-----------------------------------------------------------------------------
(* The payer who returns *)

\* What a verification compares with a challenge besides its record.  The record
\* kept under an identifier has the digest the identifier was computed from,
\* whichever of the two resources that share it was saved first.
DigestsAgree == \A c \in DOMAIN records : c.digest = records[c].digest

LEMMA DigestsAgreeInductive == DigestsAgree /\ [EntrancesNext]_entrances => DigestsAgree'
  <1> SUFFICES ASSUME DigestsAgree, [EntrancesNext]_entrances PROVE DigestsAgree'
    OBVIOUS
  <1>1. ASSUME NEW c, NEW r, c.digest = r.digest, records' = RecordsWith(c, r)
        PROVE  DigestsAgree'
    BY <1>1 DEF DigestsAgree, RecordsWith
  <1>2. ASSUME NEW offer, NEW expires, NEW r, NEW frame
        PROVE  Bind(offer, expires, r.digest, frame).digest = r.digest
    BY DEF Bind
  <1>3. ASSUME NEW r, NEW currency, IssueChallenge(r, currency) PROVE DigestsAgree'
    BY <1>1, <1>2, <1>3 DEF IssueChallenge
  <1>4. ASSUME NEW offer, NEW expires, NEW r, Translate(offer, expires, r)
        PROVE  DigestsAgree'
    BY <1>1, <1>2, <1>4 DEF Translate
  <1>5. CASE UNCHANGED records
    BY <1>5 DEF DigestsAgree
  <1>6. CASE EntrancesNext
    BY <1>3, <1>4, <1>5, <1>6
    DEF EntrancesNext, TranslateF402, TranslateX402, TranslateL402, PresentPayment,
        PresentF402, PresentL402, PresentX402, Present, SettleInvoice, Consume, Tick,
        RotateSecret, RotateRootKey, Restart
  <1> QED BY <1>5, <1>6 DEF entrances

\* What every charge says of its invoice, or leaves out: the node's currency is the
\* configured one, and the terms that are repeated are the invoice's own.
TermsKept(offer) ==
  /\ Lower(TermsOf[offer.invoice].currency) = Lower(FiberCurrency)
  /\ offer.invoiceCurrency \in {FiberCurrency, Absent}
  /\ offer.invoiceExpires \in {TermsOf[offer.invoice].expires, Absent}
  /\ offer.invoiceUdt \in {TermsOf[offer.invoice].udt, Absent}

TermsAgree ==
  /\ \A c \in DOMAIN records : TermsKept(c.charge)
  /\ \A cap \in capabilities : TermsKept(cap.challenge.charge)

\* The conversions keep what the verifier compares: the invoice of the charge that
\* was paid and, as far as they carry it, what the charge says of the invoice.
LEMMA ConversionsKeepThePayment ==
  ASSUME NEW offer
  PROVE  /\ F402Body(offer).invoice = offer.invoice
         /\ F402Charge(F402Body(offer)).invoice = offer.invoice
         /\ F402Charge(F402Body(offer)).algorithm = offer.algorithm
         /\ X402Requirements(offer).invoice = offer.invoice
         /\ X402Charge(X402Requirements(offer)).invoice = offer.invoice
         /\ X402Charge(X402Requirements(offer)).algorithm = offer.algorithm
         /\ X402Charge(X402Requirements(offer)).udt = offer.udt
  BY DEF F402Body, F402Charge, X402Requirements, X402Charge, PlainCharge

LEMMA ConversionsKeepTheTerms ==
  ASSUME NEW offer, TermsKept(offer), NEW algorithm
  PROVE  /\ TermsKept(F402Charge(F402Body(offer)))
         /\ TermsKept(X402Charge(X402Requirements(offer)))
         /\ TermsKept(L402Charge(offer, algorithm))
  <1>1. ASSUME NEW currency PROVE TermsKept(PlainCharge(offer.invoice, currency, algorithm))
    BY DEF PlainCharge, TermsKept
  <1>2. ASSUME NEW currency PROVE TermsKept(PlainCharge(offer.invoice, currency, offer.algorithm))
    BY DEF PlainCharge, TermsKept
  <1>3. F402Body(offer).invoice = offer.invoice /\ F402Body(offer).algorithm = offer.algorithm
    BY DEF F402Body
  <1>4. TermsKept(F402Charge(F402Body(offer)))
    BY <1>2, <1>3 DEF F402Charge
  <1>5. LET offered == X402Charge(X402Requirements(offer)) IN
          /\ offered.invoice = offer.invoice
          /\ offered.invoiceCurrency = offer.invoiceCurrency
          /\ offered.invoiceExpires = offer.invoiceExpires
          /\ offered.invoiceUdt = offer.invoiceUdt
    BY DEF X402Charge, X402Requirements
  <1>6. TermsKept(X402Charge(X402Requirements(offer)))
    BY <1>5 DEF TermsKept
  <1> QED BY <1>1, <1>4, <1>6 DEF L402Charge

LEMMA TermsAgreeInductive == TermsAgree /\ [EntrancesNext]_entrances => TermsAgree'
  <1> SUFFICES ASSUME TermsAgree, [EntrancesNext]_entrances PROVE TermsAgree'
    OBVIOUS
  <1>1. ASSUME NEW c, NEW r, TermsKept(c.charge), records' = RecordsWith(c, r)
        PROVE  \A d \in DOMAIN records' : TermsKept(d.charge)
    BY <1>1 DEF TermsAgree, RecordsWith
  <1>2. ASSUME NEW offer, NEW expires, NEW digest, NEW frame
        PROVE  Bind(offer, expires, digest, frame).charge = offer
    BY DEF Bind
  <1>3. ASSUME NEW i, Lower(TermsOf[i].currency) = Lower(FiberCurrency), NEW currency
        PROVE  TermsKept(Charge(i, currency))
    BY <1>3 DEF Charge, TermsKept
  <1>4. ASSUME NEW r, NEW currency, IssueChallenge(r, currency) PROVE TermsAgree'
    <2>1. \E i \in Invoices : \E c, algorithm :
            /\ c = Bind(Charge(i, currency), now + Ttl, r.digest, "gateway")
            /\ Lower(TermsOf[i].currency) = Lower(FiberCurrency)
            /\ records' = RecordsWith(c, r)
            /\ capabilities' = capabilities \cup {Capability(c, algorithm)}
      BY <1>4 DEF IssueChallenge
    <2> SUFFICES ASSUME NEW i, NEW c, NEW algorithm,
                        c = Bind(Charge(i, currency), now + Ttl, r.digest, "gateway"),
                        Lower(TermsOf[i].currency) = Lower(FiberCurrency),
                        records' = RecordsWith(c, r),
                        capabilities' = capabilities \cup {Capability(c, algorithm)}
                 PROVE  TermsAgree'
      BY <2>1
    <2>2. TermsKept(c.charge)
      BY <1>2, <1>3
    <2>3. Capability(c, algorithm).challenge = c
      BY DEF Capability
    <2> QED BY <1>1, <2>2, <2>3 DEF TermsAgree
  <1>5. ASSUME NEW offer, TermsKept(offer), NEW expires, NEW r, Translate(offer, expires, r)
        PROVE  TermsAgree'
    <2>1. TermsKept(Bind(offer, expires, r.digest, "bridge").charge)
      BY <1>2, <1>5
    <2> QED BY <1>1, <1>5, <2>1 DEF Translate, TermsAgree
  <1>6. ASSUME NEW r, NEW c \in DOMAIN records, TranslateF402(c, r) \/ TranslateX402(c, r)
        PROVE  TermsAgree'
    BY <1>5, <1>6, ConversionsKeepTheTerms DEF TranslateF402, TranslateX402, TermsAgree
  <1>7. ASSUME NEW r, NEW cap \in capabilities, TranslateL402(cap, r) PROVE TermsAgree'
    BY <1>5, <1>7, ConversionsKeepTheTerms DEF TranslateL402, TermsAgree
  <1>8. CASE UNCHANGED <<records, capabilities>>
    BY <1>8 DEF TermsAgree
  <1>9. CASE EntrancesNext
    BY <1>4, <1>6, <1>7, <1>8, <1>9
    DEF EntrancesNext, PresentPayment, PresentF402, PresentL402, PresentX402, Present,
        SettleInvoice, Consume, Tick, RotateSecret, RotateRootKey, Restart
  <1> QED BY <1>8, <1>9 DEF entrances

\* A payer who paid and returns in time through the entrance that showed the
\* challenge is admitted there (verifyCredential behind the conversions), but for
\* a charge whose translation lost the UDT type script of its invoice or named
\* another hash algorithm than the invoice's.
THEOREM ReturningPayersAreAdmitted == EntrancesSpec => []ReturningPayerIsAdmitted
  <1>1. EntrancesInit => DigestsAgree /\ TermsAgree
    BY DEF EntrancesInit, DigestsAgree, TermsAgree
  <1>2. DigestsAgree /\ TermsAgree => ReturningPayerIsAdmitted
    <2> SUFFICES ASSUME DigestsAgree, TermsAgree, NEW c \in DOMAIN records,
                        c.charge.invoice \in settled,
                        c.secret \in {secret} \cup previous,
                        now <= c.expires + Skew,
                        c.charge.algorithm = TermsOf[c.charge.invoice].algorithm,
                        c.charge.udt = TermsOf[c.charge.invoice].udt
                 PROVE  LET i == c.charge.invoice
                            Admits(credentials) ==
                              \E cred \in credentials : Verified(cred, records[c])
                        IN /\ Admits({CredentialFor(c, Absent, i)})
                           /\ Admits(FromF402(c, F402Body(c.charge).invoice))
                           /\ c.charge.recipient # Absent =>
                                Admits(FromX402(c, X402Requirements(c.charge), i))
                           /\ \A cap \in capabilities :
                                (/\ cap.challenge = c /\ cap.rootKey = rootKey
                                 /\ cap.algorithm = TermsOf[i].algorithm /\ now <= c.expires) =>
                                  Admits(FromL402(cap, i))
      BY DEF ReturningPayerIsAdmitted
    <2> DEFINE i == c.charge.invoice
    <2>1. InvoiceMatches(c.charge)
      BY DEF TermsAgree, TermsKept, InvoiceMatches, UdtMatches
    <2>2. ASSUME NEW source PROVE Verified(CredentialFor(c, source, i), records[c])
      BY <2>1 DEF Verified, CredentialFor, DigestsAgree
    <2>3. FromF402(c, F402Body(c.charge).invoice) = {CredentialFor(c, Absent, i)}
      BY ConversionsKeepThePayment DEF FromF402
    <2>4. ASSUME c.charge.recipient # Absent
          PROVE  FromX402(c, X402Requirements(c.charge), i) = {CredentialFor(c, "x402", i)}
      BY <2>4, ConversionsKeepThePayment DEF FromX402
    <2>5. ASSUME NEW cap \in capabilities, cap.challenge = c, cap.rootKey = rootKey,
                 cap.algorithm = TermsOf[i].algorithm, now <= c.expires
          PROVE  FromL402(cap, i) = {CredentialFor(c, Absent, i)}
      BY <2>5 DEF FromL402, ProofHolds, CapabilityHolds
    <2> QED BY <2>2, <2>3, <2>4, <2>5
  <1> QED BY <1>1, <1>2, DigestsAgreeInductive, TermsAgreeInductive, PTL DEF EntrancesSpec

-----------------------------------------------------------------------------
(* Types *)

\* Binding a charge for a resource makes a challenge.
LEMMA BindType ==
  ASSUME EntrancesTypeOK, NEW offer \in Charges, NEW expires \in Nat, NEW r \in Offers,
         NEW frame \in {"gateway", "bridge"}
  PROVE  Bind(offer, expires, r.digest, frame) \in Challenges
  BY DEF EntrancesTypeOK, Bind, Challenges

\* Every translated charge is a charge.
LEMMA ConversionsType ==
  ASSUME NEW offer \in Charges
  PROVE  /\ F402Charge(F402Body(offer)) \in Charges
         /\ offer.recipient # Absent => X402Charge(X402Requirements(offer)) \in Charges
         /\ \A algorithm \in {"ckb_hash", "sha256"} :
              L402Charge(offer, algorithm) \in Charges
  <1>1. /\ offer.invoice \in Invoices
        /\ offer.currency \in Currencies \cup {"ckb", "fibd"}
        /\ Lower(offer.currency) \in Currencies \cup {"ckb", "fibd"}
        /\ offer.algorithm \in {"ckb_hash", "sha256"}
    BY DEF Charges, Lower
  <1>2. ASSUME NEW currency \in Currencies \cup {"ckb", "fibd"}, NEW algorithm \in {"ckb_hash", "sha256"}
        PROVE  PlainCharge(offer.invoice, currency, algorithm) \in Charges
    BY <1>1, <1>2 DEF Charges, PlainCharge
  <1>3. F402Charge(F402Body(offer)) \in Charges
    BY <1>1, <1>2 DEF F402Charge, F402Body
  <1>4. ASSUME offer.recipient # Absent PROVE X402Charge(X402Requirements(offer)) \in Charges
    BY <1>1, <1>4 DEF X402Charge, X402Requirements, Charges
  <1> QED BY <1>1, <1>2, <1>3, <1>4 DEF L402Charge

\* Saving a challenge keeps the shape of the store.
LEMMA SaveChallengeType ==
  ASSUME EntrancesTypeOK, NEW c \in Challenges, NEW r \in Offers, records' = RecordsWith(c, r)
  PROVE  DOMAIN records' \subseteq Challenges /\ \A d \in DOMAIN records' : records'[d] \in Offers
  BY DEF EntrancesTypeOK, RecordsWith

\* An admission names a challenge of the store and an invoice the node reports.
LEMMA AdmissionType ==
  ASSUME EntrancesTypeOK, NEW r \in Offers, NEW c \in DOMAIN records, NEW i,
         NEW source \in {Absent, "x402"}, Verified(CredentialFor(c, source, i), r)
  PROVE  [cred |-> CredentialFor(c, source, i), resource |-> r] \in Admissions
  BY DEF EntrancesTypeOK, Verified, CredentialFor, Admissions

\* A step that only verifies keeps the types.
LEMMA PresentTyped ==
  ASSUME EntrancesTypeOK, NEW credentials, NEW r \in Offers, Present(credentials, r),
         \A cred \in credentials :
            \E c \in DOMAIN records, i \in Invoices, source \in {Absent, "x402"} :
               cred = CredentialFor(c, source, i)
  PROVE  EntrancesTypeOK'
  <1>1. PICK cred \in credentials :
          Verified(cred, r) /\ verifying' = verifying \cup {[cred |-> cred, resource |-> r]}
    BY DEF Present
  <1>2. PICK c \in DOMAIN records, i \in Invoices, source \in {Absent, "x402"} :
          cred = CredentialFor(c, source, i)
    OBVIOUS
  <1>3. [cred |-> cred, resource |-> r] \in Admissions
    BY <1>1, <1>2, AdmissionType
  <1> QED BY <1>1, <1>3 DEF Present, EntrancesTypeOK, keys

LEMMA EntrancesTypesInductive ==
  ASSUME EntrancesTypeOK, [EntrancesNext]_entrances
  PROVE  EntrancesTypeOK'
  <1>1. ASSUME NEW r \in Routes, NEW currency \in Currencies, IssueChallenge(r, currency)
        PROVE  EntrancesTypeOK'
    <2>1. PICK i \in Invoices \ IssuedInvoices :
            LET c == Bind(Charge(i, currency), now + Ttl, r.digest, "gateway")
                algorithm == IF L402Algorithm = Absent THEN TermsOf[i].algorithm
                                                     ELSE L402Algorithm
            IN  /\ records' = RecordsWith(c, r)
                /\ capabilities' = capabilities \cup {Capability(c, algorithm)}
                /\ UNCHANGED <<now, keys, translations, settled, verifying,
                               rows, granted>>
      BY <1>1 DEF IssueChallenge
    <2> DEFINE offer == Charge(i, currency)
               c == Bind(offer, now + Ttl, r.digest, "gateway")
               algorithm == IF L402Algorithm = Absent THEN TermsOf[i].algorithm
                                                    ELSE L402Algorithm
    <2>2. r \in Offers /\ now + Ttl \in Nat
      BY EntrancesAssumption DEF EntrancesTypeOK
    <2>3. offer \in Charges
      BY EntrancesAssumption DEF Charges, Charge
    <2>4. c \in Challenges
      BY <2>2, <2>3, BindType
    <2>5. algorithm \in {"ckb_hash", "sha256"}
      BY EntrancesAssumption
    <2>6. Capability(c, algorithm) \in [challenge : Challenges, rootKey : Nat,
                                        algorithm : {"ckb_hash", "sha256"}]
      BY <2>4, <2>5 DEF Capability, EntrancesTypeOK
    <2>7. /\ records' = RecordsWith(c, r)
          /\ capabilities' = capabilities \cup {Capability(c, algorithm)}
          /\ UNCHANGED <<now, keys, translations, settled, verifying,
                         rows, granted>>
      BY <2>1
    <2> HIDE DEF c, algorithm
    <2>8. DOMAIN records' \subseteq Challenges /\ \A d \in DOMAIN records' : records'[d] \in Offers
      BY <2>2, <2>4, <2>7, SaveChallengeType
    <2> QED BY <2>6, <2>7, <2>8 DEF EntrancesTypeOK, keys
  <1>2. ASSUME NEW offer \in Charges, NEW expires \in Nat, NEW r \in Offers,
               Translate(offer, expires, r)
        PROVE  EntrancesTypeOK'
    <2>1. Bind(offer, expires, r.digest, "bridge") \in Challenges
      BY BindType
    <2>2. DOMAIN records' \subseteq Challenges /\ \A d \in DOMAIN records' : records'[d] \in Offers
      BY <1>2, <2>1, SaveChallengeType DEF Translate
    <2>3. translations' \in 0..MaxTranslations
      BY <1>2, EntrancesAssumption DEF Translate, EntrancesTypeOK
    <2> QED BY <1>2, <2>2, <2>3 DEF Translate, EntrancesTypeOK, keys
  <1>3. ASSUME NEW r \in Offers, NEW c \in DOMAIN records,
               TranslateF402(c, r) \/ TranslateX402(c, r)
        PROVE  EntrancesTypeOK'
    <2>1. c.charge \in Charges /\ c.expires \in Nat
      BY DEF EntrancesTypeOK, Challenges
    <2> QED BY <1>2, <1>3, <2>1, ConversionsType DEF TranslateF402, TranslateX402
  <1>4. ASSUME NEW r \in Offers, NEW cap \in capabilities, TranslateL402(cap, r)
        PROVE  EntrancesTypeOK'
    <2>1. /\ cap.challenge.charge \in Charges /\ cap.challenge.expires \in Nat
          /\ cap.algorithm \in {"ckb_hash", "sha256"}
      BY DEF EntrancesTypeOK, Challenges
    <2> QED BY <1>2, <1>4, <2>1, ConversionsType DEF TranslateL402
  <1>5. ASSUME NEW r \in Offers, NEW i \in Invoices, NEW c \in DOMAIN records,
               PresentPayment(c, i, r) \/ PresentF402(c, i, r)
        PROVE  EntrancesTypeOK'
    BY <1>5, PresentTyped DEF PresentPayment, PresentF402, FromF402
  <1>6. ASSUME NEW r \in Offers, NEW i \in Invoices, NEW cap \in capabilities,
               PresentL402(cap, i, r)
        PROVE  EntrancesTypeOK'
    BY <1>6, PresentTyped DEF PresentL402, FromL402
  <1>7. ASSUME NEW r \in Offers, NEW i \in Invoices, NEW c \in DOMAIN records,
               NEW shown \in DOMAIN records, PresentX402(c, shown, i, r)
        PROVE  EntrancesTypeOK'
    BY <1>7, PresentTyped DEF PresentX402, FromX402
  <1>8. ASSUME NEW i \in Invoices, SettleInvoice(i) PROVE EntrancesTypeOK'
    BY <1>8 DEF SettleInvoice, EntrancesTypeOK, keys
  <1>9. ASSUME NEW v \in verifying, Consume(v) PROVE EntrancesTypeOK'
    <2>1. v.cred.invoice \in Invoices
      BY DEF EntrancesTypeOK, Admissions
    <2>2. granted' \in [Invoices -> Nat]
      BY <1>9, <2>1 DEF Consume, EntrancesTypeOK
    <2>3. verifying' \subseteq Admissions /\ rows' \subseteq Admissions
      BY <1>9 DEF Consume, EntrancesTypeOK
    <2> QED BY <1>9, <2>2, <2>3 DEF Consume, EntrancesTypeOK, keys
  <1>10. ASSUME Tick \/ RotateSecret \/ RotateRootKey PROVE EntrancesTypeOK'
    <2>1. CASE Tick
      BY <2>1, EntrancesAssumption DEF Tick, EntrancesTypeOK, keys
    <2>2. ASSUME NEW newSecret \in Nat, NEW kept \in SUBSET Nat, NEW newRootKey \in Nat,
                 Restart(newSecret, kept, newRootKey)
          PROVE  EntrancesTypeOK'
      BY <2>2, EntrancesAssumption DEF Restart, EntrancesTypeOK
    <2>3. /\ secret \in Nat /\ secret + 1 \in Nat /\ rootKey \in Nat /\ rootKey + 1 \in Nat
          /\ previous \in SUBSET Nat /\ {secret} \in SUBSET Nat /\ {} \in SUBSET Nat
      BY DEF EntrancesTypeOK
    <2>4. CASE RotateSecret
      BY <2>2, <2>3, <2>4 DEF RotateSecret
    <2>5. CASE RotateRootKey
      BY <2>2, <2>3, <2>5 DEF RotateRootKey
    <2> QED BY <1>10, <2>1, <2>4, <2>5
  <1>11. CASE UNCHANGED entrances
    BY <1>11 DEF entrances, EntrancesTypeOK
  <1> QED BY <1>1, <1>3, <1>4, <1>5, <1>6, <1>7, <1>8, <1>9, <1>10, <1>11 DEF EntrancesNext

\* Types of the store, the capabilities and the admissions (translations keep
\* charges charges and challenges challenges).
THEOREM EntrancesTypes == EntrancesSpec => []EntrancesTypeOK
  <1>1. EntrancesInit => EntrancesTypeOK
    BY EntrancesAssumption DEF EntrancesInit, EntrancesTypeOK
  <1> QED BY <1>1, EntrancesTypesInductive, PTL DEF EntrancesSpec
=============================================================================
