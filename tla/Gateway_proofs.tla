--------------------------- MODULE Gateway_proofs ---------------------------
(***************************************************************************)
(* The safety of Gateway, for any number of requests, payment hashes,      *)
(* resources, secrets and configurations and any set of faults: IInv of    *)
(* GatewayInv holds initially and is preserved by every step, one lemma    *)
(* for each of its parts, and the safety properties follow from it.        *)
(***************************************************************************)
EXTENDS GatewayInv, TLAPS

USE NoneAssumption, NoCredentialAssumption, ConfigsAssumption

-----------------------------------------------------------------------------
(* Type correctness                                                        *)

LEMMA TypeStep == IInv /\ [Next]_vars => TypeOK'
<1> SUFFICES ASSUME IInv, [Next]_vars PROVE TypeOK'
  OBVIOUS
<1> USE DEF IInv, TypeOK, store, node, handlers, Goto, Answer
<1>1. ASSUME NEW r \in Requests, Arrival(r)
      PROVE  TypeOK'
  <2>1. ASSUME NEW res \in Resources, NEW c \in Credential \cup {None}, Arrive(r, res, c)
        PROVE  TypeOK'
    BY <2>1 DEF Arrive, Stage
  <2>2. ASSUME Refuse(r)
        PROVE  TypeOK'
    BY <2>2 DEF Refuse, Stage, Reply
  <2>3. QED
    BY <1>1, <2>1, <2>2 DEF Arrival
<1>2. ASSUME NEW r \in Requests, HandlerStep(r)
      PROVE  TypeOK'
  <2>1. ASSUME NEW h \in Hashes, CreateCharge(r, h)
        PROVE  TypeOK'
    BY <2>1 DEF CreateCharge, Stage, InvoiceStatus
  <2>2. CASE CreateChargeFails(r)
    BY <2>2 DEF CreateChargeFails, Stage, Reply, InvoiceStatus
  <2>3. CASE SaveChallenge(r)
    BY <2>3 DEF SaveChallenge, Stage, Reply
  <2>4. CASE PollPaid(r) \/ PollRejects(r) \/ PollPending(r) \/ PollAgain(r) \/ PollFails(r)
    BY <2>4 DEF PollPaid, PollRejects, PollPending, PollAgain, PollFails, Stage, Reply
  <2>5. CASE ConsumeRedemption(r)
    BY <2>5 DEF ConsumeRedemption, HandlersOK, Stage, Outcome, Redemption, RowOf,
                Credential, Redeeming
  <2>6. CASE CallUpstream(r) \/ UpstreamAnswers(r) \/ UpstreamFails(r)
    BY <2>6 DEF CallUpstream, UpstreamAnswers, UpstreamFails, Stage
  <2>7. CASE SaveDelivery(r)
    BY <2>7 DEF SaveDelivery, Stage, Outcome, Reply
  <2>8. CASE SaveReceipt(r)
    BY <2>8 DEF SaveReceipt, ReceiptOf, Receipt, HandlersOK, Credential, Stage, Reply,
                Redeeming
  <2>9. QED
    BY <1>2, <2>1, <2>2, <2>3, <2>4, <2>5, <2>6, <2>7, <2>8 DEF HandlerStep
<1>3. ASSUME NEW r \in Requests, StoreFails(r) \/ InsertFails(r) \/ Disconnect(r)
      PROVE  TypeOK'
  BY <1>3 DEF StoreFails, InsertFails, Disconnect, Stage, Reply
<1>4. ASSUME NEW r \in Requests, ServiceStep(r)
      PROVE  TypeOK'
  BY <1>4 DEF ServiceStep
<1>5. CASE Restart
  BY <1>5 DEF Restart, Stage
<1>6. ASSUME NEW h \in Hashes, NodeStep(h)
      PROVE  TypeOK'
  BY <1>6 DEF NodeStep, Pay, Settle, Abandon, InvoiceStatus
<1>7. ASSUME NEW i \in ChallengeId, Expire(i)
      PROVE  TypeOK'
  BY <1>7 DEF Expire
<1>8. CASE UNCHANGED vars
  BY <1>8 DEF vars
<1>9. QED
  BY <1>1, <1>2, <1>3, <1>4, <1>5, <1>6, <1>7, <1>8 DEF Next, Quiescent

-----------------------------------------------------------------------------
(* What the handlers know                                                  *)

LEMMA HandlersStep == IInv /\ [Next]_vars => HandlersOK'
<1> SUFFICES ASSUME IInv, [Next]_vars PROVE HandlersOK'
  OBVIOUS
<1> USE DEF IInv, TypeOK, store, node, handlers, Goto, Answer, HandlersOK, Verified,
            Redeeming, Issued
<1>1. ASSUME NEW r \in Requests, Arrival(r)
      PROVE  HandlersOK'
  <2>1. ASSUME NEW res \in Resources, NEW c \in Credential \cup {None}, Arrive(r, res, c)
        PROVE  HandlersOK'
    BY <2>1 DEF Arrive, Acceptable, Stage
  <2>2. ASSUME Refuse(r)
        PROVE  HandlersOK'
    BY <2>2 DEF Refuse, Stage
  <2>3. QED
    BY <1>1, <2>1, <2>2 DEF Arrival
<1>2. ASSUME NEW r \in Requests, HandlerStep(r)
      PROVE  HandlersOK'
  <2>1. ASSUME NEW h \in Hashes, CreateCharge(r, h)
        PROVE  HandlersOK'
    BY <2>1 DEF CreateCharge, Stage, Credential
  <2>2. CASE CreateChargeFails(r)
    BY <2>2 DEF CreateChargeFails, Stage, Credential
  <2>3. CASE SaveChallenge(r)
    BY <2>3 DEF SaveChallenge, Stage, Credential
  <2>4. CASE PollPaid(r) \/ PollRejects(r) \/ PollPending(r) \/ PollAgain(r) \/ PollFails(r)
    BY <2>4 DEF PollPaid, PollRejects, PollPending, PollAgain, PollFails, Stage
  <2>5. CASE ConsumeRedemption(r)
    BY <2>5 DEF ConsumeRedemption, Stage
  <2>6. CASE CallUpstream(r) \/ UpstreamAnswers(r) \/ UpstreamFails(r)
    BY <2>6 DEF CallUpstream, UpstreamAnswers, UpstreamFails, Stage
  <2>7. CASE SaveDelivery(r)
    BY <2>7 DEF SaveDelivery, Stage
  <2>8. CASE SaveReceipt(r)
    BY <2>8 DEF SaveReceipt, Stage
  <2>9. QED
    BY <1>2, <2>1, <2>2, <2>3, <2>4, <2>5, <2>6, <2>7, <2>8 DEF HandlerStep
<1>3. ASSUME NEW r \in Requests, StoreFails(r) \/ InsertFails(r) \/ Disconnect(r)
      PROVE  HandlersOK'
  BY <1>3 DEF StoreFails, InsertFails, Disconnect, Stage, Awaiting
<1>4. ASSUME NEW r \in Requests, ServiceStep(r)
      PROVE  HandlersOK'
  BY <1>4 DEF ServiceStep
<1>5. CASE Restart
  BY <1>5 DEF Restart, Stage, Over
<1>6. ASSUME NEW h \in Hashes, NodeStep(h)
      PROVE  HandlersOK'
  BY <1>6 DEF NodeStep, Pay, Settle, Abandon, Credential
<1>7. ASSUME NEW i \in ChallengeId, Expire(i)
      PROVE  HandlersOK'
  BY <1>7 DEF Expire
<1>8. CASE UNCHANGED vars
  BY <1>8 DEF vars
<1>9. QED
  BY <1>1, <1>2, <1>3, <1>4, <1>5, <1>6, <1>7, <1>8 DEF Next, Quiescent

-----------------------------------------------------------------------------
(* Frames: which step writes what, and what a step never undoes.           *)

LEMMA WhoRedeems ==
    [Next]_vars => \/ UNCHANGED <<consumed_at, redemptions>>
                   \/ \E r \in Requests : ConsumeRedemption(r)
BY DEF Next, Arrival, HandlerStep, Quiescent, Arrive, Refuse, CreateCharge,
       CreateChargeFails, SaveChallenge, PollPaid, PollRejects, PollPending, PollAgain,
       PollFails, CallUpstream, UpstreamAnswers, UpstreamFails, SaveDelivery, SaveReceipt,
       StoreFails, InsertFails, Disconnect, ServiceStep, Restart, NodeStep, Expire, vars, store

LEMMA WhoRecords ==
    [Next]_vars => \/ UNCHANGED delivery_outcomes
                   \/ \E r \in Requests : ConsumeRedemption(r) \/ SaveDelivery(r)
BY DEF Next, Arrival, HandlerStep, Quiescent, Arrive, Refuse, CreateCharge,
       CreateChargeFails, SaveChallenge, PollPaid, PollRejects, PollPending, PollAgain,
       PollFails, CallUpstream, UpstreamAnswers, UpstreamFails, SaveReceipt, StoreFails,
       InsertFails, Disconnect, ServiceStep, Restart, NodeStep, Expire, vars, store

LEMMA WhoGivesReceipts ==
    [Next]_vars => \/ UNCHANGED receipts
                   \/ \E r \in Requests : SaveReceipt(r)
BY DEF Next, Arrival, HandlerStep, Quiescent, Arrive, Refuse, CreateCharge,
       CreateChargeFails, SaveChallenge, PollPaid, PollRejects, PollPending, PollAgain,
       PollFails, CallUpstream, UpstreamAnswers, UpstreamFails, SaveDelivery, ConsumeRedemption,
       StoreFails, InsertFails, Disconnect, ServiceStep, Restart, NodeStep, Expire, vars, store

LEMMA WhoIssues ==
    [Next]_vars => \/ UNCHANGED resource_binding
                   \/ \E r \in Requests : SaveChallenge(r)
BY DEF Next, Arrival, HandlerStep, Quiescent, Arrive, Refuse, CreateCharge,
       CreateChargeFails, PollPaid, PollRejects, PollPending, PollAgain, PollFails, CallUpstream,
       UpstreamAnswers, UpstreamFails, SaveDelivery, SaveReceipt, ConsumeRedemption,
       StoreFails, InsertFails, Disconnect, ServiceStep, Restart, NodeStep, Expire, vars, store

LEMMA WhoMovesInvoices ==
    [Next]_vars => \/ UNCHANGED invoices
                   \/ \E r \in Requests, h \in Hashes : CreateCharge(r, h)
                   \/ \E r \in Requests : CreateChargeFails(r)
                   \/ \E h \in Hashes : NodeStep(h)
BY DEF Next, Arrival, HandlerStep, Quiescent, Arrive, Refuse, SaveChallenge,
       PollPaid, PollRejects, PollPending, PollAgain, PollFails, CallUpstream, UpstreamAnswers,
       UpstreamFails, SaveDelivery, SaveReceipt, ConsumeRedemption, StoreFails, InsertFails,
       Disconnect, ServiceStep, Restart, Expire, vars, node

LEMMA WhoPresents ==
    [Next]_vars => \/ UNCHANGED credential
                   \/ \E r \in Requests, res \in Resources, c \in Credential :
                          Arrive(r, res, c)
<1>1. ASSUME NEW r \in Requests, HandlerStep(r) PROVE UNCHANGED credential
  BY <1>1 DEF HandlerStep, CreateCharge, CreateChargeFails, SaveChallenge, PollPaid, PollRejects,
       PollPending, PollAgain, PollFails, CallUpstream, UpstreamAnswers, UpstreamFails,
       SaveDelivery, SaveReceipt, ConsumeRedemption
<1>2. ASSUME NEW r \in Requests,
             StoreFails(r) \/ InsertFails(r) \/ Disconnect(r) \/ ServiceStep(r) \/ Restart
      PROVE  UNCHANGED credential
  BY <1>2 DEF StoreFails, InsertFails, Disconnect, ServiceStep, Restart, handlers
<1>3. ASSUME NEW r \in Requests, Refuse(r) \/ \E res \in Resources : Arrive(r, res, None)
      PROVE  UNCHANGED credential
  BY <1>3 DEF Refuse, Arrive
<1>4. CASE Restart \/ Quiescent \/ (\E h \in Hashes : NodeStep(h))
           \/ (\E i \in ChallengeId : Expire(i)) \/ UNCHANGED vars
  BY <1>4 DEF Restart, Quiescent, NodeStep, Expire, vars, handlers
<1> QED
  BY <1>1, <1>2, <1>3, <1>4 DEF Next, Arrival

\* The node's statuses Paid, Cancelled and Expired are final, and a hash is
\* never minted twice.
LEMMA InvoicesStep ==
    ASSUME IInv, [Next]_vars, NEW h \in Hashes
    PROVE  /\ invoices[h] = "Paid" => invoices'[h] = "Paid"
           /\ invoices[h] \in {"Cancelled", "Expired"} => invoices'[h] = invoices[h]
           /\ invoices[h] # "none" => invoices'[h] # "none"
<1>1. CASE UNCHANGED invoices
  BY <1>1
<1>2. ASSUME NEW r \in Requests, NEW g \in Hashes, CreateCharge(r, g)
      PROVE  invoices[h] # "none" => invoices'[h] = invoices[h]
  BY <1>2 DEF CreateCharge, IInv, TypeOK
<1>3. ASSUME NEW r \in Requests, CreateChargeFails(r)
      PROVE  invoices[h] # "none" => invoices'[h] = invoices[h]
  BY <1>3 DEF CreateChargeFails, IInv, TypeOK
<1>4. ASSUME NEW g \in Hashes, NodeStep(g)
      PROVE  /\ invoices[h] \in {"Paid", "Cancelled", "Expired"} => invoices'[h] = invoices[h]
             /\ invoices[h] # "none" => invoices'[h] # "none"
  BY <1>4 DEF NodeStep, Pay, Settle, Abandon, IInv, TypeOK
<1>5. QED
  BY <1>1, <1>2, <1>3, <1>4, WhoMovesInvoices

\* An issued challenge keeps its resource.
LEMMA IssuedStep ==
    ASSUME IInv, [Next]_vars, NEW i \in ChallengeId, Issued(i)
    PROVE  resource_binding'[i] = resource_binding[i]
<1>1. ASSUME NEW r \in Requests, SaveChallenge(r)
      PROVE  resource_binding'[i] = resource_binding[i]
  BY <1>1 DEF SaveChallenge, IInv, TypeOK, Issued
<1>2. QED
  BY <1>1, WhoIssues

\* A handler never changes the credential it verifies.
LEMMA CredentialStep ==
    ASSUME IInv, [Next]_vars, NEW r \in Requests, credential[r] # None
    PROVE  credential'[r] = credential[r]
<1>1. ASSUME NEW q \in Requests, NEW res \in Resources, NEW c \in Credential,
             Arrive(q, res, c)
      PROVE  credential'[r] = credential[r]
  BY <1>1 DEF Arrive, IInv, TypeOK, HandlersOK
<1>2. QED
  BY <1>1, WhoPresents

-----------------------------------------------------------------------------
(* Freshness of payment hashes                                             *)

\* Outside CreateCharge and SaveChallenge no handler gets an invoice in hand.
LEMMA StaysOutOfIssuing ==
    ASSUME IInv, [Next]_vars, NEW s \in Requests,
           \A r \in Requests : SaveChallenge(r) => FALSE,
           \A r \in Requests, h \in Hashes : CreateCharge(r, h) => FALSE,
           stage'[s] = "invoiced"
    PROVE  stage[s] = "invoiced" /\ charge'[s] = charge[s]
<1> USE DEF IInv, TypeOK, Goto, Answer, handlers, node, store
<1>1. ASSUME NEW r \in Requests, Arrival(r) \/ HandlerStep(r)
      PROVE  stage[s] = "invoiced" /\ charge'[s] = charge[s]
  BY <1>1 DEF Arrival, HandlerStep, Arrive, Refuse, CreateChargeFails, PollPaid,
       PollRejects, PollPending, PollAgain, PollFails, CallUpstream, UpstreamAnswers,
       UpstreamFails, SaveDelivery, SaveReceipt, ConsumeRedemption
<1>2. ASSUME NEW r \in Requests, StoreFails(r) \/ InsertFails(r) \/ Disconnect(r) \/ ServiceStep(r)
      PROVE  stage[s] = "invoiced" /\ charge'[s] = charge[s]
  BY <1>2 DEF StoreFails, InsertFails, Disconnect, ServiceStep
<1>3. CASE Restart
  BY <1>3 DEF Restart
<1>4. ASSUME NEW h \in Hashes, NodeStep(h)
      PROVE  stage[s] = "invoiced" /\ charge'[s] = charge[s]
  BY <1>4 DEF NodeStep
<1>5. ASSUME NEW i \in ChallengeId, Expire(i)
      PROVE  stage[s] = "invoiced" /\ charge'[s] = charge[s]
  BY <1>5 DEF Expire
<1>6. CASE UNCHANGED vars
  BY <1>6 DEF vars
<1>7. QED
  BY <1>1, <1>2, <1>3, <1>4, <1>5, <1>6 DEF Next, Quiescent

LEMMA IssuingStep == IInv /\ [Next]_vars => IssuingOK'
<1> SUFFICES ASSUME IInv, [Next]_vars PROVE IssuingOK'
  OBVIOUS
<1> USE DEF IInv, TypeOK, IssuingOK, Issued, ChallengeId
<1>1. ASSUME NEW r \in Requests, NEW h \in Hashes, CreateCharge(r, h)
      PROVE  IssuingOK'
  <2>1. /\ invoices' = [invoices EXCEPT ![h] = "Open"] /\ invoices[h] = "none"
        /\ charge' = [charge EXCEPT ![r] = h]
        /\ stage' = [stage EXCEPT ![r] = "invoiced"]
        /\ UNCHANGED resource_binding
    BY <1>1 DEF CreateCharge, Goto, store
  <2>2. \A i \in ChallengeId : Issued(i)' => Issued(i) /\ i.hash # h
    BY <2>1
  <2>3. ASSUME NEW q \in Requests, stage'[q] = "invoiced"
        PROVE  /\ charge'[q] \in Hashes
               /\ invoices'[charge'[q]] # "none"
               /\ q # r => charge'[q] = charge[q] /\ charge[q] # h /\ stage[q] = "invoiced"
               /\ q = r => charge'[q] = h
    BY <2>1, <2>3
  <2>4. (\A i \in ChallengeId : Issued(i) => invoices[i.hash] # "none")'
    BY <2>1, <2>2
  <2>5. (\A i, j \in ChallengeId : Issued(i) /\ Issued(j) /\ i.hash = j.hash => i = j)'
    BY <2>2
  <2>6. (\A q \in Requests : stage[q] = "invoiced" =>
           /\ charge[q] \in Hashes
           /\ invoices[charge[q]] # "none"
           /\ \A i \in ChallengeId : Issued(i) => i.hash # charge[q]
           /\ \A s \in Requests : stage[s] = "invoiced" /\ charge[s] = charge[q] => s = q)'
    BY <2>2, <2>3
  <2>7. QED
    BY <2>4, <2>5, <2>6
<1>2. ASSUME NEW r \in Requests, SaveChallenge(r)
      PROVE  IssuingOK'
  <2> DEFINE new == [hash |-> charge[r], key |-> config.secret, currency |-> config.currency]
  <2>1. new \in ChallengeId /\ ~Issued(new)
    BY <1>2 DEF SaveChallenge
  <2>2. /\ resource_binding' = [resource_binding EXCEPT ![new] = resource[r]]
        /\ invoices' = invoices /\ charge' = charge
        /\ stage' = [stage EXCEPT ![r] = "done"]
        /\ stage[r] = "invoiced"
    BY <1>2, <2>1 DEF SaveChallenge, Answer, Goto, node
  <2>3. \A i \in ChallengeId : Issued(i)' => Issued(i) \/ i = new
    BY <2>1, <2>2
  <2>4. \A s \in Requests : stage'[s] = "invoiced" => stage[s] = "invoiced" /\ s # r
    BY <2>2
  <2>5. (\A i \in ChallengeId : Issued(i) => invoices[i.hash] # "none")'
    BY <2>1, <2>2, <2>3
  <2>6. (\A i, j \in ChallengeId : Issued(i) /\ Issued(j) /\ i.hash = j.hash => i = j)'
    BY <2>1, <2>2, <2>3
  <2>7. (\A q \in Requests : stage[q] = "invoiced" =>
           /\ charge[q] \in Hashes
           /\ invoices[charge[q]] # "none"
           /\ \A i \in ChallengeId : Issued(i) => i.hash # charge[q]
           /\ \A s \in Requests : stage[s] = "invoiced" /\ charge[s] = charge[q] => s = q)'
    BY <2>1, <2>2, <2>3, <2>4
  <2>8. QED
    BY <2>5, <2>6, <2>7
<1>3. ASSUME \A r \in Requests : SaveChallenge(r) => FALSE,
             \A r \in Requests, h \in Hashes : CreateCharge(r, h) => FALSE
      PROVE  IssuingOK'
  <2>1. UNCHANGED resource_binding
    BY <1>3, WhoIssues
  <2>2. \A h \in Hashes : invoices[h] # "none" => invoices'[h] # "none"
    BY InvoicesStep
  <2>3. \A s \in Requests : stage'[s] = "invoiced" =>
            stage[s] = "invoiced" /\ charge'[s] = charge[s]
    BY <1>3, StaysOutOfIssuing
  <2>4. QED
    BY <2>1, <2>2, <2>3
<1>4. QED
  BY <1>1, <1>2, <1>3

-----------------------------------------------------------------------------
(* The redemptions table                                                   *)

\* A successful consume_redemption: the row of a verified credential, in
\* conflict with no row, enters with its challenge and its pending outcome.
Redeems(r) ==
    LET c == credential[r] IN
    /\ stage[r] = "settled"
    /\ c \in Credential
    /\ c.hash = c.challenge.hash
    /\ Issued(c.challenge)
    /\ c.challenge \notin consumed_at
    /\ invoices[c.hash] = "Paid"
    /\ ~Violates(RowOf(c))
    /\ consumed_at' = consumed_at \cup {c.challenge}
    /\ redemptions' = redemptions \cup {RowOf(c)}
    /\ delivery_outcomes' = [delivery_outcomes EXCEPT ![c.challenge] = "pending"]
    /\ UNCHANGED <<resource_binding, invoices, credential, receipts, upstream, reply>>
    /\ stage' = [stage EXCEPT ![r] = "consumed"]

\* A replay writes nothing and goes on to issue a fresh challenge.
Replays(r) ==
    /\ stage[r] = "settled"
    /\ UNCHANGED <<store, invoices, credential, upstream, reply>>
    /\ stage' = [stage EXCEPT ![r] = "issuing"]
    /\ \/ credential[r].challenge \in consumed_at
       \/ Violates(RowOf(credential[r]))

LEMMA ConsumeCases ==
    ASSUME IInv, NEW r \in Requests, ConsumeRedemption(r)
    PROVE  Redeems(r) \/ Replays(r)
<1>1. credential[r] \in Credential /\ Verified(r) /\ invoices[credential[r].hash] = "Paid"
  BY DEF ConsumeRedemption, IInv, HandlersOK, Verified, Redeeming
<1>2. Issued(credential[r].challenge)
  BY <1>1 DEF Verified, Issued
<1>3. QED
  BY <1>1, <1>2 DEF ConsumeRedemption, Redeems, Replays, Verified, Unconsumed, store, node, Goto

LEMMA RedemptionStep ==
    ASSUME IInv, [Next]_vars
    PROVE  UNCHANGED <<consumed_at, redemptions>> \/ \E r \in Requests : Redeems(r)
<1>1. ASSUME NEW r \in Requests, ConsumeRedemption(r)
      PROVE  UNCHANGED <<consumed_at, redemptions>> \/ Redeems(r)
  BY <1>1, ConsumeCases DEF Replays, store
<1>2. QED
  BY <1>1, WhoRedeems

LEMMA RowsStep == IInv /\ [Next]_vars => RowsOK'
<1> SUFFICES ASSUME IInv, [Next]_vars, NEW row \in redemptions'
             PROVE  /\ row = RowOf(row.credential)
                    /\ row.hash = row.challenge.hash
                    /\ row.challenge \in consumed_at'
                    /\ Issued(row.challenge)'
                    /\ invoices'[row.hash] = "Paid"
  BY DEF RowsOK
<1>1. CASE row \in redemptions
  <2>1. /\ row \in Redemption
        /\ row = RowOf(row.credential) /\ row.hash = row.challenge.hash
        /\ row.challenge \in consumed_at /\ Issued(row.challenge)
        /\ invoices[row.hash] = "Paid"
    BY <1>1 DEF IInv, RowsOK, TypeOK
  <2>2. consumed_at \subseteq consumed_at'
    BY RedemptionStep DEF Redeems
  <2>3. Issued(row.challenge)'
    BY <2>1, IssuedStep DEF Issued, Redemption
  <2>4. invoices'[row.hash] = "Paid"
    BY <2>1, InvoicesStep DEF Redemption
  <2>5. QED
    BY <2>1, <2>2, <2>3, <2>4
<1>2. CASE row \notin redemptions
  <2>1. PICK r \in Requests :
            /\ credential[r] \in Credential
            /\ credential[r].hash = credential[r].challenge.hash
            /\ Issued(credential[r].challenge)
            /\ invoices[credential[r].hash] = "Paid"
            /\ consumed_at' = consumed_at \cup {credential[r].challenge}
            /\ redemptions' = redemptions \cup {RowOf(credential[r])}
            /\ UNCHANGED <<resource_binding, invoices>>
    BY <1>2, RedemptionStep DEF Redeems
  <2>2. row = RowOf(credential[r])
    BY <1>2, <2>1
  <2>3. QED
    BY <2>1, <2>2 DEF RowOf, Issued
<1>3. QED
  BY <1>1, <1>2

LEMMA RedeemedOnceStep == IInv /\ [Next]_vars => RedeemedOnce'
<1> SUFFICES ASSUME IInv, [Next]_vars PROVE RedeemedOnce'
  OBVIOUS
<1>1. CASE UNCHANGED redemptions
  BY <1>1 DEF RedeemedOnce, IInv
<1>2. ASSUME NEW new, ~Violates(new), redemptions' = redemptions \cup {new}
      PROVE  RedeemedOnce'
  BY <1>2 DEF RedeemedOnce, Violates, IInv
<1>3. QED
  BY <1>1, <1>2, RedemptionStep DEF Redeems

-----------------------------------------------------------------------------
(* The owner of a redemption                                               *)

\* How a handler comes to each of the stages that the invariant speaks of.
LEMMA StageStep ==
    ASSUME IInv, [Next]_vars, NEW s \in Requests
    PROVE  /\ stage'[s] \in Recording => stage[s] \in Recording \/ Redeems(s)
           /\ stage'[s] = "receipting" =>
                  \/ stage[s] = "receipting"
                  \/ stage[s] = "ok" /\ SaveDelivery(s)
           /\ reply'[s] = "receipt" => reply[s] = "receipt" \/ SaveReceipt(s)
           /\ upstream'[s] # "none" => Holder(s)
           /\ upstream[s] = "ok" => upstream'[s] = "ok"
<1> USE DEF IInv, TypeOK, HandlersOK, Goto, Answer, handlers, node, store, Recording, Holder,
            Redeeming
<1>1. ASSUME NEW r \in Requests, Arrival(r)
      PROVE  /\ stage'[s] \in Recording \cup {"receipting"} => stage'[s] = stage[s]
             /\ reply'[s] = "receipt" => reply[s] = "receipt"
             /\ upstream' = upstream
  BY <1>1 DEF Arrival, Arrive, Refuse
<1>2. ASSUME NEW r \in Requests, HandlerStep(r)
      PROVE  /\ stage'[s] \in Recording => stage[s] \in Recording \/ Redeems(s)
             /\ stage'[s] = "receipting" =>
                    \/ stage[s] = "receipting"
                    \/ stage[s] = "ok" /\ SaveDelivery(s)
             /\ reply'[s] = "receipt" => reply[s] = "receipt" \/ SaveReceipt(s)
             /\ upstream'[s] # "none" => Holder(s)
             /\ upstream[s] = "ok" => upstream'[s] = "ok"
  <2>1. CASE ConsumeRedemption(r)
    <3>1. /\ UNCHANGED <<upstream, reply>>
          /\ \/ stage' = [stage EXCEPT ![r] = "consumed"] /\ Redeems(r)
             \/ stage' = [stage EXCEPT ![r] = "issuing"]
      BY <2>1, ConsumeCases DEF Redeems, Replays
    <3>2. QED
      BY <3>1
  <2>2. CASE SaveDelivery(r)
    <3>1. /\ UNCHANGED upstream
          /\ \/ stage' = [stage EXCEPT ![r] = "receipting"] /\ stage[r] = "ok" /\ UNCHANGED reply
             \/ /\ stage' = [stage EXCEPT ![r] = "done"]
                /\ reply' = [reply EXCEPT ![r] = "upstream"]
             \/ /\ stage' = [stage EXCEPT ![r] = "done"]
                /\ reply' = [reply EXCEPT ![r] = "error"]
      BY <2>2 DEF SaveDelivery
    <3>2. QED
      BY <2>2, <3>1
  <2>3. CASE SaveReceipt(r)
    <3>1. /\ UNCHANGED upstream
          /\ stage' = [stage EXCEPT ![r] = "done"]
          /\ reply' = [reply EXCEPT ![r] = "receipt"]
      BY <2>3 DEF SaveReceipt
    <3>2. QED
      BY <2>3, <3>1
  <2>4. CASE CallUpstream(r) \/ UpstreamAnswers(r) \/ UpstreamFails(r)
    BY <2>4 DEF CallUpstream, UpstreamAnswers, UpstreamFails
  <2>5. CASE PollPaid(r) \/ PollRejects(r) \/ PollPending(r) \/ PollAgain(r)
             \/ PollFails(r) \/ SaveChallenge(r)
    BY <2>5 DEF PollPaid, PollRejects, PollPending, PollAgain, PollFails, SaveChallenge
  <2>6. CASE CreateChargeFails(r) \/ \E h \in Hashes : CreateCharge(r, h)
    BY <2>6 DEF CreateChargeFails, CreateCharge
  <2>7. QED
    BY <1>2, <2>1, <2>2, <2>3, <2>4, <2>5, <2>6 DEF HandlerStep
<1>3. ASSUME NEW r \in Requests, StoreFails(r) \/ InsertFails(r) \/ Disconnect(r)
      PROVE  /\ stage'[s] \in Recording \cup {"receipting"} => stage'[s] = stage[s]
             /\ reply'[s] = "receipt" => reply[s] = "receipt"
             /\ upstream' = upstream
  BY <1>3 DEF StoreFails, InsertFails, Disconnect
<1>4. ASSUME NEW r \in Requests, ServiceStep(r)
      PROVE  /\ stage' = stage /\ reply' = reply
             /\ upstream'[s] # "none" => upstream[s] # "none"
             /\ upstream[s] = "ok" => upstream'[s] = "ok"
  BY <1>4 DEF ServiceStep
<1>5. CASE Restart
  BY <1>5 DEF Restart
<1>6. ASSUME NEW h \in Hashes, NodeStep(h)
      PROVE  UNCHANGED <<stage, reply, upstream>>
  BY <1>6 DEF NodeStep
<1>7. ASSUME NEW i \in ChallengeId, Expire(i)
      PROVE  UNCHANGED <<stage, reply, upstream>>
  BY <1>7 DEF Expire
<1>8. CASE UNCHANGED vars
  BY <1>8 DEF vars
<1>9. QED
  BY <1>1, <1>2, <1>3, <1>4, <1>5, <1>6, <1>7, <1>8 DEF Next, Quiescent

\* Only a successful consume_redemption makes a holder.
LEMMA HolderStep ==
    ASSUME IInv, [Next]_vars, NEW s \in Requests, Holder(s)'
    PROVE  Holder(s) \/ Redeems(s)
<1>1. stage'[s] \in Recording \cup {"receipting"} \/ upstream'[s] # "none"
  BY DEF Holder, Redeeming, Recording
<1>2. QED
  BY <1>1, StageStep DEF Holder, Redeeming, Recording

LEMMA HoldersStep == IInv /\ [Next]_vars => HoldersOK'
<1> SUFFICES ASSUME IInv, [Next]_vars PROVE HoldersOK'
  OBVIOUS
<1>1. ASSUME NEW r \in Requests, Holder(r)'
      PROVE  /\ credential'[r] = credential[r] /\ credential[r] # None
             /\ RowOf(credential[r]) \in redemptions'
  <2>1. CASE Holder(r)
    <3>1. credential[r] # None /\ RowOf(credential[r]) \in redemptions
      BY <2>1 DEF IInv, HoldersOK
    <3>2. redemptions \subseteq redemptions'
      BY RedemptionStep DEF Redeems
    <3>3. QED
      BY <3>1, <3>2, CredentialStep
  <2>2. CASE Redeems(r)
    BY <2>2 DEF Redeems
  <2>3. QED
    BY <1>1, <2>1, <2>2, HolderStep
<1>2. ASSUME NEW r \in Requests, NEW s \in Requests, Holder(r)', Holder(s)',
             credential'[r].challenge = credential'[s].challenge
      PROVE  r = s
  <2>1. credential[r].challenge = credential[s].challenge
    BY <1>1, <1>2
  <2>2. ASSUME NEW q \in Requests, Holder(q)
        PROVE  credential[q].challenge \in consumed_at
    BY <2>2 DEF IInv, HoldersOK, RowsOK, RowOf
  <2>3. CASE Holder(r) /\ Holder(s)
    BY <2>1, <2>3 DEF IInv, HoldersOK
  <2>4. CASE Redeems(r) /\ Holder(s)
    BY <2>1, <2>2, <2>4 DEF Redeems
  <2>5. CASE Holder(r) /\ Redeems(s)
    BY <2>1, <2>2, <2>5 DEF Redeems
  <2>6. CASE Redeems(r) /\ Redeems(s)
    BY <2>6 DEF Redeems, IInv, TypeOK
  <2>7. QED
    BY <1>2, <2>3, <2>4, <2>5, <2>6, HolderStep
<1>3. QED
  BY <1>1, <1>2 DEF HoldersOK, Holder

-----------------------------------------------------------------------------
(* The tables agree                                                        *)

LEMMA LedgerStep == IInv /\ [Next]_vars => LedgerAgrees'
<1> SUFFICES ASSUME IInv, [Next]_vars, NEW i \in ChallengeId
             PROVE  LET Redeemed == \E row \in redemptions' : row.challenge = i IN
                    /\ i \in consumed_at' <=> Redeemed
                    /\ delivery_outcomes'[i] # "none" <=> Redeemed
                    /\ Redeemed => Issued(i)'
  BY DEF LedgerAgrees
<1> DEFINE Redeemed == \E row \in redemptions : row.challenge = i
<1>1. /\ i \in consumed_at <=> Redeemed
      /\ delivery_outcomes[i] # "none" <=> Redeemed
      /\ Redeemed => Issued(i)
  BY DEF IInv, LedgerAgrees
<1>2. Redeemed => Issued(i)'
  BY <1>1, IssuedStep DEF Issued
<1>3. ASSUME NEW r \in Requests, Redeems(r)
      PROVE  /\ i \in consumed_at' <=> Redeemed'
             /\ delivery_outcomes'[i] # "none" <=> Redeemed'
             /\ Redeemed' => Issued(i)'
  <2>1. delivery_outcomes \in [ChallengeId -> Outcome]
    BY DEF IInv, TypeOK
  <2>2. Redeemed' <=> Redeemed \/ i = credential[r].challenge
    BY <1>3 DEF Redeems, RowOf
  <2>3. Issued(credential[r].challenge)'
    BY <1>3 DEF Redeems, Issued
  <2>4. QED
    BY <1>1, <1>2, <1>3, <2>1, <2>2, <2>3 DEF Redeems
<1>4. ASSUME UNCHANGED <<consumed_at, redemptions>>,
             \A r \in Requests : ~Redeems(r)
      PROVE  /\ i \in consumed_at' <=> Redeemed'
             /\ delivery_outcomes'[i] # "none" <=> Redeemed'
             /\ Redeemed' => Issued(i)'
  <2>1. delivery_outcomes'[i] # "none" <=> delivery_outcomes[i] # "none"
    <3>1. ASSUME NEW r \in Requests, ConsumeRedemption(r)
          PROVE  delivery_outcomes' = delivery_outcomes
      BY <1>4, <3>1, ConsumeCases DEF Replays, store
    <3>2. ASSUME NEW r \in Requests, SaveDelivery(r)
          PROVE  delivery_outcomes'[i] # "none" <=> delivery_outcomes[i] # "none"
      <4>1. delivery_outcomes[credential[r].challenge] = "pending"
        BY <3>2 DEF SaveDelivery, IInv, OutcomesOK, Recording
      <4>2. QED
        BY <3>2, <4>1 DEF SaveDelivery, IInv, TypeOK
    <3>3. QED
      BY <3>1, <3>2, WhoRecords
  <2>2. QED
    BY <1>1, <1>2, <1>4, <2>1
<1>5. QED
  BY <1>3, <1>4, RedemptionStep

-----------------------------------------------------------------------------
(* Outcomes and receipts                                                   *)

\* What a step may do to the outcomes.
LEMMA OutcomeStep ==
    ASSUME IInv, [Next]_vars
    PROVE  \/ UNCHANGED delivery_outcomes
           \/ \E r \in Requests : Redeems(r)
           \/ \E r \in Requests :
                 /\ SaveDelivery(r)
                 /\ Holder(r)
                 /\ stage[r] \in {"ok", "refused", "error"}
                 /\ delivery_outcomes[credential[r].challenge] = "pending"
                 /\ delivery_outcomes' = [delivery_outcomes EXCEPT
                        ![credential[r].challenge] =
                            IF stage[r] = "ok" THEN "delivered" ELSE "failed"]
<1>1. ASSUME NEW r \in Requests, ConsumeRedemption(r)
      PROVE  UNCHANGED delivery_outcomes \/ Redeems(r)
  BY <1>1, ConsumeCases DEF Replays, store
<1>2. ASSUME NEW r \in Requests, SaveDelivery(r)
      PROVE  /\ Holder(r)
             /\ stage[r] \in {"ok", "refused", "error"}
             /\ delivery_outcomes[credential[r].challenge] = "pending"
             /\ delivery_outcomes' = [delivery_outcomes EXCEPT
                    ![credential[r].challenge] =
                        IF stage[r] = "ok" THEN "delivered" ELSE "failed"]
  BY <1>2 DEF SaveDelivery, Holder, Redeeming, IInv, OutcomesOK, Recording
<1>3. QED
  BY <1>1, <1>2, WhoRecords

\* Two holders have different challenges.
LEMMA HoldersDiffer ==
    ASSUME IInv, NEW r \in Requests, NEW s \in Requests, Holder(r), Holder(s), r # s
    PROVE  credential[r].challenge # credential[s].challenge
BY DEF IInv, HoldersOK

\* A holder's challenge is consumed, so another handler cannot redeem it.
LEMMA HolderIsConsumed ==
    ASSUME IInv, NEW r \in Requests, Holder(r)
    PROVE  /\ credential[r] \in Credential
           /\ credential[r].challenge \in consumed_at
           /\ Verified(r)
<1>1. credential[r] # None /\ RowOf(credential[r]) \in redemptions
  BY DEF IInv, HoldersOK
<1>2. Verified(r)
  BY <1>1 DEF IInv, HandlersOK
<1>3. credential[r].challenge \in consumed_at
  BY <1>1 DEF IInv, RowsOK, RowOf
<1>4. QED
  BY <1>2, <1>3 DEF Verified

\* An outcome is recorded once, from pending.
LEMMA OutcomeOnce ==
    ASSUME IInv, [Next]_vars, NEW i \in ChallengeId
    PROVE  \/ delivery_outcomes'[i] = delivery_outcomes[i]
           \/ delivery_outcomes[i] = "none" /\ delivery_outcomes'[i] = "pending"
           \/ /\ delivery_outcomes[i] = "pending"
              /\ delivery_outcomes'[i] \in {"delivered", "failed"}
<1>1. ASSUME NEW r \in Requests, Redeems(r)
      PROVE  \/ delivery_outcomes'[i] = delivery_outcomes[i]
             \/ delivery_outcomes[i] = "none" /\ delivery_outcomes'[i] = "pending"
  <2>1. delivery_outcomes[credential[r].challenge] = "none"
    BY <1>1 DEF Redeems, IInv, LedgerAgrees, Credential
  <2>2. QED
    BY <1>1, <2>1 DEF Redeems, IInv, TypeOK
<1>2. QED
  BY <1>1, OutcomeStep DEF IInv, TypeOK

LEMMA OutcomesStep == IInv /\ [Next]_vars => OutcomesOK'
<1> SUFFICES ASSUME IInv, [Next]_vars, NEW r \in Requests
             PROVE  /\ stage'[r] \in Recording =>
                           delivery_outcomes'[credential'[r].challenge] = "pending"
                    /\ stage'[r] = "receipting" =>
                           delivery_outcomes'[credential'[r].challenge] = "delivered"
                    /\ reply'[r] = "receipt" => credential'[r] # None
  BY DEF OutcomesOK
<1>1. delivery_outcomes \in [ChallengeId -> Outcome]
  BY DEF IInv, TypeOK
<1>2. ASSUME Holder(r)
      PROVE  /\ credential'[r] = credential[r]
             /\ credential[r].challenge \in ChallengeId
             /\ credential[r].challenge \in consumed_at
  <2>1. credential[r] # None
    BY <1>2 DEF IInv, HoldersOK
  <2>2. QED
    BY <1>2, <2>1, HolderIsConsumed, CredentialStep DEF Credential
<1>3. ASSUME stage'[r] \in Recording
      PROVE  delivery_outcomes'[credential'[r].challenge] = "pending"
  <2>1. CASE Redeems(r)
    BY <1>1, <2>1 DEF Redeems, Credential
  <2>2. CASE stage[r] \in Recording
    <3>1. Holder(r) /\ delivery_outcomes[credential[r].challenge] = "pending"
      BY <2>2 DEF Holder, Recording, Redeeming, IInv, OutcomesOK
    <3>2. ASSUME NEW q \in Requests, Redeems(q)
          PROVE  delivery_outcomes'[credential[r].challenge] = "pending"
      BY <1>1, <1>2, <3>1, <3>2 DEF Redeems
    <3>3. ASSUME NEW q \in Requests, SaveDelivery(q), Holder(q),
                 delivery_outcomes' = [delivery_outcomes EXCEPT
                        ![credential[q].challenge] =
                            IF stage[q] = "ok" THEN "delivered" ELSE "failed"]
          PROVE  delivery_outcomes'[credential[r].challenge] = "pending"
      <4>1. q # r
        <5>1. stage \in [Requests -> Stage]
          BY DEF IInv, TypeOK
        <5>2. \/ stage' = [stage EXCEPT ![q] = "receipting"]
              \/ stage' = [stage EXCEPT ![q] = "done"]
          BY <3>3 DEF SaveDelivery, Goto, Answer
        <5>3. QED
          BY <1>3, <5>1, <5>2 DEF Recording
      <4>2. credential[q].challenge # credential[r].challenge
        BY <3>1, <3>3, <4>1, HoldersDiffer
      <4>3. QED
        BY <1>1, <1>2, <3>1, <3>3, <4>2
    <3>4. QED
      BY <1>2, <3>1, <3>2, <3>3, OutcomeStep
  <2>3. QED
    BY <1>3, <2>1, <2>2, StageStep
<1>4. ASSUME stage'[r] = "receipting"
      PROVE  delivery_outcomes'[credential'[r].challenge] = "delivered"
  <2>1. CASE stage[r] = "receipting"
    <3>1. Holder(r) /\ delivery_outcomes[credential[r].challenge] = "delivered"
      BY <2>1 DEF Holder, Redeeming, IInv, OutcomesOK
    <3>2. QED
      BY <1>2, <3>1, OutcomeOnce
  <2>2. CASE stage[r] = "ok" /\ SaveDelivery(r)
    <3>1. Holder(r)
      BY <2>2 DEF Holder, Redeeming
    <3>2. QED
      BY <1>1, <1>2, <2>2, <3>1 DEF SaveDelivery
  <2>3. QED
    BY <1>4, <2>1, <2>2, StageStep
<1>5. ASSUME reply'[r] = "receipt"
      PROVE  credential'[r] # None
  <2>1. CASE SaveReceipt(r)
    <3>1. Holder(r)
      BY <2>1 DEF SaveReceipt, Holder, Redeeming
    <3>2. credential[r] # None
      BY <3>1 DEF IInv, HoldersOK
    <3>3. QED
      BY <3>2, CredentialStep
  <2>2. CASE reply[r] = "receipt"
    <3>1. credential[r] # None
      BY <2>2 DEF IInv, OutcomesOK
    <3>2. QED
      BY <3>1, CredentialStep
  <2>3. QED
    BY <1>5, <2>1, <2>2, StageStep
<1>6. QED
  BY <1>3, <1>4, <1>5

LEMMA ReceiptsGrow ==
    ASSUME [Next]_vars
    PROVE  receipts \subseteq receipts'
<1>1. ASSUME NEW r \in Requests, SaveReceipt(r)
      PROVE  receipts \subseteq receipts'
  BY <1>1 DEF SaveReceipt
<1>2. QED
  BY <1>1, WhoGivesReceipts

\* The receipt a handler answers with is in the table, even when the insert was
\* ignored: a row with its reference or its challenge is its own row.
LEMMA ReceiptIsOwn ==
    ASSUME IInv, NEW r \in Requests, SaveReceipt(r)
    PROVE  ReceiptOf(credential[r]) \in receipts'
<1>1. Holder(r) /\ credential[r] \in Credential /\ Verified(r)
      /\ RowOf(credential[r]) \in redemptions
  <2>1. Holder(r)
    BY DEF SaveReceipt, Holder, Redeeming
  <2>2. QED
    BY <2>1, HolderIsConsumed DEF IInv, HoldersOK
<1>2. ASSUME NEW old \in receipts,
             \/ old.reference = credential[r].hash
             \/ old.challenge = credential[r].challenge
      PROVE  old = ReceiptOf(credential[r])
  <2>1. old \in Receipt /\ old.reference = old.challenge.hash
    BY DEF IInv, TypeOK, ReceiptIsEarned
  <2>2. old.challenge = credential[r].challenge
    <3>1. CASE old.reference = credential[r].hash
      <4>1. PICK q \in Requests : /\ credential[q].challenge = old.challenge
                                  /\ RowOf(credential[q]) \in redemptions
        BY <2>1 DEF IInv, ReceiptIsEarned, Receipt
      <4>2. RowOf(credential[q]).hash = RowOf(credential[q]).challenge.hash
        BY <4>1 DEF IInv, RowsOK
      <4>3. RowOf(credential[q]).hash = RowOf(credential[r]).hash
        BY <2>1, <3>1, <4>1, <4>2 DEF RowOf
      <4>4. RowOf(credential[q]) = RowOf(credential[r])
        BY <1>1, <4>1, <4>3 DEF IInv, RedeemedOnce
      <4>5. RowOf(credential[q]).challenge = RowOf(credential[r]).challenge
        BY <4>4
      <4>6. QED
        BY <4>1, <4>5 DEF RowOf
    <3>2. QED
      BY <1>2, <3>1
  <2>3. old.reference = credential[r].hash
    BY <1>1, <2>1, <2>2 DEF Verified
  <2>4. QED
    BY <2>1, <2>2, <2>3 DEF Receipt, ReceiptOf
<1>3. QED
  BY <1>2 DEF SaveReceipt, ReceiptOf

LEMMA ReceiptStep == IInv /\ [Next]_vars => ReceiptIsEarned'
<1> SUFFICES ASSUME IInv, [Next]_vars PROVE ReceiptIsEarned'
  OBVIOUS
<1>1. ASSUME NEW i \in ChallengeId, delivery_outcomes'[i] = "delivered"
      PROVE  \E r \in Requests : /\ upstream'[r] = "ok"
                                 /\ credential'[r].challenge = i
                                 /\ RowOf(credential'[r]) \in redemptions'
  <2>1. redemptions \subseteq redemptions'
    BY RedemptionStep DEF Redeems
  <2>2. PICK r \in Requests : /\ upstream[r] = "ok"
                              /\ credential[r].challenge = i
                              /\ RowOf(credential[r]) \in redemptions
    <3>1. CASE delivery_outcomes[i] = "delivered"
      BY <3>1 DEF IInv, ReceiptIsEarned
    <3>2. CASE delivery_outcomes[i] # "delivered"
      <4>1. delivery_outcomes \in [ChallengeId -> Outcome]
        BY DEF IInv, TypeOK
      <4>2. ASSUME NEW r \in Requests, Redeems(r)
            PROVE  FALSE
        BY <1>1, <3>2, <4>1, <4>2 DEF Redeems
      <4>3. PICK r \in Requests :
               /\ Holder(r)
               /\ stage[r] \in {"ok", "refused", "error"}
               /\ delivery_outcomes' = [delivery_outcomes EXCEPT
                      ![credential[r].challenge] =
                          IF stage[r] = "ok" THEN "delivered" ELSE "failed"]
        BY <1>1, <3>2, <4>2, OutcomeStep
      <4>4. credential[r].challenge = i /\ stage[r] = "ok"
        BY <1>1, <3>2, <4>1, <4>3
      <4>5. upstream[r] = "ok"
        BY <4>4 DEF IInv, HandlersOK
      <4>6. RowOf(credential[r]) \in redemptions
        BY <4>3 DEF IInv, HoldersOK
      <4>7. QED
        BY <4>4, <4>5, <4>6
    <3>3. QED
      BY <3>1, <3>2
  <2>3. Holder(r)
    BY <2>2 DEF Holder
  <2>4. credential'[r] = credential[r]
    BY <2>3, CredentialStep DEF IInv, HoldersOK
  <2>5. upstream'[r] = "ok"
    BY <2>2, StageStep
  <2>6. QED
    BY <2>1, <2>2, <2>4, <2>5
<1>2. ASSUME NEW rec \in receipts'
      PROVE  /\ delivery_outcomes'[rec.challenge] = "delivered"
             /\ rec.reference = rec.challenge.hash
  <2>1. CASE rec \in receipts
    <3>1. rec.challenge \in ChallengeId
      BY <2>1 DEF IInv, TypeOK, Receipt
    <3>2. delivery_outcomes[rec.challenge] = "delivered" /\ rec.reference = rec.challenge.hash
      BY <2>1 DEF IInv, ReceiptIsEarned
    <3>3. QED
      BY <3>1, <3>2, OutcomeOnce
  <2>2. ASSUME NEW r \in Requests, SaveReceipt(r), rec \notin receipts
        PROVE  /\ delivery_outcomes'[rec.challenge] = "delivered"
               /\ rec.reference = rec.challenge.hash
    <3>1. rec = ReceiptOf(credential[r])
      BY <2>2 DEF SaveReceipt
    <3>2. Holder(r)
      BY <2>2 DEF SaveReceipt, Holder, Redeeming
    <3>3. delivery_outcomes[credential[r].challenge] = "delivered"
      BY <2>2 DEF SaveReceipt, IInv, OutcomesOK
    <3>4. QED
      BY <2>2, <3>1, <3>2, <3>3, HolderIsConsumed DEF ReceiptOf, Verified, SaveReceipt
  <2>3. QED
    BY <2>1, <2>2, WhoGivesReceipts
<1>3. ASSUME NEW r \in Requests, reply'[r] = "receipt"
      PROVE  ReceiptOf(credential'[r]) \in receipts'
  <2>1. CASE reply[r] = "receipt"
    <3>1. ReceiptOf(credential[r]) \in receipts /\ credential[r] # None
      BY <2>1 DEF IInv, ReceiptIsEarned, OutcomesOK
    <3>2. QED
      BY <3>1, CredentialStep, ReceiptsGrow
  <2>2. CASE SaveReceipt(r)
    <3>1. credential' = credential
      BY <2>2 DEF SaveReceipt
    <3>2. QED
      BY <2>2, <3>1, ReceiptIsOwn
  <2>3. QED
    BY <1>3, <2>1, <2>2, StageStep
<1>4. QED
  BY <1>1, <1>2, <1>3 DEF ReceiptIsEarned

-----------------------------------------------------------------------------
(* Paid and turned away                                                    *)

\* A handler turns a verified credential away from a terminal status of the
\* settlement poll or from a replay.
LEMMA TurnedAwayStep ==
    ASSUME IInv, [Next]_vars, "insert" \notin Faults, NEW s \in Requests, TurnedAway(s)'
    PROVE  /\ TurnedAway(s) \/ PollRejects(s) \/ Replays(s)
           /\ UNCHANGED config
<1> USE DEF IInv, TypeOK, HandlersOK, Goto, Answer, handlers, node, store, TurnedAway
<1>1. ASSUME NEW r \in Requests, Arrival(r)
      PROVE  TurnedAway(s) /\ UNCHANGED config
  BY <1>1 DEF Arrival, Arrive, Refuse
<1>2. ASSUME NEW r \in Requests, HandlerStep(r)
      PROVE  (TurnedAway(s) \/ PollRejects(s) \/ Replays(s)) /\ UNCHANGED config
  <2>1. CASE ConsumeRedemption(r)
    <3>1. /\ UNCHANGED <<config, credential>>
          /\ \/ stage' = [stage EXCEPT ![r] = "consumed"]
             \/ stage' = [stage EXCEPT ![r] = "issuing"] /\ Replays(r)
      BY <2>1, ConsumeCases DEF Redeems, Replays, ConsumeRedemption
    <3>2. QED
      BY <3>1
  <2>2. CASE PollRejects(r)
    <3>1. /\ UNCHANGED <<config, credential>>
          /\ stage' = [stage EXCEPT ![r] = "issuing"]
      BY <2>2 DEF PollRejects
    <3>2. QED
      BY <2>2, <3>1
  <2>3. CASE SaveDelivery(r) \/ SaveReceipt(r) \/ CallUpstream(r) \/ UpstreamAnswers(r)
             \/ UpstreamFails(r)
    BY <2>3 DEF SaveDelivery, SaveReceipt, CallUpstream, UpstreamAnswers, UpstreamFails
  <2>4. CASE PollPaid(r) \/ PollPending(r) \/ PollAgain(r) \/ PollFails(r) \/ SaveChallenge(r)
    BY <2>4 DEF PollPaid, PollPending, PollAgain, PollFails, SaveChallenge
  <2>5. CASE CreateChargeFails(r) \/ \E h \in Hashes : CreateCharge(r, h)
    BY <2>5 DEF CreateChargeFails, CreateCharge
  <2>6. QED
    BY <1>2, <2>1, <2>2, <2>3, <2>4, <2>5 DEF HandlerStep
<1>3. ASSUME NEW r \in Requests, StoreFails(r) \/ InsertFails(r) \/ Disconnect(r)
      PROVE  TurnedAway(s) /\ UNCHANGED config
  BY <1>3 DEF StoreFails, InsertFails, Disconnect
<1>4. ASSUME NEW r \in Requests, ServiceStep(r)
      PROVE  TurnedAway(s) /\ UNCHANGED config
  BY <1>4 DEF ServiceStep
<1>5. CASE Restart
  BY <1>5 DEF Restart, Over
<1>6. ASSUME NEW h \in Hashes, NodeStep(h)
      PROVE  TurnedAway(s) /\ UNCHANGED config
  BY <1>6 DEF NodeStep
<1>7. ASSUME NEW i \in ChallengeId, Expire(i)
      PROVE  TurnedAway(s) /\ UNCHANGED config
  BY <1>7 DEF Expire
<1>8. CASE UNCHANGED vars
  BY <1>8 DEF vars
<1>9. QED
  BY <1>1, <1>2, <1>3, <1>4, <1>5, <1>6, <1>7, <1>8 DEF Next, Quiescent

\* A conflict with a redemption row is a conflict with a row of the challenge.
LEMMA ConflictIsReplay ==
    ASSUME IInv, NEW r \in Requests, credential[r] # None, Violates(RowOf(credential[r]))
    PROVE  credential[r].challenge \in consumed_at
<1> DEFINE c == credential[r]
<1>1. Verified(r)
  BY DEF IInv, HandlersOK
<1>2. PICK old \in redemptions : \/ old.challenge = c.challenge
                                 \/ old.credential = c
                                 \/ old.hash = c.hash
  BY DEF Violates, RowOf
<1>3. /\ old \in Redemption
      /\ old.challenge = old.credential.challenge
      /\ old.hash = old.challenge.hash
      /\ old.challenge \in consumed_at
      /\ Issued(old.challenge)
  <2>1. old \in Redemption /\ old = RowOf(old.credential)
    BY DEF IInv, TypeOK, RowsOK
  <2>2. RowOf(old.credential).challenge = old.credential.challenge
    BY DEF RowOf
  <2>3. QED
    BY <2>1, <2>2 DEF IInv, RowsOK
<1>4. c.challenge \in ChallengeId /\ Issued(c.challenge) /\ c.hash = c.challenge.hash
  BY <1>1 DEF Verified, Credential, Issued
<1>5. old.hash = c.hash => old.challenge = c.challenge
  BY <1>3, <1>4 DEF IInv, IssuingOK, Redemption
<1>6. QED
  BY <1>2, <1>3, <1>5

LEMMA RefusalsStep == IInv /\ [Next]_vars => RefusalsOK'
<1> SUFFICES ASSUME IInv, [Next]_vars, "insert" \notin Faults,
                    NEW r \in Requests, TurnedAway(r)'
             PROVE  \/ invoices'[credential'[r].hash] \in {"Cancelled", "Expired"}
                    \/ credential'[r].challenge.currency # config'.currency
                    \/ credential'[r].challenge \in consumed_at'
  BY DEF RefusalsOK
<1>1. credential[r] # None
      /\ (\/ invoices[credential[r].hash] \in {"Cancelled", "Expired"}
          \/ credential[r].challenge.currency # config.currency
          \/ credential[r].challenge \in consumed_at)
  <2>1. CASE TurnedAway(r)
    BY <2>1 DEF IInv, RefusalsOK, TurnedAway
  <2>2. CASE PollRejects(r)
    BY <2>2 DEF PollRejects, IInv, HandlersOK
  <2>3. CASE Replays(r)
    <3>1. credential[r] # None
      BY <2>3 DEF Replays, IInv, HandlersOK
    <3>2. QED
      BY <2>3, <3>1, ConflictIsReplay DEF Replays
  <2>4. QED
    BY <2>1, <2>2, <2>3, TurnedAwayStep
<1>2. credential'[r] = credential[r]
  BY <1>1, CredentialStep
<1>3. credential[r].hash \in Hashes
  BY <1>1 DEF IInv, TypeOK, Credential
<1>4. consumed_at \subseteq consumed_at'
  BY RedemptionStep DEF Redeems
<1>5. UNCHANGED config
  BY TurnedAwayStep
<1>6. QED
  BY <1>1, <1>2, <1>3, <1>4, <1>5, InvoicesStep

-----------------------------------------------------------------------------
(* The invariant                                                           *)

LEMMA InitInvariant == Init => IInv
<1> SUFFICES ASSUME Init PROVE IInv
  OBVIOUS
<1> USE DEF Init
<1>1. TypeOK
  BY DEF TypeOK, InvoiceStatus, Outcome, Stage, Reply
<1>2. HandlersOK
  BY DEF HandlersOK, Redeeming
<1>3. IssuingOK
  BY DEF IssuingOK, Issued
<1>4. RowsOK /\ RedeemedOnce
  BY DEF RowsOK, RedeemedOnce
<1>5. HoldersOK
  BY DEF HoldersOK, Holder, Redeeming
<1>6. LedgerAgrees
  BY DEF LedgerAgrees
<1>7. OutcomesOK
  BY DEF OutcomesOK, Recording
<1>8. ReceiptIsEarned
  BY DEF ReceiptIsEarned
<1>9. RefusalsOK
  BY DEF RefusalsOK, TurnedAway
<1>10. QED
  BY <1>1, <1>2, <1>3, <1>4, <1>5, <1>6, <1>7, <1>8, <1>9 DEF IInv

\* The inductive invariant holds of every state the gateway reaches.
THEOREM Invariance == Spec => []IInv
<1>1. IInv /\ [Next]_vars => IInv'
  <2> SUFFICES ASSUME IInv, [Next]_vars PROVE IInv'
    OBVIOUS
  <2>1. TypeOK' /\ HandlersOK' /\ IssuingOK' /\ RowsOK' /\ HoldersOK'
    BY TypeStep, HandlersStep, IssuingStep, RowsStep, HoldersStep
  <2>2. RedeemedOnce' /\ LedgerAgrees' /\ OutcomesOK' /\ ReceiptIsEarned' /\ RefusalsOK'
    BY RedeemedOnceStep, LedgerStep, OutcomesStep, ReceiptStep, RefusalsStep
  <2>3. QED
    BY <2>1, <2>2 DEF IInv
<1>2. QED
  BY <1>1, InitInvariant, PTL DEF Spec

-----------------------------------------------------------------------------
(* What follows from it                                                    *)

\* Every variable keeps its type.
THEOREM TypeCorrectness == Spec => []TypeOK
<1>1. IInv => TypeOK
  BY DEF IInv
<1>2. QED
  BY <1>1, Invariance, PTL

\* No two redemptions share a challenge, a credential or a payment hash, however
\* many retries of one payment race past the settlement poll.
THEOREM NoDoubleRedemption == Spec => []RedeemedOnce
<1>1. IInv => RedeemedOnce
  BY DEF IInv
<1>2. QED
  BY <1>1, Invariance, PTL

LEMMA ServedOnceHolds == IInv => ServedOnce
<1> SUFFICES ASSUME IInv, NEW r \in Requests, NEW s \in Requests,
                    upstream[r] # "none", upstream[s] # "none",
                    credential[r].hash = credential[s].hash
             PROVE  r = s
  BY DEF ServedOnce
<1>1. Holder(r) /\ Holder(s)
  BY DEF Holder
<1>2. RowOf(credential[r]) \in redemptions /\ RowOf(credential[s]) \in redemptions
  BY <1>1 DEF IInv, HoldersOK
<1>3. RowOf(credential[r]).hash = RowOf(credential[s]).hash
  BY DEF RowOf
<1>4. RowOf(credential[r]) = RowOf(credential[s])
  BY <1>2, <1>3 DEF IInv, RedeemedOnce
<1>5. RowOf(credential[r]).challenge = RowOf(credential[s]).challenge
  BY <1>4
<1>6. credential[r].challenge = credential[s].challenge
  BY <1>5 DEF RowOf
<1>7. QED
  BY <1>1, <1>6 DEF IInv, HoldersOK

\* One payment buys at most one call of the protected service, over every
\* retry, cancellation, store failure and restart.
THEOREM AtMostOneDelivery == Spec => []ServedOnce
BY ServedOnceHolds, Invariance, PTL

LEMMA ServedIsPaidHolds == IInv => ServedIsPaid
<1> SUFFICES ASSUME IInv, NEW r \in Requests, upstream[r] # "none"
             PROVE  /\ RowOf(credential[r]) \in redemptions
                    /\ invoices[credential[r].hash] = "Paid"
                    /\ resource_binding[credential[r].challenge] = resource[r]
  BY DEF ServedIsPaid
<1>1. RowOf(credential[r]) \in redemptions /\ credential[r] # None
  BY DEF Holder, IInv, HoldersOK
<1>2. invoices[RowOf(credential[r]).hash] = "Paid"
  BY <1>1 DEF IInv, RowsOK
<1>3. Verified(r)
  BY <1>1 DEF IInv, HandlersOK
<1>4. QED
  BY <1>1, <1>2, <1>3 DEF Verified, RowOf

\* The protected service is called only for a settled, redeemed payment of the
\* very resource the challenge was issued for.
THEOREM NoUnpaidDelivery == Spec => []ServedIsPaid
BY ServedIsPaidHolds, Invariance, PTL

\* Challenges, redemptions and outcomes agree at every instant.
THEOREM LedgersAgree == Spec => []LedgerAgrees
<1>1. IInv => LedgerAgrees
  BY DEF IInv
<1>2. QED
  BY <1>1, Invariance, PTL

\* A delivery is recorded, and a receipt given, only for a 2xx of the service to
\* the request that redeemed the payment.
THEOREM ReceiptsAreEarned == Spec => []ReceiptIsEarned
<1>1. IInv => ReceiptIsEarned
  BY DEF IInv
<1>2. QED
  BY <1>1, Invariance, PTL

LEMMA PaidNotTurnedAwayHolds == IInv /\ "insert" \notin Faults => PaidNotTurnedAway
BY DEF IInv, RefusalsOK, TurnedAway, PaidNotTurnedAway

\* A settled, verified credential is asked to pay again only after its challenge
\* was redeemed, as long as redemption rows can be inserted.
THEOREM NoSecondCharge ==
    ASSUME "insert" \notin Faults
    PROVE  Spec => []PaidNotTurnedAway
<1>1. IInv => PaidNotTurnedAway
  BY PaidNotTurnedAwayHolds
<1>2. QED
  BY <1>1, Invariance, PTL

\* The store takes nothing back and records each outcome once.
THEOREM HistoryIsKept == Spec => HistoryKept
<1> DEFINE Kept ==
      /\ \A i \in ChallengeId : Issued(i) => resource_binding'[i] = resource_binding[i]
      /\ consumed_at \subseteq consumed_at'
      /\ redemptions \subseteq redemptions'
      /\ receipts \subseteq receipts'
      /\ \A i \in ChallengeId :
            \/ delivery_outcomes'[i] = delivery_outcomes[i]
            \/ delivery_outcomes[i] = "none" /\ delivery_outcomes'[i] = "pending"
            \/ /\ delivery_outcomes[i] = "pending"
               /\ delivery_outcomes'[i] \in {"delivered", "failed"}
<1>1. IInv /\ [Next]_vars => [Kept]_vars
  <2> SUFFICES ASSUME IInv, [Next]_vars PROVE Kept
    OBVIOUS
  <2>1. consumed_at \subseteq consumed_at' /\ redemptions \subseteq redemptions'
    BY RedemptionStep DEF Redeems
  <2>2. QED
    BY <2>1, IssuedStep, ReceiptsGrow, OutcomeOnce
<1>2. QED
  BY <1>1, Invariance, PTL DEF Spec, HistoryKept

-----------------------------------------------------------------------------
(* Retired secrets                                                         *)

\* A handler between its checks and its redemption runs under the configuration
\* that accepted its challenge: a restart drops the handlers with the process.
KeysOK ==
    \A r \in Requests :
        stage[r] \in {"polling", "pending", "settled"} => credential[r].challenge.key \in VerifyKeys

\* Only an accepted credential gets a handler to the settlement poll.
LEMMA PollingStep ==
    ASSUME IInv, [Next]_vars, NEW s \in Requests, stage'[s] \in {"polling", "pending", "settled"}
    PROVE  /\ config' = config
           /\ \/ stage[s] \in {"polling", "pending", "settled"}
              \/ \E res \in Resources, c \in Credential :
                     Acceptable(c, res) /\ credential'[s] = c
<1> USE DEF IInv, TypeOK, Goto, Answer, handlers, node, store
<1>1. ASSUME NEW r \in Requests, NEW res \in Resources, Arrive(r, res, None)
      PROVE  config' = config /\ stage'[s] = stage[s]
  BY <1>1 DEF Arrive
<1>2. ASSUME NEW r \in Requests, NEW res \in Resources, NEW c \in Credential, Arrive(r, res, c)
      PROVE  /\ config' = config
             /\ stage'[s] = stage[s] \/ (Acceptable(c, res) /\ credential'[s] = c)
  <2>1. CASE Acceptable(c, res) /\ credential' = [credential EXCEPT ![r] = c] /\ Goto(r, "polling")
    BY <1>2, <2>1 DEF Arrive
  <2>2. CASE Goto(r, "issuing")
    BY <1>2, <2>2 DEF Arrive
  <2>3. QED
    BY <1>2, <2>1, <2>2 DEF Arrive
<1>3. ASSUME NEW r \in Requests, Refuse(r)
      PROVE  config' = config /\ stage'[s] = stage[s]
  BY <1>3 DEF Refuse
<1>4. ASSUME NEW r \in Requests, HandlerStep(r)
      PROVE  config' = config /\ stage[s] \in {"polling", "pending", "settled"}
  <2>1. CASE ConsumeRedemption(r)
    BY <2>1 DEF ConsumeRedemption
  <2>2. CASE SaveDelivery(r) \/ SaveReceipt(r)
    BY <2>2 DEF SaveDelivery, SaveReceipt
  <2>3. CASE CallUpstream(r) \/ UpstreamAnswers(r) \/ UpstreamFails(r)
    BY <2>3 DEF CallUpstream, UpstreamAnswers, UpstreamFails
  <2>4. CASE PollPaid(r) \/ PollRejects(r) \/ PollPending(r) \/ PollAgain(r)
             \/ PollFails(r) \/ SaveChallenge(r)
    BY <2>4 DEF PollPaid, PollRejects, PollPending, PollAgain, PollFails, SaveChallenge
  <2>5. CASE CreateChargeFails(r) \/ \E h \in Hashes : CreateCharge(r, h)
    BY <2>5 DEF CreateChargeFails, CreateCharge
  <2>6. QED
    BY <1>4, <2>1, <2>2, <2>3, <2>4, <2>5 DEF HandlerStep
<1>5. ASSUME NEW r \in Requests,
             StoreFails(r) \/ InsertFails(r) \/ Disconnect(r) \/ ServiceStep(r)
      PROVE  config' = config /\ stage[s] \in {"polling", "pending", "settled"}
  BY <1>5 DEF StoreFails, InsertFails, Disconnect, ServiceStep
<1>6. CASE Restart
  BY <1>6 DEF Restart, Over
<1>7. ASSUME NEW h \in Hashes, NodeStep(h)
      PROVE  config' = config /\ stage'[s] = stage[s]
  BY <1>7 DEF NodeStep
<1>8. ASSUME NEW i \in ChallengeId, Expire(i)
      PROVE  config' = config /\ stage'[s] = stage[s]
  BY <1>8 DEF Expire
<1>9. CASE UNCHANGED vars
  BY <1>9 DEF vars
<1>10. QED
  BY <1>1, <1>2, <1>3, <1>4, <1>5, <1>6, <1>7, <1>8, <1>9 DEF Next, Arrival, Quiescent

LEMMA KeysStep == IInv /\ KeysOK /\ [Next]_vars => KeysOK'
<1> SUFFICES ASSUME IInv, KeysOK, [Next]_vars,
                    NEW s \in Requests, stage'[s] \in {"polling", "pending", "settled"}
             PROVE  (credential[s].challenge.key \in VerifyKeys)'
  BY DEF KeysOK
<1>1. VerifyKeys' = VerifyKeys
  BY PollingStep DEF VerifyKeys
<1>2. CASE stage[s] \in {"polling", "pending", "settled"}
  <2>1. credential[s] # None
    BY <1>2 DEF IInv, HandlersOK
  <2>2. QED
    BY <1>1, <1>2, <2>1, CredentialStep DEF KeysOK
<1>3. ASSUME NEW res \in Resources, NEW c \in Credential,
             Acceptable(c, res), credential'[s] = c
      PROVE  credential'[s].challenge.key \in VerifyKeys
  BY <1>3 DEF Acceptable
<1>4. QED
  BY <1>1, <1>2, <1>3, PollingStep

\* No challenge is redeemed under a secret the running configuration has retired
\* (Arc<GatewayConfig> lasts as long as the handlers that hold it).
THEOREM RetiredSecretsStayRetired == Spec => RetiredSecretsRedeemNothing
<1> DEFINE Accepted ==
      \A i \in consumed_at' : i \notin consumed_at => i.key \in VerifyKeys
<1>1. IInv /\ KeysOK /\ [Next]_vars => [Accepted]_vars
  <2> SUFFICES ASSUME IInv, KeysOK, [Next]_vars PROVE Accepted
    OBVIOUS
  <2>1. ASSUME NEW r \in Requests, ConsumeRedemption(r) PROVE Accepted
    BY <2>1 DEF ConsumeRedemption, KeysOK
  <2>2. QED
    BY <2>1, WhoRedeems
<1>2. Init => KeysOK
  BY DEF Init, KeysOK
<1>3. QED
  BY <1>1, <1>2, KeysStep, Invariance, PTL DEF Spec, RetiredSecretsRedeemNothing

-----------------------------------------------------------------------------
(* The gateway implements PaidDelivery: every step of Gateway is, under    *)
(* the refinement mapping Promise, one step of PaidDelivery or a stutter.  *)

Paid == {h \in Hashes : invoices[h] = "Paid"}
Redeemed == {row.hash : row \in redemptions}
Runs == {hr \in Hashes \X Requests : upstream[hr[2]] = "ok" /\ credential[hr[2]].hash = hr[1]}
Receipted == {rec.reference : rec \in receipts}

LEMMA MappedVars ==
    UNCHANGED <<Paid, Redeemed, Runs, HashesOf("delivered"), HashesOf("failed"), Receipted>>
    => UNCHANGED Promise!vars
BY DEF Promise!vars, Paid, Redeemed, Runs, Receipted

LEMMA InitMaps == Init => Promise!Init
BY DEF Init, Promise!Init, HashesOf

\* One mapped variable moves at a time.
LEMMA OneAtATime ==
    [Next]_vars =>
        \/ UNCHANGED <<redemptions, upstream, credential, delivery_outcomes, receipts>>
        \/ \E r \in Requests : \/ ConsumeRedemption(r) \/ SaveDelivery(r) \/ SaveReceipt(r)
                               \/ CallUpstream(r) \/ ServiceStep(r)
        \/ \E r \in Requests, res \in Resources, c \in Credential : Arrive(r, res, c)
BY DEF Next, Arrival, HandlerStep, Quiescent, Arrive, Refuse, CreateCharge,
       CreateChargeFails, SaveChallenge, PollPaid, PollRejects, PollPending, PollAgain, PollFails,
       UpstreamAnswers, UpstreamFails, StoreFails, InsertFails, Disconnect, Restart, NodeStep, Expire,
       vars, store, handlers

\* The settlement of an invoice.
LEMMA SettleMaps ==
    ASSUME IInv, [Next]_vars,
           UNCHANGED <<redemptions, upstream, credential, delivery_outcomes, receipts>>
    PROVE  [Promise!Next]_(Promise!vars)
<1>1. /\ UNCHANGED <<Redeemed, Runs, HashesOf("delivered"), HashesOf("failed"), Receipted>>
  BY DEF Redeemed, Runs, HashesOf, Receipted
<1>2. Paid' = Paid \/ \E h \in Hashes : Paid' = Paid \cup {h}
  <2>1. ASSUME NEW r \in Requests, NEW h \in Hashes, CreateCharge(r, h)
        PROVE  Paid' = Paid
    BY <2>1 DEF CreateCharge, Paid, IInv, TypeOK
  <2>2. ASSUME NEW r \in Requests, CreateChargeFails(r)
        PROVE  Paid' = Paid
    BY <2>2 DEF CreateChargeFails, Paid, IInv, TypeOK
  <2>3. ASSUME NEW h \in Hashes, NodeStep(h)
        PROVE  Paid' = Paid \/ Paid' = Paid \cup {h}
    BY <2>3 DEF NodeStep, Pay, Settle, Abandon, Paid, IInv, TypeOK
  <2>4. CASE UNCHANGED invoices
    BY <2>4 DEF Paid
  <2>5. QED
    BY <2>1, <2>2, <2>3, <2>4, WhoMovesInvoices
<1>3. ASSUME NEW h \in Hashes, Paid' = Paid \cup {h}
      PROVE  Promise!Next
  <2>1. Promise!Settle(h)
    BY <1>1, <1>3 DEF Promise!Settle, Paid, Redeemed, Runs, Receipted
  <2>2. QED
    BY <2>1 DEF Promise!Next
<1>4. QED
  BY <1>1, <1>2, <1>3, MappedVars

\* consume_redemption redeems a settled payment that no row redeemed.
LEMMA ConsumeMaps ==
    ASSUME IInv, [Next]_vars, NEW r \in Requests, ConsumeRedemption(r)
    PROVE  [Promise!Next]_(Promise!vars)
<1> DEFINE h == credential[r].hash
<1>1. UNCHANGED <<Paid, Runs, Receipted>>
  BY DEF ConsumeRedemption, node, Paid, Runs, Receipted
<1>2. CASE Redeems(r)
  <2>1. h \in Hashes /\ h \in Paid
    BY <1>2 DEF Redeems, Credential, Paid
  <2>2. h \notin Redeemed
    BY <1>2 DEF Redeems, Violates, RowOf, Redeemed
  <2>3. Redeemed' = Redeemed \cup {h}
    BY <1>2 DEF Redeems, RowOf, Redeemed
  <2>4. /\ credential[r].challenge \in ChallengeId
        /\ delivery_outcomes[credential[r].challenge] = "none"
        /\ delivery_outcomes \in [ChallengeId -> Outcome]
    BY <1>2 DEF Redeems, IInv, TypeOK, LedgerAgrees, Credential
  <2>5. UNCHANGED <<HashesOf("delivered"), HashesOf("failed")>>
    BY <1>2, <2>4 DEF Redeems, HashesOf
  <2>6. PICK p \in Hashes : p = h
    BY <2>1
  <2>7. Promise!Redeem(p)
    BY <1>1, <2>1, <2>2, <2>3, <2>5, <2>6 DEF Promise!Redeem, Paid, Redeemed, Runs, Receipted
  <2>8. QED
    BY <2>7 DEF Promise!Next
<1>3. CASE Replays(r)
  <2>1. UNCHANGED <<Redeemed, HashesOf("delivered"), HashesOf("failed")>>
    BY <1>3 DEF Replays, store, Redeemed, HashesOf
  <2>2. QED
    BY <1>1, <2>1, MappedVars
<1>4. QED
  BY <1>2, <1>3, ConsumeCases

\* The service executes the request that redeemed the payment, and no other.
LEMMA UpstreamMaps ==
    ASSUME IInv, IInv', [Next]_vars, NEW r \in Requests, CallUpstream(r) \/ ServiceStep(r)
    PROVE  [Promise!Next]_(Promise!vars)
<1> DEFINE h == credential[r].hash
<1>1. UNCHANGED <<Paid, Redeemed, HashesOf("delivered"), HashesOf("failed"), Receipted>>
  BY DEF CallUpstream, ServiceStep, node, store, Paid, Redeemed, HashesOf, Receipted
<1>2. /\ UNCHANGED credential
      /\ \/ upstream' = [upstream EXCEPT ![r] = "sent"]
         \/ /\ upstream[r] = "sent"
            /\ \E s \in {"ok", "refused", "lost"} : upstream' = [upstream EXCEPT ![r] = s]
      /\ upstream[r] # "ok"
  BY DEF CallUpstream, ServiceStep, handlers, IInv, HandlersOK
<1>3. upstream \in [Requests -> {"none", "sent", "ok", "refused", "lost"}]
  BY DEF IInv, TypeOK
<1>4. CASE upstream'[r] # "ok"
  <2>1. UNCHANGED Runs
    BY <1>2, <1>3, <1>4 DEF Runs
  <2>2. QED
    BY <1>1, <2>1, MappedVars
<1>5. CASE upstream'[r] = "ok"
  <2>1. /\ upstream[r] = "sent"
        /\ \A q \in Requests : q # r => upstream'[q] = upstream[q]
    BY <1>2, <1>3, <1>5
  <2>2. /\ RowOf(credential[r]) \in redemptions
        /\ credential[r] \in Credential
    BY <2>1, ServedIsPaidHolds, HolderIsConsumed DEF ServedIsPaid, Holder
  <2>3. h \in Hashes /\ h \in Redeemed
    BY <2>2 DEF Redeemed, RowOf, Credential
  <2>4. \A q \in Requests : <<h, q>> \notin Runs
    BY <1>2, <2>1, ServedOnceHolds DEF Runs, ServedOnce
  <2>5. Runs' = Runs \cup {<<h, r>>}
    BY <1>2, <1>5, <2>1, <2>3 DEF Runs
  <2>6. Promise!Execute(h, r)
    BY <1>1, <2>3, <2>4, <2>5
       DEF Promise!Execute, Promise!Ran, Paid, Redeemed, Runs, Receipted
  <2>7. QED
    BY <2>3, <2>6 DEF Promise!Next
<1>6. QED
  BY <1>4, <1>5

\* The outcome is recorded once: as delivered after the service answered 2xx.
LEMMA SaveMaps ==
    ASSUME IInv, [Next]_vars, NEW r \in Requests, SaveDelivery(r)
    PROVE  [Promise!Next]_(Promise!vars)
<1> DEFINE c == credential[r]
           h == c.hash
<1>1. UNCHANGED <<Paid, Redeemed, Runs, Receipted>>
  BY DEF SaveDelivery, node, Paid, Redeemed, Runs, Receipted
<1>2. /\ Holder(r)
      /\ stage[r] \in {"ok", "refused", "error"}
      /\ delivery_outcomes[c.challenge] = "pending"
      /\ delivery_outcomes' = [delivery_outcomes EXCEPT
             ![c.challenge] = IF stage[r] = "ok" THEN "delivered" ELSE "failed"]
  BY DEF SaveDelivery, Holder, Redeeming, IInv, OutcomesOK, Recording
<1>3. /\ c \in Credential
      /\ c.challenge \in ChallengeId
      /\ c.hash = c.challenge.hash
      /\ h \in Hashes
  BY <1>2, HolderIsConsumed DEF Verified, Credential
<1>4. RowOf(c) \in redemptions
  BY <1>2 DEF IInv, HoldersOK
<1>5. delivery_outcomes \in [ChallengeId -> Outcome]
  BY DEF IInv, TypeOK
<1>6. h \notin HashesOf("delivered") \cup HashesOf("failed")
  <2>1. ASSUME NEW j \in ChallengeId, delivery_outcomes[j] \in {"delivered", "failed"},
               j.hash = h
        PROVE  FALSE
    <3>1. PICK row \in redemptions : row.challenge = j
      BY <2>1 DEF IInv, LedgerAgrees
    <3>2. row.hash = RowOf(c).hash
      BY <2>1, <3>1 DEF IInv, RowsOK, RowOf
    <3>3. row = RowOf(c)
      BY <1>4, <3>2 DEF IInv, RedeemedOnce
    <3>4. j = c.challenge
      BY <3>1, <3>3 DEF RowOf
    <3>5. QED
      BY <1>2, <2>1, <3>4
  <2>2. QED
    BY <2>1 DEF HashesOf
<1>7. CASE stage[r] = "ok"
  <2>1. upstream[r] = "ok"
    BY <1>7 DEF IInv, HandlersOK
  <2>2. <<h, r>> \in Runs
    BY <1>3, <2>1 DEF Runs
  <2>3. /\ HashesOf("delivered")' = HashesOf("delivered") \cup {h}
        /\ UNCHANGED HashesOf("failed")
    BY <1>2, <1>3, <1>5, <1>7 DEF HashesOf
  <2>4. Promise!Deliver(h)
    BY <1>1, <1>6, <2>2, <2>3
       DEF Promise!Deliver, Promise!Ran, Promise!Closed, Paid, Redeemed, Runs, Receipted
  <2>5. QED
    BY <1>3, <2>4 DEF Promise!Next
<1>8. CASE stage[r] # "ok"
  <2>1. /\ HashesOf("failed")' = HashesOf("failed") \cup {h}
        /\ UNCHANGED HashesOf("delivered")
    BY <1>2, <1>3, <1>5, <1>8 DEF HashesOf
  <2>2. h \in Redeemed
    BY <1>4 DEF Redeemed, RowOf
  <2>3. Promise!Fail(h)
    BY <1>1, <1>6, <2>1, <2>2
       DEF Promise!Fail, Promise!Closed, Paid, Redeemed, Runs, Receipted
  <2>4. QED
    BY <1>3, <2>3 DEF Promise!Next
<1>9. QED
  BY <1>7, <1>8

\* A receipt is stored for a delivered payment.
LEMMA ReceiptMaps ==
    ASSUME IInv, [Next]_vars, NEW r \in Requests, SaveReceipt(r)
    PROVE  [Promise!Next]_(Promise!vars)
<1> DEFINE h == credential[r].hash
<1>1. UNCHANGED <<Paid, Redeemed, Runs, HashesOf("delivered"), HashesOf("failed")>>
  BY DEF SaveReceipt, node, Paid, Redeemed, Runs, HashesOf
<1>2. /\ Holder(r)
      /\ delivery_outcomes[credential[r].challenge] = "delivered"
      /\ \/ receipts' = receipts
         \/ receipts' = receipts \cup {ReceiptOf(credential[r])}
  BY DEF SaveReceipt, Holder, Redeeming, IInv, OutcomesOK
<1>3. h \in Hashes /\ h \in HashesOf("delivered")
  BY <1>2, HolderIsConsumed DEF Verified, Credential, HashesOf
<1>4. Receipted' = Receipted \/ Receipted' = Receipted \cup {h}
  BY <1>2 DEF Receipted, ReceiptOf
<1>5. ASSUME Receipted' = Receipted \cup {h}
      PROVE  Promise!Next
  <2>1. PICK p \in Hashes : p = h
    BY <1>3
  <2>2. Promise!GiveReceipt(p)
    BY <1>1, <1>3, <1>5, <2>1 DEF Promise!GiveReceipt, Paid, Redeemed, Runs, Receipted
  <2>3. QED
    BY <2>2 DEF Promise!Next
<1>6. QED
  BY <1>1, <1>4, <1>5, MappedVars

\* An arriving handler was idle: the service never saw its request.
LEMMA ArriveMaps ==
    ASSUME IInv, NEW r \in Requests, NEW res \in Resources, NEW c \in Credential,
           Arrive(r, res, c)
    PROVE  UNCHANGED Promise!vars
<1>1. UNCHANGED <<Paid, Redeemed, HashesOf("delivered"), HashesOf("failed"), Receipted>>
  BY DEF Arrive, node, store, Paid, Redeemed, HashesOf, Receipted
<1>2. UNCHANGED upstream /\ upstream[r] = "none"
  BY DEF Arrive, IInv, HandlersOK
<1>3. \A q \in Requests : q # r => credential'[q] = credential[q]
  BY DEF Arrive, IInv, TypeOK
<1>4. UNCHANGED Runs
  BY <1>2, <1>3 DEF Runs
<1>5. QED
  BY <1>1, <1>4, MappedVars

\* The gateway, with all its faults, is an implementation of PaidDelivery.
THEOREM ImplementsPromise == Spec => KeepsPromise
<1>1. IInv /\ IInv' /\ [Next]_vars => [Promise!Next]_(Promise!vars)
  <2> SUFFICES ASSUME IInv, IInv', [Next]_vars PROVE [Promise!Next]_(Promise!vars)
    OBVIOUS
  <2>1. ASSUME NEW r \in Requests,
               \/ ConsumeRedemption(r) \/ SaveDelivery(r) \/ SaveReceipt(r)
               \/ CallUpstream(r) \/ ServiceStep(r)
        PROVE  [Promise!Next]_(Promise!vars)
    BY <2>1, ConsumeMaps, SaveMaps, ReceiptMaps, UpstreamMaps
  <2>2. ASSUME NEW r \in Requests, NEW res \in Resources, NEW c \in Credential,
               Arrive(r, res, c)
        PROVE  [Promise!Next]_(Promise!vars)
    BY <2>2, ArriveMaps
  <2>3. QED
    BY <2>1, <2>2, SettleMaps, OneAtATime
<1>2. QED
  BY <1>1, InitMaps, Invariance, PTL DEF Spec, KeepsPromise, Promise!Spec

-----------------------------------------------------------------------------
(* What the promise means for a payment: nothing is given before what it   *)
(* rests on, and the protected service is sold once.                       *)

Delivered == HashesOf("delivered")
Failed == HashesOf("failed")

\* TypeOK, Chain and AtMostOnce of PaidDelivery, in the names of the mapped sets.
PromiseInv ==
    /\ Paid \subseteq Hashes /\ Redeemed \subseteq Paid
    /\ Runs \subseteq Redeemed \X Requests
    /\ Delivered \subseteq Hashes /\ Failed \subseteq Hashes
    /\ Receipted \subseteq Delivered
    /\ \A h \in Delivered : \E q \in Requests : <<h, q>> \in Runs
    /\ \A h \in Hashes, q1, q2 \in Requests :
           <<h, q1>> \in Runs /\ <<h, q2>> \in Runs => q1 = q2
    /\ Delivered \cap Failed = {}

LEMMA PromiseStep == PromiseInv /\ [Promise!Next]_(Promise!vars) => PromiseInv'
<1> SUFFICES ASSUME PromiseInv, [Promise!Next]_(Promise!vars)
             PROVE  PromiseInv'
  OBVIOUS
<1> USE DEF PromiseInv
<1>1. ASSUME NEW h \in Hashes, Promise!Settle(h)
      PROVE  PromiseInv'
  <2>1. /\ Paid' = Paid \cup {h}
        /\ UNCHANGED <<Redeemed, Runs, Delivered, Failed, Receipted>>
    BY <1>1 DEF Promise!Settle, Paid, Redeemed, Runs, Delivered, Failed, Receipted
  <2>2. QED
    BY <2>1
<1>2. ASSUME NEW h \in Hashes, Promise!Redeem(h)
      PROVE  PromiseInv'
  <2>1. /\ h \in Paid
        /\ Redeemed' = Redeemed \cup {h}
        /\ UNCHANGED <<Paid, Runs, Delivered, Failed, Receipted>>
    BY <1>2 DEF Promise!Redeem, Paid, Redeemed, Runs, Delivered, Failed, Receipted
  <2>2. QED
    BY <2>1
<1>3. ASSUME NEW h \in Hashes, NEW r \in Requests, Promise!Execute(h, r)
      PROVE  PromiseInv'
  <2>1. /\ h \in Redeemed
        /\ \A q \in Requests : <<h, q>> \notin Runs
        /\ Runs' = Runs \cup {<<h, r>>}
        /\ UNCHANGED <<Paid, Redeemed, Delivered, Failed, Receipted>>
    BY <1>3 DEF Promise!Execute, Promise!Ran, Paid, Redeemed, Runs, Delivered, Failed, Receipted
  <2>2. <<h, r>> \in Redeemed \X Requests
    BY <2>1
  <2>3. QED
    BY <2>1, <2>2
<1>4. ASSUME NEW h \in Hashes, Promise!Deliver(h)
      PROVE  PromiseInv'
  <2>1. /\ \E q \in Requests : <<h, q>> \in Runs
        /\ h \notin Delivered \cup Failed
        /\ Delivered' = Delivered \cup {h}
        /\ UNCHANGED <<Paid, Redeemed, Runs, Failed, Receipted>>
    BY <1>4 DEF Promise!Deliver, Promise!Ran, Promise!Closed,
                Paid, Redeemed, Runs, Delivered, Failed, Receipted
  <2>2. QED
    BY <2>1
<1>5. ASSUME NEW h \in Hashes, Promise!Fail(h)
      PROVE  PromiseInv'
  <2>1. /\ h \notin Delivered \cup Failed
        /\ Failed' = Failed \cup {h}
        /\ UNCHANGED <<Paid, Redeemed, Runs, Delivered, Receipted>>
    BY <1>5 DEF Promise!Fail, Promise!Closed, Paid, Redeemed, Runs, Delivered, Failed, Receipted
  <2>2. QED
    BY <2>1
<1>6. ASSUME NEW h \in Hashes, Promise!GiveReceipt(h)
      PROVE  PromiseInv'
  <2>1. /\ h \in Delivered
        /\ Receipted' = Receipted \cup {h}
        /\ UNCHANGED <<Paid, Redeemed, Runs, Delivered, Failed>>
    BY <1>6 DEF Promise!GiveReceipt, Paid, Redeemed, Runs, Delivered, Failed, Receipted
  <2>2. QED
    BY <2>1
<1>7. CASE UNCHANGED Promise!vars
  <2>1. UNCHANGED <<Paid, Redeemed, Runs, Delivered, Failed, Receipted>>
    BY <1>7 DEF Promise!vars, Paid, Redeemed, Runs, Delivered, Failed, Receipted
  <2>2. QED
    BY <2>1
<1>8. QED
  BY <1>1, <1>2, <1>3, <1>4, <1>5, <1>6, <1>7 DEF Promise!Next

\* Every behaviour of PaidDelivery keeps the order of the life cycle of
\* handle_gateway_request: receipts rest on deliveries, deliveries on executions,
\* executions on redemptions and redemptions on payments; no payment is served twice
\* or both delivered and failed.
THEOREM PromiseMeans == Promise!Spec => [](Promise!Chain /\ Promise!AtMostOnce)
<1>1. Promise!Init => PromiseInv
  <2> SUFFICES ASSUME Promise!Init PROVE PromiseInv
    OBVIOUS
  <2>1. /\ Paid = {} /\ Redeemed = {} /\ Runs = {}
        /\ Delivered = {} /\ Failed = {} /\ Receipted = {}
    BY DEF Promise!Init, Paid, Redeemed, Runs, Delivered, Failed, Receipted
  <2>2. QED
    BY <2>1 DEF PromiseInv
<1>2. PromiseInv => Promise!Chain /\ Promise!AtMostOnce
  <2> SUFFICES ASSUME PromiseInv PROVE Promise!Chain /\ Promise!AtMostOnce
    OBVIOUS
  <2>1. /\ Receipted \subseteq Delivered
        /\ \A h \in Delivered : \E q \in Requests : <<h, q>> \in Runs
        /\ \A h \in Hashes, q \in Requests : <<h, q>> \in Runs => h \in Redeemed
        /\ Redeemed \subseteq Paid
    BY DEF PromiseInv
  <2>2. Promise!Chain
    BY <2>1 DEF Promise!Chain, Promise!Ran, Paid, Redeemed, Runs, Delivered, Receipted
  <2>3. /\ \A h \in Hashes, q1, q2 \in Requests :
               <<h, q1>> \in Runs /\ <<h, q2>> \in Runs => q1 = q2
        /\ Delivered \cap Failed = {}
    BY DEF PromiseInv
  <2>4. Promise!AtMostOnce
    BY <2>3 DEF Promise!AtMostOnce, Runs, Delivered, Failed
  <2>5. QED
    BY <2>2, <2>4
<1>3. QED
  BY <1>1, <1>2, PromiseStep, PTL DEF Promise!Spec

\* So does every behaviour of the gateway, through the mapping.
THEOREM GatewayKeepsOrder == Spec => [](Promise!Chain /\ Promise!AtMostOnce)
BY ImplementsPromise, PromiseMeans DEF KeepsPromise
=============================================================================
