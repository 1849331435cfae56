-------------------------- MODULE Settlement_proofs --------------------------
(***************************************************************************)
(* Settlement, for every time to live, time-out, interval, clock skew and  *)
(* bound: what the two polls promise (Poll_proofs) carries over to the     *)
(* call they are part of.                                                  *)
(***************************************************************************)
EXTENDS Settlement, TLAPS

PayerPoll == INSTANCE Poll_proofs WITH
    Timeout <- PayTimeout, Interval <- PayInterval, poll <- pay_poll,
    status <- CASE payment = "Success" -> "settled"
                [] payment = "Failed" -> "terminal"
                [] OTHER -> "pending",
    settled <- succeeded_at

PayeePoll == INSTANCE Poll_proofs WITH
    Timeout <- PaidTimeout, Interval <- PaidInterval, poll <- paid_poll,
    status <- CASE invoice = "Paid" -> "settled"
                [] invoice \in {"Cancelled", "Expired"} -> "terminal"
                [] OTHER -> "pending",
    settled <- paid_at

Polling == {"paying", "verifying"}

\* The steps after the gateway's verdict, which only move the call on.
Answering ==
    /\ ServiceReturns \/ ServiceTimesOut \/ Recharge \/ Return
    /\ UNCHANGED <<world, now, challenge, payee, payer, instants, verdict, polls>>

LEMMA AnsweringSteps ==
  ASSUME ServiceReturns \/ ServiceTimesOut \/ Recharge \/ Return
  PROVE  Answering
  BY DEF Answering, ServiceReturns, ServiceTimesOut, Recharge, Return

\* Instants are numbers, and no place is left waiting longer than it may.
TimesOK ==
    /\ Worlds /\ verdict \in Verdicts
    /\ now \in Nat /\ expires \in Nat /\ since \in Nat
    /\ authorized_at \in Nat /\ arrived_at \in Nat
    /\ call \in Call
    /\ since <= now
    /\ call \notin Polling \cup {"start"} => now <= since + Lasts

\* A poll is under way only where paidFetch, or the gateway, awaits it, and no time
\* passes between its verdict and the step that reads the verdict.
PollsAwaited ==
    /\ pay_poll.phase \in Payer!Waiting => call = "paying"
    /\ paid_poll.phase \in Payee!Waiting => call = "verifying"
    /\ call = "paying" =>
           pay_poll.phase # "idle" /\ pay_poll.started = since
    /\ call = "verifying" =>
           paid_poll.phase # "idle" /\ paid_poll.started = since
    /\ call = "paying" /\ pay_poll.phase \in Payer!Verdict => now = pay_poll.since
    /\ call = "verifying" /\ paid_poll.phase \in Payee!Verdict => now = paid_poll.since

Parameters == PayerPoll!PollParameters /\ PayeePoll!PollParameters

\* The assumption on the constants, in the form the steps below cite.
LEMMA Numbers ==
  /\ Second \in Nat /\ Second > 0
  /\ PayTimeout \in Nat /\ PayInterval \in Nat /\ PaidTimeout \in Nat /\ PaidInterval \in Nat
  /\ RpcTimeout \in Nat /\ RpcTimeout > 0
  /\ ServiceTimeout \in Nat /\ Tolerated \in Nat
  /\ MaxBind \in Nat /\ MaxThink \in Nat /\ MaxTravel \in Nat
  /\ Parameters
  BY SettlementAssumption
  DEF SettlementAssumption, Parameters, PayerPoll!PollParameters, PayeePoll!PollParameters

\* Every step of Settlement is a step of the payer's poll, its node or the clock, or
\* none of them.
LEMMA PayerStep ==
  ASSUME TimesOK, PollsAwaited, [Next]_vars
  PROVE  [PayerPoll!Next]_PayerPoll!vars
<1>1. CASE UNCHANGED <<now, payer, pay_poll>>
  BY <1>1 DEF payer, PayerPoll!vars
<1>2. CASE SendPayment
  BY <1>2 DEF SendPayment, PayerPoll!vars, polls
<1>3. CASE AwaitPayment
  BY <1>3 DEF AwaitPayment, payer, Payer!Begin, PayerPoll!Begin, PayerPoll!Next,
              PayerPoll!PollStep
<1>4. CASE PollPayment
  BY <1>4 DEF PollPayment, payer, PayerPoll!Next, PayerPoll!PollStep,
              Payer!NodeAnswers, PayerPoll!NodeAnswers, Payer!Receive, PayerPoll!Receive,
              Payer!ReadFails, PayerPoll!ReadFails, Payer!Wake, PayerPoll!Wake,
              Payer!End, PayerPoll!End, Payer!Sleep, PayerPoll!Sleep, Payer!Read, PayerPoll!Read
<1>5. CASE PaymentStep
  BY <1>5 DEF PaymentStep, polls, PayerPoll!Next, PayerPoll!NodeChanges
<1>6. CASE Tick
  <2>1. now' = now + 1 /\ UNCHANGED <<payment, succeeded_at, pay_poll>>
    BY <1>6 DEF Tick, payer, polls
  <2>2. PayerPoll!MayPass
    <3>1. CASE call = "paying"
      BY <1>6, <3>1, Numbers DEF Tick, TimesOK, Lasts, Rpc, Travelling, Payer!MayPass,
                                 PayerPoll!MayPass
    <3>2. CASE call # "paying"
      BY <3>2 DEF PollsAwaited, Payer!Waiting, PayerPoll!MayPass
    <3> QED
      BY <3>1, <3>2
  <2> QED
    BY <2>1, <2>2 DEF PayerPoll!Next, PayerPoll!Tick
<1>7. CASE Request \/ AskInvoice \/ MintInvoice \/ IssueChallenge \/ ReadChallenge
           \/ Authorize \/ CheckInvoice
  BY <1>1, <1>7 DEF Request, AskInvoice, MintInvoice, IssueChallenge, ReadChallenge,
                    Authorize, CheckInvoice, polls
<1>8. CASE RpcFails \/ PaymentOver \/ Arrive \/ Lost \/ PollInvoice \/ VerifyOver
           \/ InvoiceStep \/ Answering
  BY <1>1, <1>8 DEF RpcFails, PaymentOver, Arrive, Lost, PollInvoice, VerifyOver,
                    InvoiceStep, Answering, polls
<1>9. CASE UNCHANGED vars
  BY <1>1, <1>9 DEF vars, polls
<1> QED
  BY <1>2, <1>3, <1>4, <1>5, <1>6, <1>7, <1>8, <1>9, AnsweringSteps
  DEF Next, CodeStep

\* And of the gateway's poll, its node or the clock.
LEMMA PayeeStep ==
  ASSUME TimesOK, PollsAwaited, [Next]_vars
  PROVE  [PayeePoll!Next]_PayeePoll!vars
<1>1. CASE UNCHANGED <<now, payee, paid_poll>>
  BY <1>1 DEF payee, PayeePoll!vars
<1>2. CASE MintInvoice
  BY <1>2 DEF MintInvoice, PayeePoll!vars, polls
<1>3. CASE Arrive
  BY <1>3 DEF Arrive, payee, Payee!Begin, PayeePoll!Begin, PayeePoll!Next,
              PayeePoll!PollStep, PayeePoll!vars
<1>4. CASE PollInvoice
  BY <1>4 DEF PollInvoice, payee, PayeePoll!Next, PayeePoll!PollStep,
              Payee!NodeAnswers, PayeePoll!NodeAnswers, Payee!Receive, PayeePoll!Receive,
              Payee!ReadFails, PayeePoll!ReadFails, Payee!Wake, PayeePoll!Wake,
              Payee!End, PayeePoll!End, Payee!Sleep, PayeePoll!Sleep, Payee!Read, PayeePoll!Read
<1>5. CASE InvoiceStep
  BY <1>5 DEF InvoiceStep, polls, PayeePoll!Next, PayeePoll!NodeChanges, PayeePoll!vars
<1>6. CASE Tick
  <2>1. now' = now + 1 /\ UNCHANGED <<invoice, paid_at, paid_poll>>
    BY <1>6 DEF Tick, payee, polls
  <2>2. PayeePoll!MayPass
    <3>1. CASE call = "verifying"
      BY <1>6, <3>1, Numbers DEF Tick, TimesOK, Lasts, Rpc, Travelling, Payee!MayPass,
                                 PayeePoll!MayPass
    <3>2. CASE call # "verifying"
      BY <3>2 DEF PollsAwaited, Payee!Waiting, PayeePoll!MayPass
    <3> QED
      BY <3>1, <3>2
  <2> QED
    BY <2>1, <2>2 DEF PayeePoll!Next, PayeePoll!Tick
<1>7. CASE Request \/ AskInvoice \/ SendPayment \/ IssueChallenge \/ ReadChallenge
           \/ Authorize \/ CheckInvoice
  BY <1>1, <1>7 DEF Request, AskInvoice, SendPayment, IssueChallenge, ReadChallenge,
                    Authorize, CheckInvoice, polls
<1>8. CASE RpcFails \/ AwaitPayment \/ PaymentOver \/ Lost \/ PollPayment \/ VerifyOver
           \/ PaymentStep \/ Answering
  BY <1>1, <1>8 DEF RpcFails, AwaitPayment, PaymentOver, Lost, PollPayment, VerifyOver,
                    PaymentStep, Answering, polls
<1>9. CASE UNCHANGED vars
  BY <1>1, <1>9 DEF vars, polls
<1> QED
  BY <1>2, <1>3, <1>4, <1>5, <1>6, <1>7, <1>8, <1>9, AnsweringSteps
  DEF Next, CodeStep

\* What the record of a poll is made of.
LEMMA PollsTyped ==
  ASSUME PayerPoll!IInv, PayeePoll!IInv
  PROVE  /\ pay_poll \in Payer!PollState /\ paid_poll \in Payee!PollState
         /\ pay_poll.phase \in {"idle"} \cup Payer!Waiting \cup Payer!Verdict
         /\ paid_poll.phase \in {"idle"} \cup Payee!Waiting \cup Payee!Verdict
         /\ pay_poll.since \in Nat /\ pay_poll.started \in Nat
         /\ paid_poll.since \in Nat /\ paid_poll.started \in Nat
<1>1. pay_poll \in Payer!PollState /\ paid_poll \in Payee!PollState
  BY DEF PayerPoll!IInv, PayeePoll!IInv, PayerPoll!PollTypeOK, PayeePoll!PollTypeOK,
         PayerPoll!PollState, PayeePoll!PollState, Payer!PollState, Payee!PollState,
         PayerPoll!Waiting, PayerPoll!Verdict, PayerPoll!Status,
         PayeePoll!Waiting, PayeePoll!Verdict, PayeePoll!Status,
         Payer!Waiting, Payer!Verdict, Payer!Status, Payee!Waiting, Payee!Verdict, Payee!Status
<1> QED
  BY <1>1 DEF Payer!PollState, Payee!PollState

\* A step that goes to another place, or waits where it is.
LEMMA TimesInductive ==
  ASSUME TimesOK, PollsAwaited, [Next]_vars
  PROVE  TimesOK'
<1> USE DEF TimesOK, Worlds, Verdicts, Serving, Decide, Tolerance, Goto, world, Call, Over,
            Rpc, Travelling, Polling, Lasts
<1>1. CASE Request \/ AskInvoice \/ MintInvoice \/ IssueChallenge \/ ReadChallenge
  <2>1. CASE Request
    BY <2>1, Numbers, SettlementAssumption DEF Request, instants, SettlementAssumption
  <2>2. CASE AskInvoice
    BY <2>2, Numbers DEF AskInvoice, instants
  <2>3. CASE MintInvoice
    BY <2>3, Numbers DEF MintInvoice, challenge, instants
  <2>4. CASE IssueChallenge \/ ReadChallenge
    BY <2>4, Numbers DEF IssueChallenge, ReadChallenge, challenge, instants
  <2> QED
    BY <1>1, <2>1, <2>2, <2>3, <2>4
<1>2. CASE Authorize \/ CheckInvoice \/ SendPayment \/ AwaitPayment \/ RpcFails
  BY <1>2, Numbers DEF Authorize, CheckInvoice, SendPayment, AwaitPayment, RpcFails,
                       challenge, instants
<1>3. CASE PaymentOver \/ Arrive \/ Lost \/ VerifyOver
  BY <1>3, Numbers DEF PaymentOver, Arrive, Lost, VerifyOver, challenge, instants
<1>4. CASE PollPayment \/ PollInvoice \/ InvoiceStep \/ PaymentStep
  BY <1>4, Numbers DEF PollPayment, PollInvoice, InvoiceStep, PaymentStep, challenge, instants
<1>5. CASE Tick
  BY <1>5, Numbers DEF Tick, challenge, instants
<1>6. CASE Answering
  BY <1>6, Numbers DEF Answering, challenge, instants, ServiceReturns, ServiceTimesOut,
                       Recharge, Return
<1>7. CASE UNCHANGED vars
  BY <1>7, Numbers DEF vars, challenge, instants
<1> QED
  BY <1>1, <1>2, <1>3, <1>4, <1>5, <1>6, <1>7, AnsweringSteps
  DEF Next, CodeStep

LEMMA AwaitedInductive ==
  ASSUME TimesOK, PollsAwaited, PayerPoll!IInv, PayeePoll!IInv, [Next]_vars
  PROVE  PollsAwaited'
<1> USE PollsTyped DEF PollsAwaited, Goto, Payer!Waiting, Payee!Waiting, Payer!Verdict,
      Payee!Verdict
<1>1. CASE Request \/ AskInvoice \/ MintInvoice \/ IssueChallenge \/ ReadChallenge
  BY <1>1 DEF Request, AskInvoice, MintInvoice, IssueChallenge, ReadChallenge, polls
<1>2. CASE Authorize \/ CheckInvoice \/ SendPayment \/ RpcFails \/ Lost
  BY <1>2 DEF Authorize, CheckInvoice, SendPayment, RpcFails, Lost, Rpc, Travelling, polls
<1>3. CASE AwaitPayment
  BY <1>3 DEF AwaitPayment, Payer!Begin, Payer!PollState
<1>4. CASE PollPayment
  BY <1>4 DEF PollPayment, Payer!NodeAnswers, Payer!Receive, Payer!ReadFails, Payer!Wake,
              Payer!End, Payer!Sleep, Payer!Read, Payer!PollState
<1>5. CASE PaymentOver
  BY <1>5 DEF PaymentOver, polls
<1>6. CASE Arrive
  BY <1>6 DEF Arrive, Payee!Begin, Payee!PollState
<1>7. CASE PollInvoice
  BY <1>7 DEF PollInvoice, Payee!NodeAnswers, Payee!Receive, Payee!ReadFails, Payee!Wake,
              Payee!End, Payee!Sleep, Payee!Read, Payee!PollState
<1>8. CASE VerifyOver
  BY <1>8 DEF VerifyOver, Decide, polls
<1>9. CASE InvoiceStep \/ PaymentStep
  BY <1>9 DEF InvoiceStep, PaymentStep, polls
<1>10. CASE Tick
  BY <1>10, Numbers DEF Tick, TimesOK, Lasts, Rpc, Travelling, polls
<1>11. CASE Answering
  BY <1>11 DEF Answering, ServiceReturns, ServiceTimesOut, Recharge, Return, polls
<1>12. CASE UNCHANGED vars
  BY <1>12 DEF vars, polls
<1> QED
  BY <1>1, <1>2, <1>3, <1>4, <1>5, <1>6, <1>7, <1>8, <1>9, <1>10, <1>11, <1>12,
     AnsweringSteps
  DEF Next, CodeStep

\* What the properties below rest on: the places of the call, and the two polls.
Base == TimesOK /\ PollsAwaited /\ PayerPoll!IInv /\ PayeePoll!IInv

LEMMA BaseInitially == Init => Base
<1> SUFFICES ASSUME Init PROVE Base
  OBVIOUS
<1>1. TimesOK /\ PollsAwaited
  BY Numbers DEF Init, TimesOK, PollsAwaited, Payer!Fresh, Payee!Fresh, Payer!Waiting,
      Payee!Waiting, Payer!Verdict, Payee!Verdict, Call, Polling, Worlds, Verdicts
<1>2. PayerPoll!IInv
  <2>1. PayerPoll!Init
    BY DEF Init, PayerPoll!Init, Payer!Fresh, PayerPoll!Fresh
  <2> QED
    BY <2>1, PayerPoll!PollInitially, Numbers DEF Parameters
<1>3. PayeePoll!IInv
  <2>1. PayeePoll!Init
    BY DEF Init, PayeePoll!Init, Payee!Fresh, PayeePoll!Fresh
  <2> QED
    BY <2>1, PayeePoll!PollInitially, Numbers DEF Parameters
<1> QED
  BY <1>1, <1>2, <1>3 DEF Base

LEMMA BaseInductive == ASSUME Base, [Next]_vars PROVE Base'
<1> USE DEF Base
<1>1. TimesOK'
  BY TimesInductive
<1>2. PollsAwaited'
  BY AwaitedInductive
<1>3. PayerPoll!IInv'
  BY PayerStep, PayerPoll!PollInductive, Numbers DEF Parameters
<1>4. PayeePoll!IInv'
  BY PayeeStep, PayeePoll!PollInductive, Numbers DEF Parameters
<1> QED
  BY <1>1, <1>2, <1>3, <1>4

LEMMA BaseInvariance == Spec => []Base
  BY BaseInitially, BaseInductive, PTL DEF Spec

\* Neither poll of a call overlooks a payment that settled in time (the deadline tests
\* of waitForFiberPaymentSuccess, waitForFiberInvoicePaid and
\* wait_for_invoice_paid_with).
THEOREM BothPollsSeeTimely == Spec => []TimelyIsSeen
<1>1. Base => TimelyIsSeen
  BY DEF Base, TimelyIsSeen, PayerPoll!IInv, PayeePoll!IInv, PayerPoll!TimelyIsSeen,
         PayeePoll!TimelyIsSeen, Payer!TimelyIsSeen, Payee!TimelyIsSeen,
         PayerPoll!Slack, Payer!Slack, PayeePoll!Slack, Payee!Slack
<1> QED
  BY <1>1, BaseInvariance, PTL

-----------------------------------------------------------------------------
(* A call is bounded                                                       *)

\* How much of the bound is spent when the call comes to a place.
SpentOK ==
    /\ call \in {"start", "binding", "minting", "challenged", "authorizing"} =>
           authorized_at = 0
    /\ call \notin Serving \cup Over \cup {"answering"} => verdict = "none"
    /\ authorized_at > 0 /\ ~Unbounded =>
           /\ call = "parsing" => since = authorized_at
           /\ call = "sending" => since - authorized_at <= RpcTimeout
           /\ call = "paying" => since - authorized_at <= 2 * RpcTimeout
           /\ call = "retrying" => since - authorized_at <= 2 * RpcTimeout + Payer!Longest
           /\ call = "verifying" =>
                  since - authorized_at <= 2 * RpcTimeout + Payer!Longest + MaxTravel
           /\ call \in Serving =>
                  since - authorized_at
                      <= 2 * RpcTimeout + Payer!Longest + MaxTravel + Payee!Longest
           /\ call = "answering" =>
                  since - authorized_at
                      <= 2 * RpcTimeout + Payer!Longest + MaxTravel + Payee!Longest
                             + Aftermath
           /\ call \in Over => CallIsBounded

LEMMA Longests ==
  /\ Payer!Longest = PayerPoll!Longest /\ Payer!Longest \in Nat
  /\ Payee!Longest = PayeePoll!Longest /\ Payee!Longest \in Nat
  BY Numbers DEF Payer!Longest, PayerPoll!Longest, Payee!Longest, PayeePoll!Longest

\* A poll under way, or with a verdict, has taken Longest at most.
LEMMA PollingIsBounded ==
  ASSUME Base
  PROVE  /\ call = "paying" => now - since <= Payer!Longest
         /\ call = "verifying" => now - since <= Payee!Longest
<1>1. PayerPoll!Bounded /\ PayeePoll!Bounded
  <2>1. PayerPoll!Bounded
    BY Numbers DEF Base, PayerPoll!IInv, PayerPoll!PollTypeOK, PayerPoll!ClockOK,
       PayerPoll!Bounded, PayerPoll!PollState, PayerPoll!Waiting, PayerPoll!Verdict,
       PayerPoll!Longest
  <2>2. PayeePoll!Bounded
    BY Numbers DEF Base, PayeePoll!IInv, PayeePoll!PollTypeOK, PayeePoll!ClockOK,
       PayeePoll!Bounded, PayeePoll!PollState, PayeePoll!Waiting, PayeePoll!Verdict,
       PayeePoll!Longest
  <2> QED
    BY <2>1, <2>2
<1> QED
  BY <1>1, PollsTyped, Longests DEF Base, PollsAwaited, TimesOK, PayerPoll!Bounded,
     PayeePoll!Bounded, Payer!Waiting, Payee!Waiting, Payer!Verdict, Payee!Verdict,
     PayerPoll!Waiting, PayerPoll!Verdict, PayeePoll!Waiting, PayeePoll!Verdict

LEMMA SpentBounds == ASSUME Base, SpentOK PROVE CallIsBounded
  BY PollingIsBounded, Longests, Numbers
  DEF Base, TimesOK, SpentOK, CallIsBounded, Unbounded, Aftermath, Call, Serving, Over, Rpc,
      Travelling, Polling, Lasts, Worlds, Verdicts

LEMMA SpentInductive ==
  ASSUME Base, SpentOK, [Next]_vars
  PROVE  SpentOK'
<1> USE PollingIsBounded, Longests, Numbers
    DEF Base, TimesOK, SpentOK, CallIsBounded, Unbounded, Aftermath, Decide, Goto, Serving,
        Over, Rpc, Travelling, Polling, Lasts, Worlds, Verdicts, world
<1>1. CASE Request \/ AskInvoice \/ MintInvoice \/ IssueChallenge \/ ReadChallenge
  BY <1>1 DEF Request, AskInvoice, MintInvoice, IssueChallenge, ReadChallenge, instants
<1>2. CASE Authorize
  BY <1>2 DEF Authorize
<1>3. CASE CheckInvoice
  BY <1>3 DEF CheckInvoice, instants
<1>4. CASE SendPayment \/ AwaitPayment
  BY <1>4 DEF SendPayment, AwaitPayment, instants
<1>5. CASE RpcFails
  BY <1>5 DEF RpcFails, instants
<1>6. CASE PaymentOver
  BY <1>6 DEF PaymentOver, instants
<1>7. CASE Arrive
  BY <1>7 DEF Arrive
<1>8. CASE Lost
  BY <1>8 DEF Lost, instants
<1>9. CASE VerifyOver
  BY <1>9 DEF VerifyOver, instants
<1>10. CASE PollPayment \/ PollInvoice \/ InvoiceStep \/ PaymentStep
  BY <1>10 DEF PollPayment, PollInvoice, InvoiceStep, PaymentStep, instants
<1>11. CASE Tick
  BY <1>11 DEF Tick, PollsAwaited, instants
<1>12. CASE Answering
  BY <1>12 DEF Answering, ServiceReturns, ServiceTimesOut, Recharge, Return, instants
<1>13. CASE UNCHANGED vars
  BY <1>13 DEF vars, instants
<1> QED
  BY <1>1, <1>2, <1>3, <1>4, <1>5, <1>6, <1>7, <1>8, <1>9, <1>10, <1>11, <1>12, <1>13,
     AnsweringSteps
  DEF Next, CodeStep

\* No authorized call lasts longer than its two polls, two RPCs, the service or a fresh
\* invoice, and the way to the gateway and back (the deadline tests of the polls, the abort
\* of a JSON-RPC request, the time-outs of the proxies), but one that a handler without a
\* time-out keeps.
THEOREM CallsAreBounded == Spec => []CallIsBounded
<1>1. Init => SpentOK
  BY DEF Init, SpentOK, Over
<1>2. Base /\ SpentOK /\ [Next]_vars => SpentOK'
  BY SpentInductive
<1>3. Base /\ SpentOK => CallIsBounded
  BY SpentBounds
<1> QED
  BY <1>1, <1>2, <1>3, BaseInvariance, PTL DEF Spec

-----------------------------------------------------------------------------
(* Who paid in time is not asked again                                     *)

\* The payer's poll reports a payment as settled only when it is, and a payment that
\* settled is held by the payee's node for good, so that the gateway's poll, which runs
\* only after it, reads no terminal invoice.
PaidOK ==
    /\ payment = "Success" => invoice \in {"Received", "Paid"}
    /\ pay_poll.answer = "settled" \/ pay_poll.phase = "paid" => payment = "Success"
    /\ call = "retrying" => payment = "Success"
    /\ paid_poll.phase # "idle" => payment = "Success"
    /\ paid_poll.answer # "terminal" /\ paid_poll.phase # "terminal"
    /\ call \notin Serving \cup Over \cup {"answering"} => verdict = "none"
    /\ TimelyIsHonoured

LEMMA PaidInitially == Init => PaidOK
  BY DEF Init, PaidOK, TimelyIsHonoured, Serving, Over, Payer!Fresh, Payee!Fresh

LEMMA PaidInductive ==
  ASSUME Base, PaidOK, [Next]_vars
  PROVE  PaidOK'
<1> USE PollsTyped
    DEF Base, PaidOK, TimelyIsHonoured, Tolerance, Serving, Over, Decide, Goto, world,
        Payer!PollState, Payee!PollState
<1>1. CASE Request \/ AskInvoice \/ IssueChallenge \/ ReadChallenge
  BY <1>1 DEF Request, AskInvoice, IssueChallenge, ReadChallenge, payee, payer, challenge,
              instants, polls
<1>2. CASE MintInvoice
  BY <1>2 DEF MintInvoice, payer, challenge, instants, polls
<1>3. CASE Authorize \/ CheckInvoice \/ RpcFails \/ Lost
  BY <1>3 DEF Authorize, CheckInvoice, RpcFails, Lost, payee, payer, challenge, instants,
              polls
<1>4. CASE SendPayment
  BY <1>4 DEF SendPayment, payee, challenge, instants, polls
<1>5. CASE AwaitPayment
  BY <1>5 DEF AwaitPayment, Payer!Begin, payee, payer, challenge, instants, polls
<1>6. CASE PollPayment
  BY <1>6 DEF PollPayment, Payer!NodeAnswers, Payer!Receive, Payer!ReadFails, Payer!Wake,
              Payer!End, Payer!Sleep, Payer!Read, payee, payer, challenge, instants
<1>7. CASE PaymentOver
  BY <1>7 DEF PaymentOver, payee, payer, challenge, instants, polls
<1>8. CASE Arrive
  <2>1. payment = "Success" /\ UNCHANGED <<payment, invoice, pay_poll, expires>>
    BY <1>8 DEF Arrive, payee, payer, challenge
  <2>2. CASE now - Tolerance > expires
    BY <1>8, <2>1, <2>2, Numbers DEF Arrive, TimesOK
  <2>3. CASE ~(now - Tolerance > expires)
    BY <1>8, <2>1, <2>3 DEF Arrive, Payee!Begin, TimesOK
  <2> QED
    BY <2>2, <2>3
<1>9. CASE PollInvoice
  BY <1>9 DEF PollInvoice, Payee!NodeAnswers, Payee!Receive, Payee!ReadFails, Payee!Wake,
              Payee!End, Payee!Sleep, Payee!Read, payee, payer, challenge, instants
<1>10. CASE VerifyOver
  BY <1>10 DEF VerifyOver, payee, payer, challenge, instants, polls
<1>11. CASE InvoiceStep
  BY <1>11 DEF InvoiceStep, payer, challenge, instants, polls
<1>12. CASE PaymentStep
  BY <1>12 DEF PaymentStep, payee, challenge, instants, polls
<1>13. CASE Tick
  BY <1>13 DEF Tick, payee, payer, challenge, instants, polls
<1>14. CASE Answering
  BY <1>14 DEF Answering, ServiceReturns, ServiceTimesOut, Recharge, Return, payee, payer,
               challenge, instants, polls
<1>15. CASE UNCHANGED vars
  BY <1>15 DEF vars, payee, payer, challenge, instants, polls
<1> QED
  BY <1>1, <1>2, <1>3, <1>4, <1>5, <1>6, <1>7, <1>8, <1>9, <1>10, <1>11, <1>12, <1>13, <1>14,
     <1>15, AnsweringSteps
  DEF Next, CodeStep

\* A payer whose credential reaches the gateway by the expiry of its challenge, and the
\* skew a TypeScript gateway tolerates, gets no second challenge, however long the settlement poll then takes (assert_not_expired
\* before verify_paid).
THEOREM TimelyIsAlwaysHonoured == Spec => []TimelyIsHonoured
<1>1. PaidOK => TimelyIsHonoured
  BY DEF PaidOK
<1> QED
  BY <1>1, PaidInitially, PaidInductive, BaseInvariance, PTL DEF Spec

-----------------------------------------------------------------------------
(* An invoice follows its challenge                                        *)

\* What may be lost to rounding.
Excess == IF gateway = "rust" /\ ttl * Second - MaxBind >= Second THEN 0 ELSE MaxBind

\* The challenge is dated when the request comes, and the seconds asked of the node end
\* by then.
DatesOK ==
    /\ call = "start" \/ call = "binding" => invoice = "none"
    /\ call = "binding" => expires = since + ttl * Second
    /\ call = "minting" => since + seconds * Second <= expires + Excess
    /\ call # "start" /\ call # "binding" => seconds \in 1..ttl
    /\ invoice_expires \in Int
    /\ InvoiceFollowsChallenge

\* What integer division rounds to.
LEMMA WholeSeconds ==
  ASSUME NEW d \in Int, NEW s \in Nat, s > 0
  PROVE  /\ d \div s \in Int
         /\ (d \div s) * s <= d
         /\ d < (d \div s) * s + s
  BY SMTT(60)

\* The expiry asked of the node, in whole seconds, ends with the challenge but for Excess.
LEMMA SecondsFit ==
  ASSUME TimesOK, call = "binding", expires = since + ttl * Second
  PROVE  /\ InvoiceSeconds \in 1..ttl
         /\ now + InvoiceSeconds * Second <= expires + Excess
<1> DEFINE d == expires - now
<1>1. /\ ttl \in Nat /\ ttl >= 1 /\ d \in Int /\ ttl * Second \in Nat
      /\ ttl * Second >= Second
      /\ d <= ttl * Second /\ ttl * Second - d <= MaxBind
  <2>1. ttl \in Nat /\ ttl >= 1
    BY SettlementAssumption DEF SettlementAssumption, TimesOK, Worlds
  <2>2. ttl * Second \in Nat /\ ttl * Second >= Second
    BY <2>1, Numbers
  <2> QED
    BY <2>1, <2>2, Numbers DEF TimesOK, Lasts, Rpc, Travelling, Polling
<1>2. CASE gateway = "rust"
  <2>1. /\ d \div Second \in Int
        /\ (d \div Second) * Second <= d
        /\ d < (d \div Second) * Second + Second
    BY <1>1, WholeSeconds, Numbers
  <2>2. d \div Second <= ttl
    <3>1. SUFFICES ASSUME d \div Second >= ttl + 1 PROVE FALSE
      BY <1>1, <2>1
    <3>2. (d \div Second) * Second >= (ttl + 1) * Second
      BY <1>1, <2>1, <3>1, Numbers
    <3>3. (ttl + 1) * Second = ttl * Second + Second
      BY <1>1, Numbers
    <3> QED
      BY <1>1, <2>1, <3>2, <3>3, Numbers
  <2>3. CASE d \div Second < 1
    <3>1. InvoiceSeconds = 1
      BY <1>2, <2>3 DEF InvoiceSeconds, AtLeastOne
    <3>2. d < Second
      BY <1>1, <2>1, <2>3, Numbers
    <3> QED
      BY <1>1, <3>1, <3>2, Numbers DEF Excess, TimesOK
  <2>4. CASE ~(d \div Second < 1)
    <3>1. InvoiceSeconds = d \div Second
      BY <1>2, <2>4 DEF InvoiceSeconds, AtLeastOne
    <3> QED
      BY <1>1, <2>1, <2>2, <2>4, <3>1, Numbers DEF Excess, TimesOK
  <2> QED
    BY <2>3, <2>4
<1>3. CASE gateway # "rust"
  BY <1>1, <1>3, Numbers DEF InvoiceSeconds, Excess, TimesOK
<1> QED
  BY <1>2, <1>3

LEMMA DatesInductive ==
  ASSUME Base, DatesOK, [Next]_vars
  PROVE  DatesOK'
<1> USE Numbers DEF Base, DatesOK, Excess, InvoiceFollowsChallenge, Decide, Goto, TimesOK,
                    Worlds
<1>1. CASE Request
  BY <1>1 DEF Request, world, payee
<1>2. CASE AskInvoice
  BY <1>2, SecondsFit DEF AskInvoice, world, payee
<1>3. CASE MintInvoice
  <2>1. now <= since + RpcTimeout
    BY <1>3 DEF MintInvoice, Lasts, Rpc, Travelling, Polling
  <2>2. seconds \in Int /\ skew \in Int /\ ttl \in Nat
    BY <1>3, SettlementAssumption DEF MintInvoice, SettlementAssumption
  <2>3. seconds * Second \in Int /\ ttl * Second \in Int
    BY <2>2
  <2> QED
    BY <1>3, <2>1, <2>2, <2>3 DEF MintInvoice, world, challenge
<1>4. CASE IssueChallenge \/ ReadChallenge \/ Authorize \/ CheckInvoice \/ SendPayment
  BY <1>4 DEF IssueChallenge, ReadChallenge, Authorize, CheckInvoice, SendPayment,
              world, challenge, payee
<1>5. CASE AwaitPayment \/ RpcFails \/ PollPayment \/ PaymentOver \/ Arrive
  BY <1>5 DEF AwaitPayment, RpcFails, PollPayment, PaymentOver, Arrive, Rpc,
              world, challenge, payee
<1>6. CASE Lost \/ PollInvoice \/ VerifyOver \/ PaymentStep \/ Tick
  BY <1>6 DEF Lost, PollInvoice, VerifyOver, PaymentStep, Tick, Travelling,
              world, challenge, payee
<1>7. CASE InvoiceStep
  BY <1>7 DEF InvoiceStep, world, challenge
<1>8. CASE Answering
  BY <1>8 DEF Answering, ServiceReturns, ServiceTimesOut, Recharge, Return, world, challenge,
              payee
<1>9. CASE UNCHANGED vars
  BY <1>9 DEF vars, world, challenge, payee
<1> QED
  BY <1>1, <1>2, <1>3, <1>4, <1>5, <1>6, <1>7, <1>8, <1>9, AnsweringSteps
  DEF Next, CodeStep

\* No invoice can be paid long after the challenge it is for: it ends with it, but for
\* the time the RPC took and what rounding adds (expiry_seconds_from_now).
THEOREM InvoicesFollowChallenges == Spec => []InvoiceFollowsChallenge
<1>1. Init => DatesOK
  BY DEF Init, DatesOK, InvoiceFollowsChallenge
<1>2. DatesOK => InvoiceFollowsChallenge
  BY DEF DatesOK
<1> QED
  BY <1>1, <1>2, DatesInductive, BaseInvariance, PTL DEF Spec

-----------------------------------------------------------------------------
(* Types                                                                   *)

NodesOK ==
    /\ invoice \in {"none", "Open", "Received", "Paid", "Cancelled", "Expired"}
    /\ payment \in {"none", "Inflight", "Success", "Failed"}

LEMMA NodesInductive == ASSUME NodesOK, [Next]_vars PROVE NodesOK'
<1> USE DEF NodesOK
<1>1. CASE UNCHANGED <<payee, payer>>
  BY <1>1 DEF payee, payer
<1>2. CASE MintInvoice \/ SendPayment \/ InvoiceStep \/ PaymentStep
  BY <1>2 DEF MintInvoice, SendPayment, InvoiceStep, PaymentStep, payee, payer
<1>3. CASE Request \/ AskInvoice \/ IssueChallenge \/ ReadChallenge \/ Authorize
           \/ CheckInvoice \/ AwaitPayment \/ RpcFails
  BY <1>1, <1>3 DEF Request, AskInvoice, IssueChallenge, ReadChallenge, Authorize,
                    CheckInvoice, AwaitPayment, RpcFails
<1>4. CASE PollPayment \/ PaymentOver \/ Arrive \/ Lost \/ PollInvoice \/ VerifyOver
           \/ Tick \/ Answering \/ UNCHANGED vars
  BY <1>1, <1>4 DEF PollPayment, PaymentOver, Arrive, Lost, PollInvoice, VerifyOver,
                    Answering, Tick, vars
<1> QED
  BY <1>2, <1>3, <1>4, AnsweringSteps
  DEF Next, CodeStep

\* The variables keep their types; in particular the seconds asked of the node are at
\* least one and no more than the time to live, and each verdict of a poll is an outcome
\* the caller knows.
THEOREM SettlementTypes == Spec => []TypeOK
<1>1. Init => NodesOK /\ DatesOK
  BY DEF Init, NodesOK, DatesOK, InvoiceFollowsChallenge
<1>2. Base /\ NodesOK /\ DatesOK => TypeOK
  <2> SUFFICES ASSUME Base, NodesOK, DatesOK PROVE TypeOK
    OBVIOUS
  <2>1. succeeded_at \in Nat /\ paid_at \in Nat
    BY DEF Base, PayerPoll!IInv, PayeePoll!IInv, PayerPoll!PollTypeOK, PayeePoll!PollTypeOK
  <2>2. Payer!PollTypeOK /\ Payee!PollTypeOK
    BY <2>1, PollsTyped DEF Base, TimesOK, Payer!PollTypeOK, Payee!PollTypeOK,
       Payer!Status, Payee!Status
  <2> QED
    BY <2>1, <2>2 DEF Base, TimesOK, NodesOK, DatesOK, TypeOK
<1> QED
  BY <1>1, <1>2, NodesInductive, DatesInductive, BaseInvariance, PTL DEF Spec
=============================================================================
