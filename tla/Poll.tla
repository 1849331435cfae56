-------------------------------- MODULE Poll --------------------------------
(***************************************************************************)
(* A settlement poll against the clock: read a status over RPC, sleep,     *)
(* read again, give up at a deadline.  The Rust gateway reads first and    *)
(* tests the deadline after the answer (wait_for_invoice_paid_with); the   *)
(* TypeScript payer and middleware test it before each read                *)
(* (waitForFiberPaymentSuccess, waitForFiberInvoicePaid), so that the last *)
(* sleep is never followed by a read.  poll.reads_first tells which.       *)
(*                                                                         *)
(* Timers fire on the tick they are due, and an RPC is over within         *)
(* RpcTimeout.  The node may change the status at any moment.              *)
(***************************************************************************)
EXTENDS Integers

CONSTANTS
    Timeout,    \* settlement timeout
    Interval,   \* time between an answer and the next read
    RpcTimeout  \* time-out of the HTTP client of an RPC

\* What both languages demand of the configuration.
PollParameters ==
    /\ Timeout \in Nat
    /\ Interval \in Nat
    /\ RpcTimeout \in Nat
    /\ 0 < Interval
    /\ Interval <= Timeout
    /\ 0 < RpcTimeout

VARIABLES
    now,
    status,  \* what the node would answer
    settled, \* the instant the status became "settled"
    poll

vars == <<now, status, settled, poll>>

Status == {"pending", "settled", "terminal"}
Waiting == {"reading", "sleeping"}
Verdict == {"paid", "terminal", "timeout", "failed"}

PollState == [phase : {"idle"} \cup Waiting \cup Verdict,
              reads_first : BOOLEAN,
              started : Nat,                   \* Instant::now(), Date.now()
              since : Nat,                     \* when the read or the sleep began
              answer : Status \cup {"none"}]   \* what the node answered, under way

PollTypeOK ==
    /\ now \in Nat
    /\ status \in Status
    /\ settled \in Nat
    /\ poll \in PollState

Fresh(b) == [phase |-> "idle", reads_first |-> b, started |-> 0, since |-> 0,
             answer |-> "none"]

Init ==
    /\ now \in Nat
    /\ status = "pending"
    /\ settled = 0
    /\ \E b \in BOOLEAN : poll = Fresh(b)

-----------------------------------------------------------------------------

\* The first read: no time has passed, so the deadline test of the while loop holds.
Begin ==
    /\ poll.phase = "idle"
    /\ poll' = [poll EXCEPT !.phase = "reading", !.started = now, !.since = now]

\* The node reads its record and answers.
NodeAnswers ==
    /\ poll.phase = "reading"
    /\ poll.answer = "none"
    /\ poll' = [poll EXCEPT !.answer = status]

End(verdict) ==
    poll' = [poll EXCEPT !.phase = verdict, !.since = now, !.answer = "none"]

Sleep == poll' = [poll EXCEPT !.phase = "sleeping", !.since = now, !.answer = "none"]

\* Mutant: gives up when the next read would come after the deadline.
ReceiveImpatiently ==
    /\ poll.phase = "reading"
    /\ poll.answer # "none"
    /\ \/ poll.answer = "settled" /\ End("paid")
       \/ poll.answer = "terminal" /\ End("terminal")
       \/ /\ poll.answer = "pending"
          /\ IF now + Interval - poll.started >= Timeout THEN End("timeout") ELSE Sleep

\* The answer arrives: settled, terminal, or neither, and then the Rust poll tests its
\* deadline before it sleeps.
Receive ==
    /\ poll.phase = "reading"
    /\ poll.answer # "none"
    /\ \/ poll.answer = "settled" /\ End("paid")
       \/ poll.answer = "terminal" /\ End("terminal")
       \/ /\ poll.answer = "pending"
          /\ IF poll.reads_first /\ now - poll.started >= Timeout
             THEN End("timeout")
             ELSE Sleep

\* An RPC error or its time-out ends the poll.
ReadFails ==
    /\ poll.phase = "reading"
    /\ End("failed")

Read == poll' = [poll EXCEPT !.phase = "reading", !.since = now]

\* Mutant: the deadline is not tested again after the sleep.
WakeAndRead ==
    /\ poll.phase = "sleeping"
    /\ now >= poll.since + Interval
    /\ Read

\* The sleep is over; the TypeScript loops test their deadline here.
Wake ==
    /\ poll.phase = "sleeping"
    /\ now >= poll.since + Interval
    /\ IF ~poll.reads_first /\ now - poll.started > Timeout
       THEN End("timeout")
       ELSE Read

PollStep == Begin \/ NodeAnswers \/ Receive \/ ReadFails \/ Wake

\* A due timer fires before the clock moves on.
MayPass ==
    /\ poll.phase = "reading" => now < poll.since + RpcTimeout
    /\ poll.phase = "sleeping" => now < poll.since + Interval

Tick ==
    /\ MayPass
    /\ now' = now + 1
    /\ UNCHANGED <<status, settled, poll>>

NodeChanges ==
    /\ status = "pending"
    /\ \/ status' = "settled" /\ settled' = now
       \/ status' = "terminal" /\ UNCHANGED settled
    /\ UNCHANGED <<now, poll>>

Next == (PollStep /\ UNCHANGED <<now, status, settled>>) \/ Tick \/ NodeChanges

Spec == Init /\ [][Next]_vars

-----------------------------------------------------------------------------

\* A caller waits at most this long.
Longest == Timeout + Interval + RpcTimeout

\* The caller of a poll waits at most Longest, whatever the node answers and however
\* late (the deadline tests of the three loops).
Bounded ==
    /\ poll.phase \in Waiting => now - poll.started <= Longest
    /\ poll.phase \in Verdict => poll.since - poll.started <= Longest

\* How long before the deadline a payment may settle and still be missed: one RPC for
\* the Rust poll, an interval more for the TypeScript ones.
Slack == IF poll.reads_first THEN RpcTimeout ELSE RpcTimeout + Interval

\* A poll that timed out did not overlook a payment that settled in time: it settled
\* within Slack of the deadline, or later, or not yet.
TimelyIsSeen ==
    poll.phase = "timeout" /\ status = "settled" => settled >= poll.started + Timeout - Slack
=============================================================================
