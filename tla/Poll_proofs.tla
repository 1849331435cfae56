----------------------------- MODULE Poll_proofs -----------------------------
(***************************************************************************)
(* Poll keeps its two promises for every timeout, interval and RPC time-   *)
(* out: its caller waits no longer than Longest, and a payment that        *)
(* settled in time is not overlooked.                                      *)
(***************************************************************************)
EXTENDS Poll, TLAPS

\* The deadline tests bound when a read, and when a sleep, may begin, and no poll times
\* out early.
ClockOK ==
    /\ poll.phase \in Waiting \cup Verdict => poll.started <= poll.since /\ poll.since <= now
    /\ poll.phase = "reading" =>
           /\ now <= poll.since + RpcTimeout
           /\ poll.since - poll.started <= Timeout + (IF poll.reads_first THEN Interval ELSE 0)
    /\ poll.phase = "sleeping" =>
           /\ now <= poll.since + Interval
           /\ poll.since - poll.started <= Timeout + (IF poll.reads_first THEN 0 ELSE RpcTimeout)
    /\ poll.phase \in Verdict => poll.since - poll.started <= Longest
    /\ poll.phase = "timeout" => poll.since - poll.started >= Timeout

\* A pending answer was given after its read began: what settled since, settled later.
AnswerOK ==
    /\ status = "settled" => settled <= now
    /\ poll.phase # "reading" => poll.answer = "none"
    /\ poll.phase = "reading" /\ poll.answer = "pending" /\ status = "settled" =>
           settled >= poll.since
    /\ poll.phase = "sleeping" /\ status = "settled" => settled >= poll.since - RpcTimeout

IInv == PollTypeOK /\ ClockOK /\ AnswerOK /\ TimelyIsSeen

LEMMA PollInitially == ASSUME PollParameters PROVE Init => IInv
  BY DEF Init, IInv, PollTypeOK, ClockOK, AnswerOK, TimelyIsSeen, Fresh, PollState, Waiting,
         Verdict, Status

\* What a record of the poll is made of.
LEMMA PollFields ==
  ASSUME poll \in PollState
  PROVE  /\ poll.phase \in {"idle"} \cup Waiting \cup Verdict
         /\ poll.reads_first \in BOOLEAN
         /\ poll.started \in Nat
         /\ poll.since \in Nat
         /\ poll.answer \in Status \cup {"none"}
  BY DEF PollState

\* Every step of the poll, the clock or the node preserves the invariant.
LEMMA PollInductive ==
  ASSUME PollParameters, IInv, [Next]_vars
  PROVE  IInv'
<1> DEFINE Becomes(p, b, t, a) ==
      /\ poll' \in PollState
      /\ poll'.phase = p
      /\ poll'.started = b
      /\ poll'.since = t
      /\ poll'.answer = a
      /\ poll'.reads_first = poll.reads_first
<1>0. /\ now \in Nat
      /\ settled \in Nat
      /\ status \in Status
      /\ poll \in PollState
      /\ poll.phase \in {"idle"} \cup Waiting \cup Verdict
      /\ poll.reads_first \in BOOLEAN
      /\ poll.started \in Nat
      /\ poll.since \in Nat
      /\ poll.answer \in Status \cup {"none"}
  BY PollFields DEF IInv, PollTypeOK
<1> USE DEF PollParameters, IInv, PollTypeOK, ClockOK, AnswerOK, TimelyIsSeen,
            Waiting, Verdict, Status, Longest, Slack
<1>1. CASE Begin /\ UNCHANGED <<now, status, settled>>
  <2>1. Becomes("reading", now, now, "none")
    BY <1>0, <1>1 DEF Begin, PollState
  <2> QED
    BY <1>0, <1>1, <2>1 DEF Begin
<1>2. CASE NodeAnswers /\ UNCHANGED <<now, status, settled>>
  <2>1. Becomes("reading", poll.started, poll.since, status)
    BY <1>0, <1>2 DEF NodeAnswers, PollState
  <2> QED
    BY <1>0, <1>2, <2>1 DEF NodeAnswers
<1>3. ASSUME NEW v \in Verdict \ {"timeout"}, poll.phase = "reading", End(v),
             UNCHANGED <<now, status, settled>>
      PROVE  IInv'
  <2>1. Becomes(v, poll.started, now, "none")
    BY <1>0, <1>3 DEF End, PollState
  <2> QED
    BY <1>0, <1>3, <2>1
<1>4. ASSUME poll.phase = "reading", poll.answer = "pending",
             poll.reads_first, now - poll.started >= Timeout, End("timeout"),
             UNCHANGED <<now, status, settled>>
      PROVE  IInv'
  <2>1. Becomes("timeout", poll.started, now, "none")
    BY <1>0, <1>4 DEF End, PollState
  <2> QED
    BY <1>0, <1>4, <2>1
<1>5. ASSUME poll.phase = "reading", poll.answer = "pending",
             ~(poll.reads_first /\ now - poll.started >= Timeout), Sleep,
             UNCHANGED <<now, status, settled>>
      PROVE  IInv'
  <2>1. Becomes("sleeping", poll.started, now, "none")
    BY <1>0, <1>5 DEF Sleep, PollState
  <2> QED
    BY <1>0, <1>5, <2>1
<1>6. CASE Receive /\ UNCHANGED <<now, status, settled>>
  BY <1>3, <1>4, <1>5, <1>6 DEF Receive
<1>7. CASE ReadFails /\ UNCHANGED <<now, status, settled>>
  BY <1>3, <1>7 DEF ReadFails
<1>8. CASE Wake /\ UNCHANGED <<now, status, settled>>
  <2>1. CASE ~poll.reads_first /\ now - poll.started > Timeout
    <3>1. Becomes("timeout", poll.started, now, "none")
      BY <1>0, <1>8, <2>1 DEF Wake, End, PollState
    <3> QED
      BY <1>0, <1>8, <2>1, <3>1 DEF Wake
  <2>2. CASE ~(~poll.reads_first /\ now - poll.started > Timeout)
    <3>1. Becomes("reading", poll.started, now, poll.answer)
      BY <1>0, <1>8, <2>2 DEF Wake, Read, PollState
    <3> QED
      BY <1>0, <1>8, <2>2, <3>1 DEF Wake
  <2> QED
    BY <2>1, <2>2
<1>9. CASE Tick
  BY <1>0, <1>9 DEF Tick, MayPass
<1>10. CASE NodeChanges
  BY <1>0, <1>10 DEF NodeChanges
<1>11. CASE UNCHANGED vars
  BY <1>0, <1>11 DEF vars
<1> QED
  BY <1>1, <1>2, <1>6, <1>7, <1>8, <1>9, <1>10, <1>11 DEF Next, PollStep

LEMMA PollInvariance == ASSUME PollParameters PROVE Spec => []IInv
<1>1. Init => IInv
  BY PollInitially
<1>2. IInv /\ [Next]_vars => IInv'
  BY PollInductive
<1> QED
  BY <1>1, <1>2, PTL DEF Spec

\* Whatever the node answers and however late, the caller of a poll waits at most
\* Longest: the deadline, one interval and one RPC (the deadline tests of
\* wait_for_invoice_paid_with and of the two waitFor loops).
THEOREM PollIsBounded == ASSUME PollParameters PROVE Spec => []Bounded
<1>1. IInv => Bounded
  BY DEF PollParameters, IInv, PollTypeOK, ClockOK, Bounded, PollState, Waiting, Verdict,
         Longest
<1> QED
  BY <1>1, PollInvariance, PTL

\* A poll answers a timeout only for a payment that had not settled Slack before the
\* deadline: one RPC for the Rust poll, an interval more for the TypeScript ones.
THEOREM PollSeesTimely == ASSUME PollParameters PROVE Spec => []TimelyIsSeen
<1>1. IInv => TimelyIsSeen
  BY DEF IInv
<1> QED
  BY <1>1, PollInvariance, PTL
=============================================================================
