------------------------------ MODULE Console ------------------------------
(* The evidence console (apps/evidence-web/src/state/EvidenceContext.tsx) on  *)
(* top of the evidence API: one browser tab, its session, the functions of    *)
(* its context as jobs that send a request and go on when the answer comes,   *)
(* and the rest of the world: other sessions, and a bootstrap from another    *)
(* tab.  A request reaches the server some time after it was sent.  The tab   *)
(* gives it up after API_REQUEST_TIMEOUT_MS: the server may be at work on it, *)
(* or receive it later, beside what the tab sends next.                       *)
EXTENDS EvidenceFlow

CONSTANTS
    Me,              \* the tab's session
    MaxDisturbances  \* bound: refreshes, which count for two, resets, bootstraps,
                     \* time-outs, strangers, and actions begun beside a running one

ASSUME ConsoleAssumption == Me \in Sessions /\ MaxDisturbances \in Nat

VARIABLES
    shown,       \* state.flow
    phase,       \* state.phase
    busy,        \* state.busy
    refreshing,  \* state.refreshing
    job,         \* the running function whose request is in each slot
    left,        \* disturbances still to come
    strayed      \* history: something the busy flag does not order touched the session

tabVars == <<shown, phase, busy, refreshing, job, left, strayed>>
vars == <<flowVars, tabVars>>

Actions == {"unpaid", "pay", "continue", "replay"}
Phases == {"idle", "unpaid_request_sent", "challenge_received", "payment_settled",
           "receipt_returned", "replay_rejected"}

\* latest and phase: what the function's closure remembers.
NoJob == [name |-> "none", stage |-> "none", latest |-> EmptyFlow, phase |-> "idle"]

Job == [name : Actions \cup {"none", "clear", "select", "apply", "refresh"},
        stage : {"none", "send", "wait", "resend", "retry", "lost"},
        latest : Flow, phase : Phases]

\* A request on its way: a function's first, its second, or one given up.
Unsent == {"send", "resend", "lost"}
Sent(j) == IF j.stage = "resend" THEN "continue" ELSE j.name

TypeOK ==
    /\ FlowTypeOK
    /\ shown \in Flow /\ phase \in Phases
    /\ busy \in BOOLEAN /\ refreshing \in BOOLEAN /\ strayed \in BOOLEAN
    /\ job \in [Calls -> Job] /\ left \in 0 .. MaxDisturbances

Init ==
    /\ FlowInit
    /\ shown = EmptyFlow /\ phase = "idle"
    /\ busy = FALSE /\ refreshing = FALSE /\ strayed = FALSE
    /\ job = [c \in Calls |-> NoJob] /\ left = MaxDisturbances

\* A plausible slip: a credential is taken for a delivery.
InferPhaseEager(f, current) ==
    IF f.replay = "refused" THEN "replay_rejected"
    ELSE IF f.auth # NoChallenge THEN "receipt_returned"
    ELSE IF f.challenge # NoChallenge \/ f.body THEN "challenge_received"
    ELSE current

\* What the screen says of a flow; an empty one leaves the phase as it was.
InferPhase(f, current) ==
    IF f.replay = "refused" THEN "replay_rejected"
    ELSE IF f.receipt # NoChallenge THEN "receipt_returned"
    ELSE IF f.auth # NoChallenge THEN "payment_settled"
    ELSE IF f.challenge # NoChallenge \/ f.body THEN "challenge_received"
    ELSE current

Show(f, current) == shown' = f /\ phase' = InferPhase(f, current)

\* A new request takes the first slot that is free; a request not yet sent holds one.
Vacant(c) == call[c].pc = "idle" /\ job[c] = NoJob
Free(c) == Vacant(c) /\ \A d \in Calls : d < c => ~Vacant(d)
Running == {c \in Calls : job[c].stage \notin {"none", "lost"} /\ job[c].name # "refresh"}
Start(c, name, stage, latest, current) ==
    job' = [job EXCEPT ![c] = [name |-> name, stage |-> stage, latest |-> latest, phase |-> current]]
Selecting == \E d \in Running : job[d].name = "select"
Disturb == left > 0 /\ left' = left - 1
DisturbTwice == left > 1 /\ left' = left - 2
Stop(c) == job' = [job EXCEPT ![c] = NoJob]

Route(s, c, name, w) ==
    CASE name = "unpaid" -> Unpaid(s, c, w)
      [] name = "pay" -> Pay(s, c, w)
      [] name = "continue" -> Continue(s, c, w)
      [] name = "replay" -> Replay(s, c, w)
      [] name \in {"clear", "select"} -> Reset(s, c, w)
      [] name = "apply" -> Bootstrap(s, c, w) \/ BootstrapRejected(s, c, w)
      [] name = "refresh" -> Status(s, c, w)

-----------------------------------------------------------------------------
(* The user. *)

\* A plausible slip: an action does not ask whether another is running.
PressUnguarded(c, a) ==
    /\ Free(c)
    /\ IF Running = {} THEN UNCHANGED left ELSE Disturb
    /\ busy' = TRUE
    /\ phase' = IF a = "unpaid" THEN "unpaid_request_sent" ELSE phase
    /\ Start(c, a, "send", shown, phase)
    /\ strayed' = (strayed \/ Selecting)
    /\ UNCHANGED <<flowVars, shown, refreshing>>

\* runAction, by button or by shortcut.  In the manual mode every action is offered; the
\* user may change the mode whenever busy is not set, and a payment goes by the one it
\* began in.
Press(c, a) ==
    /\ ~busy /\ Free(c)
    /\ IF Running = {} THEN UNCHANGED left ELSE Disturb
    /\ busy' = TRUE
    /\ phase' = IF a = "unpaid" THEN "unpaid_request_sent" ELSE phase
    /\ Start(c, a, "send", shown, phase)
    /\ strayed' = (strayed \/ Selecting)
    /\ UNCHANGED <<flowVars, shown, refreshing>>

\* clearLog: the button of the event log is never disabled.
Clear(c) ==
    /\ Free(c) /\ Disturb
    /\ busy' = TRUE
    /\ shown' = EmptyFlow /\ phase' = "idle"
    /\ Start(c, "clear", "send", EmptyFlow, "idle")
    /\ strayed' = (strayed \/ Running # {})
    /\ UNCHANGED <<flowVars, refreshing>>

\* resetEvidenceFlow, when another resource or profile is selected: it neither
\* asks for busy nor sets it, so it may run beside any other function.
Select(c) ==
    /\ Free(c) /\ Disturb
    /\ shown' = EmptyFlow /\ phase' = "idle"
    /\ Start(c, "select", "send", EmptyFlow, "idle")
    /\ strayed' = (strayed \/ Running # {})
    /\ UNCHANGED <<flowVars, busy, refreshing>>

\* applyRuntimeBootstrap and clearRuntimeBootstrap.
Apply(c) ==
    /\ ~busy /\ ~refreshing /\ Free(c) /\ Disturb
    /\ busy' = TRUE
    /\ Start(c, "apply", "send", EmptyFlow, "idle")
    /\ strayed' = (strayed \/ Selecting)
    /\ UNCHANGED <<flowVars, shown, phase, refreshing>>

\* refreshAll, by button, timer or another view, busy or not.  The phase it will
\* fall back on is the one of now.
Refresh(c) ==
    /\ ~refreshing /\ Free(c) /\ DisturbTwice
    /\ refreshing' = TRUE
    /\ Start(c, "refresh", "send", EmptyFlow, phase)
    /\ UNCHANGED <<flowVars, shown, phase, busy, strayed>>

-----------------------------------------------------------------------------
(* The network and the other clients. *)

Arrive(c) ==
    /\ job[c].stage \in {"send", "resend"}
    /\ Route(Me, c, Sent(job[c]), TRUE)
    /\ job' = [job EXCEPT ![c].stage = IF @ = "send" THEN "wait" ELSE "retry"]
    /\ UNCHANGED <<shown, phase, busy, refreshing, left, strayed>>

\* A request given up on its way arrives all the same, with nobody waiting for the
\* answer, or never does.
ArriveLate(c) ==
    /\ job[c].stage = "lost"
    /\ Route(Me, c, job[c].name, FALSE) \/ UNCHANGED flowVars
    /\ Stop(c)
    /\ UNCHANGED <<shown, phase, busy, refreshing, left, strayed>>

\* Another session's request, or the operator's bootstrap from another tab.
Stranger(s) ==
    /\ Disturb
    /\ \/ Visit(s) /\ UNCHANGED strayed
       \/ /\ \E c \in Calls : Free(c) /\ Bootstrap(s, c, FALSE)
          /\ strayed' = (strayed \/ Running # {})
    /\ UNCHANGED <<shown, phase, busy, refreshing, job>>

ServerStep(c) == Serve(c) /\ UNCHANGED tabVars

-----------------------------------------------------------------------------
(* Answers. *)

Came(c, stages) == call[c].pc = "done" /\ job[c].stage \in stages
Taken(c) == call' = [call EXCEPT ![c] = Idle]
server == <<flows, flow, runtime, ledger, overlap>>

\* A payment begun in the guided mode shows its answer and goes on with the retry.
PaymentContinues(c) ==
    /\ Came(c, {"wait"}) /\ job[c].name = "pay" /\ call[c].ok
    /\ Show(call[c].answer, job[c].phase)
    /\ Start(c, "pay", "resend", call[c].answer, InferPhase(call[c].answer, job[c].phase))
    /\ Taken(c)
    /\ UNCHANGED <<server, busy, refreshing, left, strayed>>

\* Every other answer of runAction is shown, or the flow of the status read after
\* it, when that read succeeds.
ActionAnswered(c) ==
    /\ Came(c, {"wait", "retry"}) /\ job[c].name \in Actions /\ call[c].ok
    /\ \E f \in {call[c].answer, FlowOf(Me)} :
          Show(f, InferPhase(call[c].answer, job[c].phase))
    /\ busy' = FALSE
    /\ Stop(c) /\ Taken(c)
    /\ UNCHANGED <<server, refreshing, left, strayed>>

\* runAction's catch and finally: back to the flow the closure knows.
Fail(c) ==
    /\ Show(job[c].latest, job[c].phase)
    /\ busy' = FALSE
    /\ UNCHANGED refreshing

ActionFailed(c) ==
    /\ Came(c, {"wait", "retry"}) /\ job[c].name \in Actions /\ ~call[c].ok
    /\ Fail(c) /\ Stop(c) /\ Taken(c)
    /\ UNCHANGED <<server, left, strayed>>

\* clearLog, resetEvidenceFlow and the bootstraps, with or without an answer.
ResetEnds(c, answered, f) ==
    /\ CASE job[c].name = "clear" -> shown' = f /\ phase' = (IF answered THEN "idle" ELSE phase)
         [] job[c].name = "select" -> shown' = (IF answered THEN f ELSE shown) /\ phase' = phase
         [] OTHER -> IF answered THEN shown' = f /\ phase' = "idle" ELSE UNCHANGED <<shown, phase>>
    /\ busy' = (busy /\ job[c].name = "select")
    /\ UNCHANGED refreshing

ResetAnswered(c) ==
    /\ Came(c, {"wait"}) /\ job[c].name \in {"clear", "select", "apply"}
    /\ ResetEnds(c, call[c].ok, call[c].answer) /\ Stop(c) /\ Taken(c)
    /\ UNCHANGED <<server, left, strayed>>

\* refreshAll shows the flow it read, however long ago.
RefreshAnswered(c) ==
    /\ Came(c, {"wait"}) /\ job[c].name = "refresh"
    /\ Show(call[c].answer, job[c].phase)
    /\ refreshing' = FALSE
    /\ Stop(c) /\ Taken(c)
    /\ UNCHANGED <<server, busy, left, strayed>>

\* requestJson aborts, or the connection breaks: the tab treats it as a failure,
\* the server goes on, or is yet to receive the request.
Timeout(c) ==
    /\ job[c].stage \notin {"none", "lost"} /\ Disturb
    /\ CASE job[c].name \in Actions -> Fail(c)
         [] job[c].name = "refresh" -> refreshing' = FALSE /\ UNCHANGED <<shown, phase, busy>>
         [] OTHER -> ResetEnds(c, FALSE, EmptyFlow)
    /\ IF job[c].stage \in Unsent
       THEN /\ job' = [job EXCEPT ![c] = [NoJob EXCEPT !.name = Sent(job[c]), !.stage = "lost"]]
            /\ UNCHANGED call
       ELSE /\ Stop(c)
            /\ call' = [call EXCEPT ![c] = IF @.pc = "done" THEN Idle
                                           ELSE [@ EXCEPT !.waited = FALSE]]
    /\ strayed' = \/ strayed
                  \/ call[c].pc \in Open
                  \/ job[c].stage \in Unsent /\ job[c].name # "refresh"
    /\ UNCHANGED server

Tab(c) ==
    \/ Arrive(c) \/ ArriveLate(c)
    \/ PaymentContinues(c) \/ ActionAnswered(c) \/ ActionFailed(c)
    \/ ResetAnswered(c) \/ RefreshAnswered(c)

Next ==
    \/ \E c \in Calls :
          \/ \E a \in Actions : Press(c, a)
          \/ Clear(c) \/ Select(c) \/ Apply(c) \/ Refresh(c)
          \/ Tab(c) \/ ServerStep(c) \/ Timeout(c)
    \/ \E s \in Sessions \ {Me} : Stranger(s)

Spec == Init /\ [][Next]_vars

-----------------------------------------------------------------------------
(* Properties. *)

\* The busy flag is all that keeps the tab's requests apart: two of them are
\* open on its flow at once only after one was given up on its way or while the
\* server worked on it, after a function that does not ask for the flag (clearLog,
\* resetEvidenceFlow) ran beside another, or when another tab's bootstrap emptied
\* the flow under a running one.
BusyKeepsRequestsApart ==
    \A i \in Mine(Me) : flows[i].fid \in overlap => strayed

\* The screen calls a payment settled, delivered or protected against replay only
\* for a challenge of this session that was paid, or redeemed, whatever order
\* answers, refreshes and time-outs come in.
PhaseIsEarned ==
    LET mine == {n \in DOMAIN issued : issued[n].session = Me} IN
    /\ phase \in {"payment_settled", "receipt_returned", "replay_rejected"} => mine \cap paid # {}
    /\ phase = "receipt_returned" => mine \cap served # {}
=============================================================================
