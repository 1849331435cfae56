----------------------------- MODULE Tournament -----------------------------
(***************************************************************************)
(* The paid Battlecode tournament of the evidence API                      *)
(* (apps/evidence-api): a player locks a submission, registers it, pays    *)
(* the 402, claims a ticket with the credential and runs a match.          *)
(*                                                                         *)
(* Each handler awaits between its steps, and other handlers of the same   *)
(* session run there.  A session's flow holds one tournament object, which *)
(* the submission and registration handlers REPLACE and the others, having *)
(* taken it before their awaits, WRITE INTO: current[r] says whether the   *)
(* object r took is still the flow's.  What r writes into one that is not  *)
(* is never read again.                                                    *)
(*                                                                         *)
(* The SQLite ledger is appended to by reading all of it, adding a row and *)
(* writing all of it back, the two in transactions of their own.           *)
(*                                                                         *)
(* A registration is identified with the submission it names, a challenge  *)
(* with its payment hash, and the random ids are drawn without repetition. *)
(***************************************************************************)
CONSTANTS
    Sessions,
    Requests,     \* bound: handlers that can run at once
    Submissions,  \* bound: bots ever submitted
    Challenges,   \* bound: 402s ever issued
    TicketIds,    \* bound: tickets ever issued
    MatchIds,     \* bound: matches ever played
    Settlements,  \* values of BATTLECODE_AWARD_SETTLEMENT to consider
    None

ASSUME TournamentAssumption ==
    Settlements \subseteq {"local-ledger", "fiber-xudt"} /\ None \notin Submissions

\* A credential echoes a challenge and carries the payload of a payment.
Credential == [challenge : Challenges, payload : Challenges]
Ticket == [id : TicketIds, challenge : Challenges, submission : Submissions]
Match == [id : MatchIds, ticket : Ticket, submission : Submissions, won : BOOLEAN]
Award == [match : Match, settlement : Settlements]

Option(S) == S \cup {None}
Object == [submission : Option(Submissions), registration : Option(Submissions),
           challenge : Option(Challenges), credential : Option(Credential),
           ticket : Option(Ticket)]
Empty == [submission |-> None, registration |-> None, challenge |-> None,
          credential |-> None, ticket |-> None]

ASSUME NoObjectAssumption == None \notin Object

Ledger == [submissions : SUBSET Submissions, tickets : SUBSET Ticket,
           matches : SUBSET Match, awards : SUBSET Award]
EmptyLedger == [submissions |-> {}, tickets |-> {}, matches |-> {}, awards |-> {}]

\* What a handler keeps across its awaits.
Job == [object : Object, challenge : Option(Challenges), match : Option(Match),
        award : Option(Award), ledger : Ledger]
NoJob == [object |-> Empty, challenge |-> None, match |-> None, award |-> None,
          ledger |-> EmptyLedger]

Reading == {"locking", "recording", "reporting"}
Writing == {"locking_write", "recording_write", "reporting_write"}
Place == {"idle", "locked", "found", "challenging", "paying", "claiming", "redeemed",
          "playing", "prize"} \cup Reading \cup Writing

VARIABLES
    settlement,                 \* chosen once
    flow,                       \* flow.tournament of each session
    submitted,                  \* submissions whose source file is written
    bound_to,                   \* the registration each challenge was issued for
    paid, redeemed,
    ledger,
    tickets, matches, prizes,   \* history: all that were issued, played, paid out
    at, session, current, job,
    overtaken                   \* history: the ledger was written since r read it

gateway == <<bound_to, paid, redeemed>>
history == <<tickets, matches, prizes>>
handlers == <<at, session, current, job, overtaken>>
vars == <<settlement, flow, submitted, gateway, ledger, history, handlers>>

TypeOK ==
    /\ settlement \in Settlements
    /\ flow \in [Sessions -> Option(Object)]
    /\ submitted \subseteq Submissions
    /\ bound_to \in [Challenges -> Option(Submissions)]
    /\ paid \subseteq Challenges /\ redeemed \subseteq Challenges
    /\ ledger \in Ledger
    /\ tickets \subseteq Ticket /\ matches \subseteq Match /\ prizes \subseteq Match
    /\ at \in [Requests -> Place]
    /\ session \in [Requests -> Option(Sessions)]
    /\ current \in [Requests -> BOOLEAN]
    /\ job \in [Requests -> Job]
    /\ overtaken \in [Requests -> BOOLEAN]

Init ==
    /\ settlement \in Settlements
    /\ flow = [s \in Sessions |-> None]
    /\ submitted = {}
    /\ bound_to = [c \in Challenges |-> None]
    /\ paid = {} /\ redeemed = {}
    /\ ledger = EmptyLedger
    /\ tickets = {} /\ matches = {} /\ prizes = {}
    /\ at = [r \in Requests |-> "idle"]
    /\ session = [r \in Requests |-> None]
    /\ current = [r \in Requests |-> FALSE]
    /\ job = [r \in Requests |-> NoJob]
    /\ overtaken = [r \in Requests |-> FALSE]

-----------------------------------------------------------------------------
(* Handlers                                                                *)

\* r is called in session s and takes the flow's object with it, if it wants it.
Begin(r, s, place, takes, work) ==
    /\ at[r] = "idle"
    /\ at' = [at EXCEPT ![r] = place]
    /\ session' = [session EXCEPT ![r] = s]
    /\ current' = [current EXCEPT ![r] = takes]
    /\ job' = [job EXCEPT ![r] = work]
    /\ UNCHANGED overtaken

Goto(r, place) ==
    /\ at' = [at EXCEPT ![r] = place]
    /\ UNCHANGED <<session, current, overtaken>>

Finish(r) ==
    /\ at' = [at EXCEPT ![r] = "idle"]
    /\ session' = [session EXCEPT ![r] = None]
    /\ job' = [job EXCEPT ![r] = NoJob]

\* Who had taken the object of a session in S no longer has the flow's.
Detached(S) == [q \in Requests |-> current[q] /\ session[q] \notin S]

HasObject(s) == flow[s] # None

-----------------------------------------------------------------------------
(* The ledger                                                              *)

\* The rows a handler appends.
Rows(r) ==
    [submissions |-> IF at[r] = "locking" THEN {job[r].object.submission} ELSE {},
     tickets |-> IF at[r] = "recording" THEN {job[r].object.ticket} ELSE {},
     matches |-> IF at[r] = "reporting" THEN {job[r].match} ELSE {},
     awards |-> IF at[r] = "reporting" /\ job[r].award # None THEN {job[r].award} ELSE {}]

\* Mutant: the rows replace the ones read.
ReadOverwriting(r) == Rows(r)

\* readBattlecodeLedger with the rows added, which r will write.
Appended(r) ==
    [submissions |-> ledger.submissions \cup Rows(r).submissions,
     tickets |-> ledger.tickets \cup Rows(r).tickets,
     matches |-> ledger.matches \cup Rows(r).matches,
     awards |-> ledger.awards \cup Rows(r).awards]

ReadLedger(r) ==
    /\ at[r] \in Reading
    /\ at' = [at EXCEPT ![r] = CASE at[r] = "locking" -> "locking_write"
                                 [] at[r] = "recording" -> "recording_write"
                                 [] OTHER -> "reporting_write"]
    /\ job' = [job EXCEPT ![r].ledger = Appended(r)]
    /\ overtaken' = [overtaken EXCEPT ![r] = FALSE]
    /\ UNCHANGED <<settlement, flow, submitted, gateway, ledger, history, session, current>>

\* One transaction deletes every row and inserts the snapshot's.
WriteLedger(r) ==
    /\ at[r] \in Writing
    /\ ledger' = job[r].ledger
    /\ overtaken' = [q \in Requests |-> q # r /\ (overtaken[q] \/ at[q] \in Writing)]
    /\ IF at[r] = "locking_write"
       THEN /\ at' = [at EXCEPT ![r] = "locked"]
            /\ job' = [job EXCEPT ![r].ledger = EmptyLedger]
            /\ UNCHANGED <<session, current>>
       ELSE /\ Finish(r)
            /\ current' = [current EXCEPT ![r] = FALSE]
    /\ UNCHANGED <<settlement, flow, submitted, gateway, history>>

-----------------------------------------------------------------------------
(* POST submissions                                                        *)

Submit(r, s, sub) ==
    /\ sub \notin submitted
    /\ Begin(r, s, "locking", FALSE, [NoJob EXCEPT !.object.submission = sub])
    /\ submitted' = submitted \cup {sub}
    /\ UNCHANGED <<settlement, flow, gateway, ledger, history>>

\* The flow gets a new object: the old one with another submission.
Locked(r) ==
    /\ at[r] = "locked"
    /\ LET s == session[r]
           old == IF HasObject(s) THEN flow[s] ELSE Empty
       IN /\ flow' = [flow EXCEPT ![s] =
                         [old EXCEPT !.submission = job[r].object.submission]]
          /\ current' = Detached({s})
    /\ Finish(r)
    /\ UNCHANGED <<settlement, submitted, gateway, ledger, history, overtaken>>

-----------------------------------------------------------------------------
(* POST register/unpaid                                                    *)

\* What precedes findBattlecodeSubmission touches nothing shared: the call and the
\* read are one step.
Find(sub) == sub \in ledger.submissions

Register(r, s, sub) ==
    /\ Find(sub)
    /\ Begin(r, s, "found", FALSE,
             [NoJob EXCEPT !.object.submission = sub, !.object.registration = sub])
    /\ UNCHANGED <<settlement, flow, submitted, gateway, ledger, history>>

\* The manifest is built and the commitments agree: a new object.
Registered(r) ==
    /\ at[r] = "found"
    /\ flow' = [flow EXCEPT ![session[r]] = job[r].object]
    /\ at' = [at EXCEPT ![r] = "challenging"]
    /\ current' = Detached({session[r]})
    /\ UNCHANGED <<settlement, submitted, gateway, ledger, history, session, job, overtaken>>

\* protectBattlecodeRegistration: the charge is the registration's and so is the
\* body the challenge is bound to.
Protected(object) == object.registration

\* The 402 is stored in whatever object the flow has by then; with none, the
\* assignment throws.  c is None when the middleware failed.
StoreChallenge(r, c) ==
    flow' = IF HasObject(session[r])
            THEN [flow EXCEPT ![session[r]].challenge = c]
            ELSE flow

Challenged(r, c) ==
    /\ at[r] = "challenging"
    /\ bound_to[c] = None
    /\ bound_to' = [bound_to EXCEPT ![c] = Protected(job[r].object)]
    /\ StoreChallenge(r, c)
    /\ Finish(r)
    /\ current' = [current EXCEPT ![r] = FALSE]
    /\ UNCHANGED <<settlement, submitted, paid, redeemed, ledger, history, overtaken>>

ChallengeFails(r) ==
    /\ at[r] = "challenging"
    /\ StoreChallenge(r, None)
    /\ Finish(r)
    /\ current' = [current EXCEPT ![r] = FALSE]
    /\ UNCHANGED <<settlement, submitted, gateway, ledger, history, overtaken>>

-----------------------------------------------------------------------------
(* POST register/pay                                                       *)

Pay(r, s) ==
    /\ HasObject(s) /\ flow[s].challenge # None /\ flow[s].registration # None
    /\ Begin(r, s, "paying", TRUE, [NoJob EXCEPT !.challenge = flow[s].challenge])
    /\ UNCHANGED <<settlement, flow, submitted, gateway, ledger, history>>

\* The credential takes the challenge the object has NOW, the payload is of the
\* one that was paid.
Credited(r, object) ==
    [object EXCEPT !.credential = [challenge |-> object.challenge, payload |-> job[r].challenge]]

\* If the object has lost its challenge by then the handler throws.
StillChallenged(r) == current[r] /\ flow[session[r]].challenge # None

\* payCharge returns; whether a second payment of an invoice can succeed is the
\* node's business.
Paid(r) ==
    /\ at[r] = "paying"
    /\ paid' = paid \cup {job[r].challenge}
    /\ flow' = IF StillChallenged(r)
               THEN [flow EXCEPT ![session[r]] = Credited(r, flow[session[r]])]
               ELSE flow
    /\ Finish(r)
    /\ current' = [current EXCEPT ![r] = FALSE]
    /\ UNCHANGED <<settlement, submitted, bound_to, redeemed, ledger, history, overtaken>>

\* payCharge throws, the payment settled or not; nothing catches it.
PayFails(r) ==
    /\ at[r] = "paying"
    /\ paid' \in {paid, paid \cup {job[r].challenge}}
    /\ Finish(r)
    /\ current' = [current EXCEPT ![r] = FALSE]
    /\ UNCHANGED <<settlement, flow, submitted, bound_to, redeemed, ledger, history, overtaken>>

-----------------------------------------------------------------------------
(* POST register/claim                                                     *)

Claim(r, s) ==
    /\ HasObject(s) /\ flow[s].registration # None /\ flow[s].credential # None
    /\ Begin(r, s, "claiming", TRUE, [NoJob EXCEPT !.object = flow[s]])
    /\ UNCHANGED <<settlement, flow, submitted, gateway, ledger, history>>

\* Mutant: the hash of the payload is not compared with the challenge's.
AcceptsAnyPayload(object) ==
    LET cred == object.credential
    IN /\ bound_to[cred.challenge] = Protected(object)
       /\ cred.payload \in paid
       /\ cred.challenge \notin redeemed

\* The middleware's checks: issued for this body, the payload is of this
\* challenge, the invoice is paid, not redeemed.
Accepts(object) ==
    LET cred == object.credential
    IN /\ bound_to[cred.challenge] = Protected(object)
       /\ cred.payload = cred.challenge
       /\ cred.challenge \in paid
       /\ cred.challenge \notin redeemed

Redeem(r) ==
    /\ at[r] = "claiming"
    /\ Accepts(job[r].object)
    /\ redeemed' = redeemed \cup {job[r].object.credential.challenge}
    /\ Goto(r, "redeemed")
    /\ UNCHANGED <<settlement, flow, submitted, bound_to, paid, ledger, history, job>>

\* With the receipt.  issueBattlecodeTicket throws when the object's submission is
\* not the one registered; the ticket reaches the object before the ledger.
IssueTicket(r, i) ==
    /\ at[r] = "redeemed"
    /\ job[r].object.submission = job[r].object.registration
    /\ \A t \in tickets : t.id # i
    /\ LET ticket == [id |-> i, challenge |-> job[r].object.credential.challenge,
                      submission |-> job[r].object.submission]
       IN /\ tickets' = tickets \cup {ticket}
          /\ job' = [job EXCEPT ![r].object.ticket = ticket]
          /\ flow' = IF current[r]
                     THEN [flow EXCEPT ![session[r]].ticket = ticket] ELSE flow
    /\ Goto(r, "recording")
    /\ UNCHANGED <<settlement, submitted, gateway, ledger, matches, prizes>>

-----------------------------------------------------------------------------
(* POST match/run                                                          *)

Run(r, s) ==
    /\ HasObject(s)
    /\ flow[s].registration # None /\ flow[s].ticket # None /\ flow[s].submission # None
    /\ Begin(r, s, "playing", FALSE, [NoJob EXCEPT !.object = flow[s]])
    /\ UNCHANGED <<settlement, flow, submitted, gateway, ledger, history>>

\* Mutant: the submission is not held against the ticket's.
AnySubmissionPlays(object) == TRUE

\* assertBattlecodeFairnessCommitment, assertSubmissionLocked and
\* assertTicketFairnessCommitment.
Committed(object) ==
    /\ object.submission = object.registration
    /\ object.ticket.submission = object.submission

\* A match that is won is awarded, or its prize paid first.
Play(r, i, won) ==
    /\ at[r] = "playing"
    /\ Committed(job[r].object)
    /\ \A m \in matches : m.id # i
    /\ LET match == [id |-> i, ticket |-> job[r].object.ticket,
                     submission |-> job[r].object.submission, won |-> won]
           award == IF won /\ settlement = "local-ledger"
                    THEN [match |-> match, settlement |-> settlement] ELSE None
       IN /\ matches' = matches \cup {match}
          /\ job' = [job EXCEPT ![r].match = match, ![r].award = award]
    /\ Goto(r, IF won /\ settlement = "fiber-xudt" THEN "prize" ELSE "reporting")
    /\ UNCHANGED <<settlement, flow, submitted, gateway, ledger, tickets, prizes>>

\* Invoice, send_payment and both polls succeeded.
PrizePaid(r) ==
    /\ at[r] = "prize"
    /\ prizes' = prizes \cup {job[r].match}
    /\ job' = [job EXCEPT ![r].award = [match |-> job[r].match, settlement |-> settlement]]
    /\ Goto(r, "reporting")
    /\ UNCHANGED <<settlement, flow, submitted, gateway, ledger, tickets, matches>>

\* Mutant: a payout that failed is recorded all the same.
PrizeRecordedAnyway(r) ==
    /\ at[r] = "prize"
    /\ prizes' \in {prizes, prizes \cup {job[r].match}}
    /\ job' = [job EXCEPT ![r].award = [match |-> job[r].match, settlement |-> settlement]]
    /\ Goto(r, "reporting")
    /\ UNCHANGED <<settlement, flow, submitted, gateway, ledger, tickets, matches>>

\* One of them threw, the payment settled or not: the match is not recorded.
PrizeFails(r) ==
    /\ at[r] = "prize"
    /\ prizes' \in {prizes, prizes \cup {job[r].match}}
    /\ Finish(r)
    /\ current' = [current EXCEPT ![r] = FALSE]
    /\ UNCHANGED <<settlement, flow, submitted, gateway, ledger, tickets, matches, overtaken>>

-----------------------------------------------------------------------------
(* Errors, resets and restarts                                             *)

\* A ledger call, an assertion, the middleware or the engine fails, and the
\* handler answers an error.  A credential that is refused gets another 402,
\* which the flow does not keep.
Fail(r) ==
    /\ at[r] \in Reading \cup Writing \cup {"found", "claiming", "redeemed", "playing"}
    /\ Finish(r)
    /\ current' = [current EXCEPT ![r] = FALSE]
    /\ UNCHANGED <<settlement, flow, submitted, gateway, ledger, history, overtaken>>

\* POST evidence/reset for one session; a runtime bootstrap or its reset for all.
Reset(S) ==
    /\ flow' = [s \in Sessions |-> IF s \in S THEN None ELSE flow[s]]
    /\ current' = Detached(S)
    /\ UNCHANGED <<settlement, submitted, gateway, ledger, history, at, session, job,
                   overtaken>>

\* The process ends: the flows and the handlers go, the databases stay.
Restart ==
    /\ flow' = [s \in Sessions |-> None]
    /\ at' = [r \in Requests |-> "idle"]
    /\ session' = [r \in Requests |-> None]
    /\ current' = [r \in Requests |-> FALSE]
    /\ job' = [r \in Requests |-> NoJob]
    /\ overtaken' = [r \in Requests |-> FALSE]
    /\ UNCHANGED <<settlement, submitted, gateway, ledger, history>>

Handler(r) ==
    \/ ReadLedger(r) \/ WriteLedger(r)
    \/ Locked(r) \/ Registered(r) \/ ChallengeFails(r)
    \/ \E c \in Challenges : Challenged(r, c)
    \/ Paid(r) \/ PayFails(r) \/ Redeem(r)
    \/ \E i \in TicketIds : IssueTicket(r, i)
    \/ \E i \in MatchIds, won \in BOOLEAN : Play(r, i, won)
    \/ PrizePaid(r) \/ PrizeFails(r) \/ Fail(r)

Call(r, s) ==
    \/ \E sub \in Submissions : Submit(r, s, sub) \/ Register(r, s, sub)
    \/ Pay(r, s) \/ Claim(r, s) \/ Run(r, s)

Next ==
    \/ \E r \in Requests : Handler(r) \/ \E s \in Sessions : Call(r, s)
    \/ \E s \in Sessions : Reset({s})
    \/ Reset(Sessions)
    \/ Restart

Spec == Init /\ [][Next]_vars

-----------------------------------------------------------------------------
(* Properties                                                              *)

\* A ticket was paid for: its challenge was issued for the very submission it
\* names, settled and redeemed, and no other ticket came of it, whatever
\* registrations, payments, claims and resets of the session overlapped.
EntryIsPaid ==
    /\ \A t \in tickets :
          t.challenge \in paid \cap redeemed /\ bound_to[t.challenge] = t.submission
    /\ \A t, u \in tickets : t.challenge = u.challenge => t = u

\* A match is played by the submission its ticket was issued for, though a
\* submission handler may have put another one into the flow since.
MatchIsFair ==
    \A m \in matches : m.ticket \in tickets /\ m.submission = m.ticket.submission

\* A prize was won in a match; an award in the ledger has its match beside it,
\* and under fiber-xudt it was paid out (runBattlecodeTournament fails closed).
PrizeIsEarned ==
    /\ \A m \in prizes : m \in matches /\ m.won
    /\ \A a \in ledger.awards :
          /\ a.match \in ledger.matches /\ a.match.won
          /\ a.settlement = "fiber-xudt" => a.match \in prizes

LedgerGrows ==
    /\ ledger.submissions \subseteq ledger'.submissions
    /\ ledger.tickets \subseteq ledger'.tickets
    /\ ledger.matches \subseteq ledger'.matches
    /\ ledger.awards \subseteq ledger'.awards

\* A row leaves the ledger only when the writer's snapshot had been overtaken:
\* another handler wrote between its read and its write.
LossNeedsRace ==
    [][LedgerGrows \/ \E r \in Requests : at[r] \in Writing /\ overtaken[r]]_vars

\* What the documentation promises of the ledger (docs/battlecode-paid-http-
\* tournament.md, "Durable SQLite bot submission/ticket/match/award ledger"): a
\* row once written stays.
LedgerIsDurable == [][LedgerGrows]_vars
=============================================================================
