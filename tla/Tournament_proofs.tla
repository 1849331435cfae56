------------------------- MODULE Tournament_proofs -------------------------
(***************************************************************************)
(* Proofs about Tournament, for any sets of sessions, handlers, bots,      *)
(* challenges, tickets and matches.                                        *)
(*                                                                         *)
(* TypeOK needs what a handler has taken by each place (Taken).  The       *)
(* tickets need that a redemption belongs to one handler (Redemptions),    *)
(* the awards that every snapshot about to be written is as sound as the   *)
(* ledger (Reports), and the durability that one which was not overtaken   *)
(* holds the ledger whole (Snapshots).                                     *)
(***************************************************************************)
EXTENDS Tournament, TLAPS

\* What r has in hand at each place.
TakenBy(r) ==
    /\ at[r] # "idle" => session[r] \in Sessions
    /\ current[r] => session[r] \in Sessions /\ flow[session[r]] \in Object
    /\ at[r] = "locking" => job[r].object.submission \in Submissions
    /\ at[r] \in {"found", "challenging", "claiming", "redeemed"} =>
          job[r].object.registration \in Submissions
    /\ at[r] = "paying" => job[r].challenge \in Challenges
    /\ at[r] \in {"claiming", "redeemed"} => job[r].object.credential \in Credential
    /\ at[r] = "recording" => job[r].object.ticket \in Ticket
    /\ at[r] = "playing" =>
          job[r].object.ticket \in Ticket /\ job[r].object.submission \in Submissions
    /\ at[r] \in {"prize", "reporting"} => job[r].match \in Match

Taken == \A r \in Requests : TakenBy(r)

Typed == TypeOK /\ Taken

LEMMA EmptyIsObject == Empty \in Object
  BY DEF Empty, Object, Option

LEMMA NoJobIsJob == NoJob \in Job
  BY EmptyIsObject DEF NoJob, Job, Option, EmptyLedger, Ledger

\* Setting a field of an object or of a job leaves it one.
LEMMA SetObject ==
    ASSUME NEW o \in Object
    PROVE  /\ \A x \in Option(Submissions) : [o EXCEPT !.submission = x] \in Object
           /\ \A x \in Option(Challenges) : [o EXCEPT !.challenge = x] \in Object
           /\ \A x \in Option(Credential) : [o EXCEPT !.credential = x] \in Object
           /\ \A x \in Option(Ticket) : [o EXCEPT !.ticket = x] \in Object
  BY DEF Object

LEMMA SetJob ==
    ASSUME NEW j \in Job
    PROVE  /\ \A x \in Object : [j EXCEPT !.object = x] \in Job
           /\ \A x \in Option(Challenges) : [j EXCEPT !.challenge = x] \in Job
           /\ \A x \in Option(Match) : [j EXCEPT !.match = x] \in Job
           /\ \A x \in Option(Award) : [j EXCEPT !.award = x] \in Job
           /\ \A x \in Ledger : [j EXCEPT !.ledger = x] \in Job
  BY DEF Job

LEMMA AppendedIsLedger ==
    ASSUME Typed, NEW r \in Requests, at[r] \in Reading
    PROVE  Appended(r) \in Ledger
  <1>1. job[r] \in Job /\ ledger \in Ledger /\ at[r] \in Reading
    BY DEF Typed, TypeOK
  <1>2. Rows(r).submissions \subseteq Submissions /\ Rows(r).tickets \subseteq Ticket
    BY DEF Typed, Taken, TakenBy, Rows
  <1>3. Rows(r).matches \subseteq Match /\ Rows(r).awards \subseteq Award
    BY <1>1 DEF Typed, Taken, TakenBy, Rows, Job, Option
  <1> QED BY <1>1, <1>2, <1>3 DEF Appended, Ledger

LEMMA TypedInit == Init => Typed
  <1> SUFFICES ASSUME Init PROVE Typed
    OBVIOUS
  <1>1. TypeOK
    BY NoJobIsJob DEF Init, TypeOK, Option, EmptyLedger, Ledger, Place
  <1>2. Taken
    BY DEF Init, Taken, TakenBy
  <1> QED BY <1>1, <1>2 DEF Typed

LEMMA TypedNext == Typed /\ [Next]_vars => Typed'
  <1> SUFFICES ASSUME Typed, [Next]_vars PROVE Typed'
    OBVIOUS
  <1> USE DEF Typed
  <1>t. /\ \A r \in Requests : job[r] \in Job /\ job[r].object \in Object
        /\ \A s \in Sessions : HasObject(s) => flow[s] \in Object
    BY DEF TypeOK, Job, HasObject, Option
  <1>1. ASSUME NEW r \in Requests, ReadLedger(r) PROVE Typed'
    <2>1. Appended(r) \in Ledger
      BY <1>1, AppendedIsLedger DEF ReadLedger
    <2>2. [job[r] EXCEPT !.ledger = Appended(r)] \in Job
      BY <1>t, <2>1, SetJob
    <2>3. job' = [job EXCEPT ![r] = [job[r] EXCEPT !.ledger = Appended(r)]]
      BY <1>1 DEF ReadLedger
    <2>4. TypeOK'
      BY <1>1, <2>2, <2>3 DEF ReadLedger, TypeOK, gateway, history, Place, Reading, Writing
    <2>5. Taken'
      BY <1>1, <2>3 DEF ReadLedger, TypeOK, Taken, TakenBy, Place, Reading, Writing
    <2> QED BY <2>4, <2>5
  <1>2. ASSUME NEW r \in Requests, WriteLedger(r) PROVE Typed'
    <2>1. EmptyLedger \in Ledger
      BY DEF EmptyLedger, Ledger
    <2>2. [job[r] EXCEPT !.ledger = EmptyLedger] \in Job
      BY <1>t, <2>1, SetJob
    <2>3. job[r].ledger \in Ledger
      BY <1>t DEF Job
    <2>4. job' \in [Requests -> Job] /\ at' \in [Requests -> Place]
      BY <1>2, <2>2, NoJobIsJob DEF WriteLedger, Finish, TypeOK, Place
    <2>5. TypeOK'
      BY <1>2, <2>3, <2>4 DEF WriteLedger, Finish, TypeOK, gateway, history, Option
    <2>6. Taken'
      BY <1>2 DEF WriteLedger, Finish, TypeOK, Taken, TakenBy, Writing
    <2> QED BY <2>5, <2>6
  <1>3. ASSUME NEW r \in Requests, NEW s \in Sessions, NEW sub \in Submissions, Submit(r, s,
    sub) PROVE Typed'
    <2>1. [Empty EXCEPT !.submission = sub] \in Object
      BY EmptyIsObject, SetObject DEF Option
    <2>2. [NoJob EXCEPT !.object = [NoJob.object EXCEPT !.submission = sub]] \in Job
      BY <2>1, NoJobIsJob, SetJob DEF NoJob
    <2>3. job' = [job EXCEPT ![r] =
                    [NoJob EXCEPT !.object = [NoJob.object EXCEPT !.submission = sub]]]
      BY <1>3 DEF Submit, Begin
    <2>4. job'[r].object.submission = sub /\ \A q \in Requests : q # r => job'[q] = job[q]
      BY <2>3, <1>3 DEF TypeOK, NoJob, Empty
    <2>5. TypeOK'
      BY <1>3, <2>1, <2>2, <2>3, <2>4, <1>t
        DEF Submit, TypeOK, gateway, history, Place, Option, Begin, Reading
    <2>6. Taken'
      BY <1>3, <2>1, <2>2, <2>3, <2>4, <1>t
        DEF Submit, TypeOK, Taken, TakenBy, gateway, history, Reading, Writing, Begin
    <2> QED BY <2>5, <2>6
  <1>4. ASSUME NEW r \in Requests, Locked(r) PROVE Typed'
    <2>1. session[r] \in Sessions
      BY <1>4 DEF Locked, Taken, TakenBy
    <2>2. (IF HasObject(session[r]) THEN flow[session[r]] ELSE Empty) \in Object
      BY <2>1, <1>t, EmptyIsObject
    <2>3. [(IF HasObject(session[r]) THEN flow[session[r]] ELSE Empty)
                    EXCEPT !.submission = job[r].object.submission] \in Object
      BY <2>2, <1>t, SetObject DEF Object
    <2>4. flow' = [flow EXCEPT ![session[r]] =
                    [(IF HasObject(session[r]) THEN flow[session[r]] ELSE Empty)
                    EXCEPT !.submission = job[r].object.submission]]
      BY <1>4 DEF Locked
    <2>5. \A q \in Requests : current'[q] => current[q] /\ session[q] # session[r]
      BY <1>4 DEF Locked, Detached
    <2>6. job' \in [Requests -> Job]
      BY <1>4, NoJobIsJob DEF Locked, Finish, TypeOK
    <2>7. TypeOK'
      BY <1>4, <2>1, <2>2, <2>3, <2>4, <2>5, <2>6, <1>t
        DEF Locked, TypeOK, gateway, history, Place, Option, Finish, Detached
    <2>8. Taken'
      BY <1>4, <2>1, <2>2, <2>3, <2>4, <2>5, <2>6, <1>t
        DEF Locked, TypeOK, Taken, TakenBy, gateway, history, Reading, Writing, Finish, Detached
    <2> QED BY <2>7, <2>8
  <1>5. ASSUME NEW r \in Requests, NEW s \in Sessions, NEW sub \in Submissions, Register(r,
    s, sub) PROVE Typed'
    <2>1. [Empty EXCEPT !.submission = sub] \in Object
      BY EmptyIsObject, SetObject DEF Option
    <2>2. [NoJob EXCEPT !.object.submission = sub, !.object.registration = sub] \in Job
      BY DEF NoJob, Empty, Job, Object, Option, EmptyLedger, Ledger
    <2>3. job' = [job EXCEPT ![r] = [NoJob EXCEPT !.object.submission = sub,
      !.object.registration = sub]]
      BY <1>5 DEF Register, Begin
    <2>4. job'[r].object.registration = sub /\ \A q \in Requests : q # r => job'[q] = job[q]
      BY <2>3, <1>5 DEF TypeOK, NoJob, Empty
    <2>5. TypeOK'
      BY <1>5, <2>1, <2>2, <2>3, <2>4, <1>t
        DEF Register, TypeOK, gateway, history, Place, Option, Begin
    <2>6. Taken'
      BY <1>5, <2>1, <2>2, <2>3, <2>4, <1>t
        DEF Register, TypeOK, Taken, TakenBy, gateway, history, Reading, Writing, Begin
    <2> QED BY <2>5, <2>6
  <1>6. ASSUME NEW r \in Requests, Registered(r) PROVE Typed'
    <2>1. session[r] \in Sessions
      BY <1>6 DEF Registered, Taken, TakenBy
    <2>2. \A q \in Requests : current'[q] => current[q] /\ session[q] # session[r]
      BY <1>6 DEF Registered, Detached
    <2>3. TypeOK'
      BY <1>6, <2>1, <2>2, <1>t
        DEF Registered, TypeOK, gateway, history, Place, Option, Detached
    <2>4. Taken'
      BY <1>6, <2>1, <2>2, <1>t
        DEF Registered, TypeOK, Taken, TakenBy, gateway, history, Reading, Writing, Detached
    <2> QED BY <2>3, <2>4
  <1>7. ASSUME NEW r \in Requests, NEW c \in Challenges, Challenged(r, c) PROVE Typed'
    <2>1. session[r] \in Sessions /\ job[r].object.registration \in Submissions
      BY <1>7 DEF Challenged, Taken, TakenBy
    <2>2. HasObject(session[r]) => [flow[session[r]] EXCEPT !.challenge = c] \in Object
      BY <2>1, <1>t, SetObject DEF Option
    <2>3. flow' = IF HasObject(session[r])
                    THEN [flow EXCEPT ![session[r]] = [flow[session[r]] EXCEPT !.challenge = c]]
                    ELSE flow
      BY <1>7 DEF Challenged, StoreChallenge
    <2>4. /\ flow' \in [Sessions -> Option(Object)]
          /\ \A s \in Sessions : flow[s] \in Object => flow'[s] \in Object
      BY <2>1, <2>2, <2>3 DEF TypeOK, Option
    <2>5. job' \in [Requests -> Job]
      BY <1>7, NoJobIsJob DEF Challenged, Finish, TypeOK
    <2>6. TypeOK'
      BY <1>7, <2>1, <2>2, <2>3, <2>4, <2>5, <1>t
        DEF Challenged, Protected, TypeOK, gateway, history, Place, Option, Finish
    <2>7. Taken'
      BY <1>7, <2>1, <2>2, <2>3, <2>4, <2>5, <1>t
        DEF Challenged, TypeOK, Taken, TakenBy, gateway, history, Reading, Writing, Finish
    <2> QED BY <2>6, <2>7
  <1>8. ASSUME NEW r \in Requests, ChallengeFails(r) PROVE Typed'
    <2>1. session[r] \in Sessions /\ job[r].object.registration \in Submissions
      BY <1>8 DEF ChallengeFails, Taken, TakenBy
    <2>2. HasObject(session[r]) => [flow[session[r]] EXCEPT !.challenge = None] \in Object
      BY <2>1, <1>t, SetObject DEF Option
    <2>3. flow' = IF HasObject(session[r])
                    THEN [flow EXCEPT ![session[r]] = [flow[session[r]] EXCEPT !.challenge = None]]
                    ELSE flow
      BY <1>8 DEF ChallengeFails, StoreChallenge
    <2>4. /\ flow' \in [Sessions -> Option(Object)]
          /\ \A s \in Sessions : flow[s] \in Object => flow'[s] \in Object
      BY <2>1, <2>2, <2>3 DEF TypeOK, Option
    <2>5. job' \in [Requests -> Job]
      BY <1>8, NoJobIsJob DEF ChallengeFails, Finish, TypeOK
    <2>6. TypeOK'
      BY <1>8, <2>1, <2>2, <2>3, <2>4, <2>5, <1>t
        DEF ChallengeFails, TypeOK, gateway, history, Place, Option, Finish
    <2>7. Taken'
      BY <1>8, <2>1, <2>2, <2>3, <2>4, <2>5, <1>t
        DEF ChallengeFails, TypeOK, Taken, TakenBy, gateway, history, Reading, Writing, Finish
    <2> QED BY <2>6, <2>7
  <1>9. ASSUME NEW r \in Requests, NEW s \in Sessions, Pay(r, s) PROVE Typed'
    <2>1. flow[s] \in Object /\ flow[s].challenge \in Challenges
      BY <1>9, <1>t DEF Pay, Object, Option
    <2>2. [NoJob EXCEPT !.challenge = flow[s].challenge] \in Job
      BY <2>1, NoJobIsJob, SetJob DEF Option
    <2>3. job'[r].challenge = flow[s].challenge /\ \A q \in Requests : q # r => job'[q] = job[q]
      BY <1>9 DEF Pay, Begin, TypeOK, NoJob
    <2>4. TypeOK'
      BY <1>9, <2>1, <2>2, <2>3, <1>t DEF Pay, TypeOK, gateway, history, Place, Option, Begin
    <2>5. Taken'
      BY <1>9, <2>1, <2>2, <2>3, <1>t
        DEF Pay, TypeOK, Taken, TakenBy, gateway, history, Reading, Writing, Begin
    <2> QED BY <2>4, <2>5
  <1>10. ASSUME NEW r \in Requests, Paid(r) PROVE Typed'
    <2>1. job[r].challenge \in Challenges
      BY <1>10 DEF Paid, Taken, TakenBy
    <2>2. StillChallenged(r) => session[r] \in Sessions /\ flow[session[r]] \in Object
                                 /\ flow[session[r]].challenge \in Challenges
      BY DEF StillChallenged, Taken, TakenBy, Object, Option
    <2>3. StillChallenged(r) => Credited(r, flow[session[r]]) \in Object
      BY <2>1, <2>2, SetObject DEF Credited, Credential, Option
    <2>4. /\ flow' \in [Sessions -> Option(Object)]
          /\ \A s \in Sessions : flow[s] \in Object => flow'[s] \in Object
      BY <1>10, <2>2, <2>3 DEF Paid, TypeOK, Option
    <2>5. job' \in [Requests -> Job]
      BY <1>10, NoJobIsJob DEF Paid, Finish, TypeOK
    <2>6. TypeOK'
      BY <1>10, <2>1, <2>2, <2>3, <2>4, <2>5, <1>t
        DEF Paid, TypeOK, gateway, history, Place, Option, Finish
    <2>7. Taken'
      BY <1>10, <2>1, <2>2, <2>3, <2>4, <2>5, <1>t
        DEF Paid, TypeOK, Taken, TakenBy, gateway, history, Reading, Writing, Finish
    <2> QED BY <2>6, <2>7
  <1>11. ASSUME NEW r \in Requests, PayFails(r) PROVE Typed'
    <2>1. job[r].challenge \in Challenges
      BY <1>11 DEF PayFails, Taken, TakenBy
    <2>2. job' \in [Requests -> Job]
      BY <1>11, NoJobIsJob DEF PayFails, Finish, TypeOK
    <2>3. TypeOK'
      BY <1>11, <2>1, <2>2, <1>t DEF PayFails, TypeOK, gateway, history, Place, Option, Finish
    <2>4. Taken'
      BY <1>11, <2>1, <2>2, <1>t
        DEF PayFails, TypeOK, Taken, TakenBy, gateway, history, Reading, Writing, Finish
    <2> QED BY <2>3, <2>4
  <1>12. ASSUME NEW r \in Requests, NEW s \in Sessions, Claim(r, s) PROVE Typed'
    <2>1. /\ flow[s] \in Object /\ flow[s].registration \in Submissions
          /\ flow[s].credential \in Credential
      BY <1>12, <1>t DEF Claim, Object, Option
    <2>2. [NoJob EXCEPT !.object = flow[s]] \in Job
      BY <2>1, NoJobIsJob, SetJob
    <2>3. job'[r].object = flow[s] /\ \A q \in Requests : q # r => job'[q] = job[q]
      BY <1>12 DEF Claim, Begin, TypeOK, NoJob
    <2>4. TypeOK'
      BY <1>12, <2>1, <2>2, <2>3, <1>t DEF Claim, TypeOK, gateway, history, Place, Option, Begin
    <2>5. Taken'
      BY <1>12, <2>1, <2>2, <2>3, <1>t
        DEF Claim, TypeOK, Taken, TakenBy, gateway, history, Reading, Writing, Begin
    <2> QED BY <2>4, <2>5
  <1>13. ASSUME NEW r \in Requests, Redeem(r) PROVE Typed'
    <2>1. job[r].object.credential.challenge \in Challenges
      BY <1>13 DEF Redeem, Taken, TakenBy, Credential
    <2>2. TypeOK'
      BY <1>13, <2>1, <1>t DEF Redeem, TypeOK, gateway, history, Place, Option, Goto
    <2>3. Taken'
      BY <1>13, <2>1, <1>t
        DEF Redeem, TypeOK, Taken, TakenBy, gateway, history, Reading, Writing, Goto
    <2> QED BY <2>2, <2>3
  <1>14. ASSUME NEW r \in Requests, NEW i \in TicketIds, IssueTicket(r, i) PROVE Typed'
    <2> DEFINE ticket == [id |-> i, challenge |-> job[r].object.credential.challenge,
                          submission |-> job[r].object.submission]
    <2>1. ticket \in Ticket
      BY <1>14 DEF IssueTicket, Taken, TakenBy, Credential, Ticket
    <2>2. [job[r].object EXCEPT !.ticket = ticket] \in Object
      BY <2>1, <1>t, SetObject DEF Option
    <2>3. [job[r] EXCEPT !.object = [job[r].object EXCEPT !.ticket = ticket]] \in Job
      BY <2>2, <1>t, SetJob
    <2>4. job' = [job EXCEPT ![r] =
                     [job[r] EXCEPT !.object = [job[r].object EXCEPT !.ticket = ticket]]]
      BY <1>14 DEF IssueTicket
    <2>5. job'[r].object.ticket = ticket /\ \A q \in Requests : q # r => job'[q] = job[q]
      BY <2>4, <1>t DEF TypeOK, Job, Object
    <2>6. current[r] => session[r] \in Sessions /\ flow[session[r]] \in Object
      BY DEF Taken, TakenBy
    <2>7. current[r] => [flow[session[r]] EXCEPT !.ticket = ticket] \in Object
      BY <2>1, <2>6, SetObject DEF Option
    <2>8. flow' = IF current[r]
                  THEN [flow EXCEPT ![session[r]] = [flow[session[r]] EXCEPT !.ticket = ticket]]
                  ELSE flow
      BY <1>14 DEF IssueTicket
    <2>9. /\ flow' \in [Sessions -> Option(Object)]
          /\ \A s \in Sessions : flow[s] \in Object => flow'[s] \in Object
      BY <2>6, <2>7, <2>8 DEF TypeOK, Option
    <2>10. tickets' = tickets \cup {ticket}
      BY <1>14 DEF IssueTicket
    <2> HIDE DEF ticket
    <2>11. TypeOK'
      BY <1>14, <2>1, <2>3, <2>4, <2>9, <2>10
        DEF IssueTicket, Goto, TypeOK, gateway, Place, Reading
    <2>12. Taken'
      BY <1>14, <2>1, <2>5, <2>9 DEF IssueTicket, Goto, TypeOK, Taken, TakenBy, gateway
    <2> QED BY <2>11, <2>12
  <1>15. ASSUME NEW r \in Requests, NEW s \in Sessions, Run(r, s) PROVE Typed'
    <2>1. /\ flow[s] \in Object /\ flow[s].ticket \in Ticket
          /\ flow[s].submission \in Submissions
      BY <1>15, <1>t DEF Run, Object, Option
    <2>2. [NoJob EXCEPT !.object = flow[s]] \in Job
      BY <2>1, NoJobIsJob, SetJob
    <2>3. job'[r].object = flow[s] /\ \A q \in Requests : q # r => job'[q] = job[q]
      BY <1>15 DEF Run, Begin, TypeOK, NoJob
    <2>4. TypeOK'
      BY <1>15, <2>1, <2>2, <2>3, <1>t DEF Run, TypeOK, gateway, history, Place, Option, Begin
    <2>5. Taken'
      BY <1>15, <2>1, <2>2, <2>3, <1>t
        DEF Run, TypeOK, Taken, TakenBy, gateway, history, Reading, Writing, Begin
    <2> QED BY <2>4, <2>5
  <1>16. ASSUME NEW r \in Requests, NEW i \in MatchIds, NEW won \in BOOLEAN, Play(r, i, won)
         PROVE  Typed'
    <2> DEFINE match == [id |-> i, ticket |-> job[r].object.ticket,
                         submission |-> job[r].object.submission, won |-> won]
               award == IF won /\ settlement = "local-ledger"
                        THEN [match |-> match, settlement |-> settlement] ELSE None
    <2>1. match \in Match
      BY <1>16 DEF Play, Taken, TakenBy, Match
    <2>2. award \in Option(Award)
      BY <2>1 DEF TypeOK, Award, Option
    <2>3. [job[r] EXCEPT !.match = match, !.award = award] \in Job
      BY <2>1, <2>2, <1>t DEF Job, Option
    <2>4. /\ job' = [job EXCEPT ![r] = [job[r] EXCEPT !.match = match, !.award = award]]
          /\ matches' = matches \cup {match}
      BY <1>16 DEF Play
    <2>5. job'[r].match = match /\ \A q \in Requests : q # r => job'[q] = job[q]
      BY <2>4, <1>t DEF TypeOK, Job
    <2> HIDE DEF match, award
    <2>6. TypeOK'
      BY <1>16, <2>1, <2>3, <2>4 DEF Play, Goto, TypeOK, gateway, Place, Reading
    <2>7. Taken'
      BY <1>16, <2>1, <2>5 DEF Play, Goto, TypeOK, Taken, TakenBy, gateway
    <2> QED BY <2>6, <2>7
  <1>17. ASSUME NEW r \in Requests, PrizePaid(r) PROVE Typed'
    <2> DEFINE award == [match |-> job[r].match, settlement |-> settlement]
    <2>1. job[r].match \in Match /\ award \in Award
      BY <1>17 DEF PrizePaid, TypeOK, Taken, TakenBy, Award
    <2>2. [job[r] EXCEPT !.award = award] \in Job
      BY <2>1, <1>t, SetJob DEF Option
    <2>3. job' = [job EXCEPT ![r] = [job[r] EXCEPT !.award = award]]
      BY <1>17 DEF PrizePaid
    <2>4. job'[r].match = job[r].match /\ \A q \in Requests : q # r => job'[q] = job[q]
      BY <2>3, <1>t DEF TypeOK, Job
    <2> HIDE DEF award
    <2>5. TypeOK'
      BY <1>17, <2>1, <2>2, <2>3 DEF PrizePaid, Goto, TypeOK, gateway, Place, Reading
    <2>6. Taken'
      BY <1>17, <2>1, <2>4 DEF PrizePaid, Goto, TypeOK, Taken, TakenBy, gateway
    <2> QED BY <2>5, <2>6
  <1>18. ASSUME NEW r \in Requests, PrizeFails(r) PROVE Typed'
    <2>1. job[r].match \in Match
      BY <1>18 DEF PrizeFails, Taken, TakenBy
    <2>2. job' \in [Requests -> Job]
      BY <1>18, NoJobIsJob DEF PrizeFails, Finish, TypeOK
    <2>3. TypeOK'
      BY <1>18, <2>1, <2>2, <1>t DEF PrizeFails, TypeOK, gateway, history, Place, Option, Finish
    <2>4. Taken'
      BY <1>18, <2>1, <2>2, <1>t
        DEF PrizeFails, TypeOK, Taken, TakenBy, gateway, history, Reading, Writing, Finish
    <2> QED BY <2>3, <2>4
  <1>19. ASSUME NEW r \in Requests, Fail(r) PROVE Typed'
    <2>1. job' \in [Requests -> Job]
      BY <1>19, NoJobIsJob DEF Fail, Finish, TypeOK
    <2>2. TypeOK'
      BY <1>19, <2>1, <1>t DEF Fail, TypeOK, gateway, history, Place, Option, Finish
    <2>3. Taken'
      BY <1>19, <2>1, <1>t
        DEF Fail, TypeOK, Taken, TakenBy, gateway, history, Reading, Writing, Finish
    <2> QED BY <2>2, <2>3
  <1>20. ASSUME NEW S, Reset(S) PROVE Typed'
    <2>1. \A q \in Requests : current'[q] => current[q] /\ session[q] \notin S
      BY <1>20 DEF Reset, Detached
    <2>2. TypeOK'
      BY <1>20 DEF Reset, TypeOK, gateway, history, Option, Detached
    <2>3. Taken'
      BY <1>20, <2>1 DEF Reset, TypeOK, Taken, TakenBy, gateway, history
    <2> QED BY <2>2, <2>3
  <1>21. CASE Restart
    <2>1. TypeOK'
      BY <1>21, NoJobIsJob DEF Restart, TypeOK, gateway, history, Option, Place
    <2>2. Taken'
      BY <1>21 DEF Restart, Taken, TakenBy
    <2> QED BY <2>1, <2>2
  <1>22. CASE UNCHANGED vars
    BY <1>22 DEF vars, gateway, history, handlers, TypeOK, Taken, TakenBy
  <1>23. ASSUME NEW r \in Requests, Handler(r) PROVE Typed'
    BY <1>1, <1>2, <1>4, <1>6, <1>7, <1>8, <1>10, <1>11, <1>13, <1>14, <1>16, <1>17, <1>18,
      <1>19,
       <1>23 DEF Handler
  <1>24. ASSUME NEW r \in Requests, NEW s \in Sessions, Call(r, s) PROVE Typed'
    BY <1>3, <1>5, <1>9, <1>12, <1>15, <1>24 DEF Call
  <1> QED
    BY <1>20, <1>21, <1>22, <1>23, <1>24 DEF Next

\* The type invariant.
THEOREM TournamentTypes == Spec => []TypeOK
  <1>1. Typed => TypeOK
    BY DEF Typed
  <1> QED BY <1>1, TypedInit, TypedNext, PTL DEF Spec

-----------------------------------------------------------------------------
(* Tickets and matches                                                     *)

\* The challenge a handler has redeemed and not yet turned into a ticket.
Redemption(r) == job[r].object.credential.challenge

\* A handler that has redeemed a challenge is the only one to have, and no ticket
\* came of it yet.
Redemptions ==
    /\ \A r \in Requests : at[r] = "redeemed" =>
          /\ Redemption(r) \in paid \cap redeemed
          /\ bound_to[Redemption(r)] = job[r].object.registration
          /\ \A t \in tickets : t.challenge # Redemption(r)
    /\ \A r, q \in Requests :
          at[r] = "redeemed" /\ at[q] = "redeemed" /\ Redemption(r) = Redemption(q) => r = q

\* The ticket in a flow, or in an object that goes into one or plays, was issued.
Issued ==
    /\ \A s \in Sessions : HasObject(s) => flow[s].ticket \in tickets \cup {None}
    /\ \A r \in Requests : at[r] = "found" => job[r].object.ticket \in tickets \cup {None}
    /\ \A r \in Requests : at[r] = "playing" => job[r].object.ticket \in tickets

Entries == Redemptions /\ Issued /\ EntryIsPaid /\ MatchIsFair

\* What no step but five does: touch the tickets, the matches, the redemptions, the
\* bindings, or bring a handler to a place where Entries looks at its object.
LEMMA EntriesKept ==
    ASSUME Entries, UNCHANGED <<tickets, matches, redeemed, bound_to>>, paid \subseteq paid',
           \A s \in Sessions : HasObject(s)' => flow'[s].ticket \in tickets \cup {None},
           \A q \in Requests : at'[q] \in {"found", "redeemed", "playing"} =>
              at'[q] = at[q] /\ job'[q].object = job[q].object
    PROVE  Entries'
  <1>1. Redemptions'
    BY DEF Entries, Redemptions, Redemption
  <1>2. Issued'
    BY DEF Entries, Issued
  <1>3. EntryIsPaid' /\ MatchIsFair'
    BY DEF Entries, EntryIsPaid, MatchIsFair
  <1> QED BY <1>1, <1>2, <1>3 DEF Entries

LEMMA EntriesInit == Init => Entries
  BY DEF Init, Entries, Redemptions, Issued, HasObject, EntryIsPaid, MatchIsFair

LEMMA EntriesNext == Typed /\ Entries /\ [Next]_vars => Entries'
  <1> SUFFICES ASSUME Typed, Entries, [Next]_vars PROVE Entries'
    OBVIOUS
  <1>t. /\ flow \in [Sessions -> Option(Object)] /\ at \in [Requests -> Place]
        /\ session \in [Requests -> Option(Sessions)] /\ job \in [Requests -> Job]
        /\ \A r \in Requests : job[r] \in Job /\ job[r].object \in Object
        /\ \A s \in Sessions : HasObject(s) => flow[s] \in Object
    BY DEF Typed, TypeOK, Job, HasObject, Option
  <1>f. \A s \in Sessions : HasObject(s) => flow[s].ticket \in tickets \cup {None}
    BY DEF Entries, Issued
  <1>1. ASSUME NEW r \in Requests, ReadLedger(r) PROVE Entries'
    <2>1. \A q \in Requests : job'[q].object = job[q].object
      BY <1>1, <1>t DEF ReadLedger, Job
    <2>2. \A q \in Requests : at'[q] \in {"found", "redeemed", "playing"} => at'[q] = at[q]
      BY <1>1, <1>t DEF ReadLedger
    <2> QED BY <1>1, <2>1, <2>2, <1>f, EntriesKept DEF ReadLedger, gateway, history, HasObject
  <1>2. ASSUME NEW r \in Requests, WriteLedger(r) PROVE Entries'
    <2>1. \A q \in Requests : at'[q] \in {"found", "redeemed", "playing"} =>
             at'[q] = at[q] /\ job'[q].object = job[q].object
      BY <1>2, <1>t DEF WriteLedger, Finish
    <2> QED BY <1>2, <2>1, <1>f, EntriesKept DEF WriteLedger, gateway, history, HasObject
  <1>3. ASSUME NEW r \in Requests, NEW s \in Sessions, NEW sub \in Submissions, Submit(r, s,
    sub)
        PROVE  Entries'
    <2>1. \A q \in Requests : at'[q] \in {"found", "redeemed", "playing"} =>
             at'[q] = at[q] /\ job'[q].object = job[q].object
      BY <1>3, <1>t DEF Submit, Begin
    <2> QED BY <1>3, <2>1, <1>f, EntriesKept DEF Submit, gateway, history, HasObject
  <1>4. ASSUME NEW r \in Requests, Locked(r) PROVE Entries'
    <2> DEFINE s == session[r]
               old == IF HasObject(s) THEN flow[s] ELSE Empty
               new == [old EXCEPT !.submission = job[r].object.submission]
    <2>1. s \in Sessions
      BY <1>4 DEF Locked, Typed, Taken, TakenBy
    <2>2. old \in Object /\ old.ticket \in tickets \cup {None}
      BY <2>1, <1>t, <1>f, EmptyIsObject DEF Empty
    <2>3. new.ticket \in tickets \cup {None}
      BY <2>2 DEF Object
    <2>4. flow' = [flow EXCEPT ![s] = new]
      BY <1>4 DEF Locked
    <2> HIDE DEF new
    <2>5. \A z \in Sessions : HasObject(z)' => flow'[z].ticket \in tickets \cup {None}
      BY <2>1, <2>3, <2>4, <1>t, <1>f DEF HasObject
    <2>6. \A q \in Requests : at'[q] \in {"found", "redeemed", "playing"} =>
             at'[q] = at[q] /\ job'[q].object = job[q].object
      BY <1>4, <1>t DEF Locked, Finish
    <2> QED BY <1>4, <2>5, <2>6, EntriesKept DEF Locked, gateway, history
  <1>5. ASSUME NEW r \in Requests, NEW s \in Sessions, NEW sub \in Submissions,
               Register(r, s, sub)
        PROVE  Entries'
    <2>1. /\ at' = [at EXCEPT ![r] = "found"]
          /\ \A q \in Requests : q # r => job'[q] = job[q]
          /\ job'[r].object.ticket = None
      BY <1>5, <1>t DEF Register, Begin, NoJob, Empty
    <2>2. Redemptions' /\ Issued'
      BY <1>5, <1>t, <2>1
      DEF Register, Entries, Redemptions, Redemption, Issued, HasObject, gateway, history
    <2>3. EntryIsPaid' /\ MatchIsFair'
      BY <1>5 DEF Register, Entries, EntryIsPaid, MatchIsFair, gateway, history
    <2> QED BY <2>2, <2>3 DEF Entries
  <1>6. ASSUME NEW r \in Requests, Registered(r) PROVE Entries'
    <2>1. session[r] \in Sessions /\ job[r].object.ticket \in tickets \cup {None}
      BY <1>6 DEF Registered, Typed, Taken, TakenBy, Entries, Issued
    <2>2. \A z \in Sessions : HasObject(z)' => flow'[z].ticket \in tickets \cup {None}
      BY <1>6, <2>1, <1>t, <1>f DEF Registered, HasObject
    <2>3. \A q \in Requests : at'[q] \in {"found", "redeemed", "playing"} =>
             at'[q] = at[q] /\ job'[q].object = job[q].object
      BY <1>6, <1>t DEF Registered
    <2> QED BY <1>6, <2>2, <2>3, EntriesKept DEF Registered, gateway, history
  \* A challenge leaves the ticket of the object alone.
  <1>c. ASSUME NEW r \in Requests, NEW c, StoreChallenge(r, c), session[r] \in Sessions
        PROVE  \A z \in Sessions : HasObject(z)' => flow'[z].ticket \in tickets \cup {None}
    <2>1. HasObject(session[r]) =>
             [flow[session[r]] EXCEPT !.challenge = c].ticket = flow[session[r]].ticket
      BY <1>c, <1>t DEF Object
    <2>2. flow' = IF HasObject(session[r])
                  THEN [flow EXCEPT ![session[r]] = [flow[session[r]] EXCEPT !.challenge = c]]
                  ELSE flow
      BY <1>c DEF StoreChallenge
    <2> QED BY <2>1, <2>2, <1>c, <1>t, <1>f DEF HasObject
  <1>7. ASSUME NEW r \in Requests, NEW c \in Challenges, Challenged(r, c) PROVE Entries'
    <2>1. session[r] \in Sessions
      BY <1>7 DEF Challenged, Typed, Taken, TakenBy
    <2>2. \A z \in Sessions : HasObject(z)' => flow'[z].ticket \in tickets \cup {None}
      BY <1>7, <2>1, <1>c DEF Challenged
    <2>3. \A q \in Requests : at'[q] \in {"found", "redeemed", "playing"} =>
             at'[q] = at[q] /\ job'[q].object = job[q].object
      BY <1>7, <1>t DEF Challenged, Finish
    <2>4. \A d \in Challenges : bound_to[d] \in Submissions => bound_to'[d] = bound_to[d]
      BY <1>7, TournamentAssumption DEF Challenged, Typed, TypeOK
    <2>5. \A q \in Requests : at[q] = "redeemed" =>
             /\ job[q].object.registration \in Submissions
             /\ job[q].object.credential.challenge \in Challenges
      BY DEF Typed, Taken, TakenBy, Credential
    <2>6. Redemptions'
      BY <1>7, <2>3, <2>4, <2>5
      DEF Challenged, Entries, Redemptions, Redemption, gateway, history
    <2>7. Issued'
      BY <1>7, <2>2, <2>3 DEF Challenged, Entries, Issued, history
    <2>8. \A t \in tickets : t.challenge \in Challenges /\ t.submission \in Submissions
      BY DEF Typed, TypeOK, Ticket
    <2>9. EntryIsPaid' /\ MatchIsFair'
      BY <1>7, <2>4, <2>8 DEF Challenged, Entries, EntryIsPaid, MatchIsFair, history
    <2> QED BY <2>6, <2>7, <2>9 DEF Entries
  <1>8. ASSUME NEW r \in Requests, ChallengeFails(r) PROVE Entries'
    <2>1. session[r] \in Sessions
      BY <1>8 DEF ChallengeFails, Typed, Taken, TakenBy
    <2>2. \A z \in Sessions : HasObject(z)' => flow'[z].ticket \in tickets \cup {None}
      BY <1>8, <2>1, <1>c DEF ChallengeFails
    <2>3. \A q \in Requests : at'[q] \in {"found", "redeemed", "playing"} =>
             at'[q] = at[q] /\ job'[q].object = job[q].object
      BY <1>8, <1>t DEF ChallengeFails, Finish
    <2> QED BY <1>8, <2>2, <2>3, EntriesKept DEF ChallengeFails, gateway, history
  <1>9. ASSUME NEW r \in Requests, NEW s \in Sessions, Pay(r, s) PROVE Entries'
    <2>1. \A q \in Requests : at'[q] \in {"found", "redeemed", "playing"} =>
             at'[q] = at[q] /\ job'[q].object = job[q].object
      BY <1>9, <1>t DEF Pay, Begin
    <2> QED BY <1>9, <2>1, <1>f, EntriesKept DEF Pay, gateway, history, HasObject
  <1>10. ASSUME NEW r \in Requests, Paid(r) PROVE Entries'
    <2>1. StillChallenged(r) => session[r] \in Sessions /\ flow[session[r]] \in Object
      BY DEF StillChallenged, Typed, Taken, TakenBy
    <2>2. StillChallenged(r) =>
             Credited(r, flow[session[r]]).ticket = flow[session[r]].ticket
      BY <2>1 DEF Credited, Object
    <2>3. StillChallenged(r) => HasObject(session[r])
      BY <2>1, NoObjectAssumption DEF HasObject
    <2>4. \A z \in Sessions : HasObject(z)' => flow'[z].ticket \in tickets \cup {None}
      BY <1>10, <2>1, <2>2, <2>3, <1>t, <1>f DEF Paid, HasObject
    <2>5. \A q \in Requests : at'[q] \in {"found", "redeemed", "playing"} =>
             at'[q] = at[q] /\ job'[q].object = job[q].object
      BY <1>10, <1>t DEF Paid, Finish
    <2> QED BY <1>10, <2>4, <2>5, EntriesKept DEF Paid, history
  <1>11. ASSUME NEW r \in Requests, PayFails(r) PROVE Entries'
    <2>1. \A q \in Requests : at'[q] \in {"found", "redeemed", "playing"} =>
             at'[q] = at[q] /\ job'[q].object = job[q].object
      BY <1>11, <1>t DEF PayFails, Finish
    <2>2. paid \subseteq paid'
      BY <1>11 DEF PayFails
    <2> QED BY <1>11, <2>1, <2>2, <1>f, EntriesKept DEF PayFails, history, HasObject
  <1>12. ASSUME NEW r \in Requests, NEW s \in Sessions, Claim(r, s) PROVE Entries'
    <2>1. \A q \in Requests : at'[q] \in {"found", "redeemed", "playing"} =>
             at'[q] = at[q] /\ job'[q].object = job[q].object
      BY <1>12, <1>t DEF Claim, Begin
    <2> QED BY <1>12, <2>1, <1>f, EntriesKept DEF Claim, gateway, history, HasObject
  <1>13. ASSUME NEW r \in Requests, Redeem(r) PROVE Entries'
    <2> DEFINE c == Redemption(r)
    <2>1. /\ c \in paid /\ c \notin redeemed /\ bound_to[c] = job[r].object.registration
          /\ redeemed' = redeemed \cup {c}
      BY <1>13 DEF Redeem, Accepts, Protected, Redemption
    <2>2. \A t \in tickets : t.challenge # c
      BY <2>1 DEF Entries, EntryIsPaid
    <2>3. \A q \in Requests : at[q] = "redeemed" => Redemption(q) # c
      BY <2>1 DEF Entries, Redemptions
    <2>4. /\ at' = [at EXCEPT ![r] = "redeemed"]
          /\ UNCHANGED <<flow, paid, bound_to, tickets, matches, job>>
      BY <1>13 DEF Redeem, Goto, history
    <2>5. \A q \in Requests : Redemption(q)' = Redemption(q)
      BY <2>4 DEF Redemption
    <2>6. Redemptions'
      BY <2>1, <2>2, <2>3, <2>4, <2>5, <1>t DEF Entries, Redemptions
    <2>7. Issued'
      BY <2>4, <1>t DEF Entries, Issued, HasObject
    <2>8. EntryIsPaid' /\ MatchIsFair'
      BY <2>1, <2>4 DEF Entries, EntryIsPaid, MatchIsFair
    <2> QED BY <2>6, <2>7, <2>8 DEF Entries
  <1>14. ASSUME NEW r \in Requests, NEW i \in TicketIds, IssueTicket(r, i) PROVE Entries'
    <2> DEFINE ticket == [id |-> i, challenge |-> Redemption(r),
                          submission |-> job[r].object.submission]
    <2>1. /\ ticket.challenge = Redemption(r)
          /\ ticket.submission = job[r].object.registration
          /\ tickets' = tickets \cup {ticket}
          /\ at[r] = "redeemed" /\ at' = [at EXCEPT ![r] = "recording"]
          /\ UNCHANGED <<paid, redeemed, bound_to, matches>>
      BY <1>14 DEF IssueTicket, Goto, Redemption, gateway
    <2>2. \A q \in Requests : q # r => job'[q] = job[q]
      BY <1>14, <1>t DEF IssueTicket
    <2>3. current[r] => session[r] \in Sessions /\ flow[session[r]] \in Object
      BY DEF Typed, Taken, TakenBy
    <2>4. current[r] => [flow[session[r]] EXCEPT !.ticket = ticket].ticket = ticket
      BY <2>3 DEF Object
    <2>5. flow' = IF current[r]
                  THEN [flow EXCEPT ![session[r]] = [flow[session[r]] EXCEPT !.ticket = ticket]]
                  ELSE flow
      BY <1>14 DEF IssueTicket, Redemption
    <2> HIDE DEF ticket
    <2>6. Redemptions'
      <3>1. \A q \in Requests : at'[q] = "redeemed" =>
               q # r /\ at[q] = "redeemed" /\ Redemption(q)' = Redemption(q)
        BY <2>1, <2>2, <1>t DEF Redemption
      <3>2. \A q \in Requests : at[q] = "redeemed" /\ q # r => ticket.challenge # Redemption(q)
        BY <2>1 DEF Entries, Redemptions
      <3> QED BY <2>1, <2>2, <3>1, <3>2 DEF Entries, Redemptions
    <2>7. Issued'
      <3>1. \A s \in Sessions : HasObject(s)' => flow'[s].ticket \in tickets' \cup {None}
        BY <2>1, <2>3, <2>4, <2>5, <1>t, <1>f DEF HasObject
      <3> QED BY <2>1, <2>2, <3>1, <1>t DEF Entries, Issued
    <2>8. EntryIsPaid'
      BY <2>1 DEF Entries, EntryIsPaid, Redemptions
    <2>9. MatchIsFair'
      BY <2>1 DEF Entries, MatchIsFair
    <2> QED BY <2>6, <2>7, <2>8, <2>9 DEF Entries
  <1>15. ASSUME NEW r \in Requests, NEW s \in Sessions, Run(r, s) PROVE Entries'
    <2>1. /\ at' = [at EXCEPT ![r] = "playing"]
          /\ \A q \in Requests : q # r => job'[q] = job[q]
          /\ job'[r].object = flow[s]
          /\ flow[s].ticket \in tickets
      BY <1>15, <1>t, <1>f DEF Run, Begin, NoJob
    <2>2. Redemptions' /\ Issued'
      BY <1>15, <1>t, <2>1
      DEF Run, Entries, Redemptions, Redemption, Issued, HasObject, gateway, history
    <2>3. EntryIsPaid' /\ MatchIsFair'
      BY <1>15 DEF Run, Entries, EntryIsPaid, MatchIsFair, gateway, history
    <2> QED BY <2>2, <2>3 DEF Entries
  <1>16. ASSUME NEW r \in Requests, NEW i \in MatchIds, NEW won \in BOOLEAN, Play(r, i, won)
         PROVE  Entries'
    <2> DEFINE match == [id |-> i, ticket |-> job[r].object.ticket,
                         submission |-> job[r].object.submission, won |-> won]
    <2>1. match.ticket \in tickets /\ match.submission = match.ticket.submission
      BY <1>16 DEF Play, Committed, Entries, Issued
    <2>2. matches' = matches \cup {match}
      BY <1>16 DEF Play
    <2>3. \A q \in Requests : job'[q].object = job[q].object
      BY <1>16, <1>t DEF Play, Job
    <2>4. \A q \in Requests : at'[q] \in {"found", "redeemed", "playing"} => at'[q] = at[q]
      BY <1>16, <1>t DEF Play, Goto
    <2> HIDE DEF match
    <2>5. UNCHANGED <<flow, bound_to, paid, redeemed, tickets>>
      BY <1>16 DEF Play, gateway
    <2>6. Redemptions' /\ Issued'
      BY <2>5, <2>3, <2>4 DEF Entries, Redemptions, Redemption, Issued, HasObject
    <2>7. EntryIsPaid' /\ MatchIsFair'
      BY <1>16, <2>1, <2>2 DEF Play, Entries, EntryIsPaid, MatchIsFair, gateway
    <2> QED BY <2>6, <2>7 DEF Entries
  <1>17. ASSUME NEW r \in Requests, PrizePaid(r) PROVE Entries'
    <2>1. \A q \in Requests : job'[q].object = job[q].object
      BY <1>17, <1>t DEF PrizePaid, Job
    <2>2. \A q \in Requests : at'[q] \in {"found", "redeemed", "playing"} => at'[q] = at[q]
      BY <1>17, <1>t DEF PrizePaid, Goto
    <2> QED BY <1>17, <2>1, <2>2, <1>f, EntriesKept DEF PrizePaid, gateway, HasObject
  <1>18. ASSUME NEW r \in Requests, PrizeFails(r) PROVE Entries'
    <2>1. \A q \in Requests : at'[q] \in {"found", "redeemed", "playing"} =>
             at'[q] = at[q] /\ job'[q].object = job[q].object
      BY <1>18, <1>t DEF PrizeFails, Finish
    <2> QED BY <1>18, <2>1, <1>f, EntriesKept DEF PrizeFails, gateway, HasObject
  <1>19. ASSUME NEW r \in Requests, Fail(r) PROVE Entries'
    <2>1. \A q \in Requests : at'[q] \in {"found", "redeemed", "playing"} =>
             at'[q] = at[q] /\ job'[q].object = job[q].object
      BY <1>19, <1>t DEF Fail, Finish
    <2> QED BY <1>19, <2>1, <1>f, EntriesKept DEF Fail, gateway, history, HasObject
  <1>20. ASSUME NEW S, Reset(S) PROVE Entries'
    <2>1. \A z \in Sessions : HasObject(z)' => flow'[z].ticket \in tickets \cup {None}
      BY <1>20, <1>f DEF Reset, HasObject
    <2> QED BY <1>20, <2>1, EntriesKept DEF Reset, gateway, history
  <1>21. CASE Restart
    <2>1. \A z \in Sessions : HasObject(z)' => flow'[z].ticket \in tickets \cup {None}
      BY <1>21 DEF Restart, HasObject
    <2>2. \A q \in Requests : at'[q] = "idle"
      BY <1>21 DEF Restart
    <2> QED BY <1>21, <2>1, <2>2, EntriesKept DEF Restart, gateway, history
  <1>22. CASE UNCHANGED vars
    BY <1>22, <1>f, EntriesKept DEF vars, gateway, history, handlers, HasObject
  <1>23. ASSUME NEW r \in Requests, Handler(r) PROVE Entries'
    BY <1>1, <1>2, <1>4, <1>6, <1>7, <1>8, <1>10, <1>11, <1>13, <1>14, <1>16, <1>17, <1>18,
      <1>19,
       <1>23 DEF Handler
  <1>24. ASSUME NEW r \in Requests, NEW s \in Sessions, Call(r, s) PROVE Entries'
    BY <1>3, <1>5, <1>9, <1>12, <1>15, <1>24 DEF Call
  <1> QED
    BY <1>20, <1>21, <1>22, <1>23, <1>24 DEF Next

\* Every ticket was paid for once, with a challenge issued for the submission it
\* names (the claim route and issueBattlecodeTicket).
THEOREM EveryEntryIsPaid == Spec => []EntryIsPaid
  <1>1. Entries => EntryIsPaid
    BY DEF Entries
  <1> QED BY <1>1, TypedInit, TypedNext, EntriesInit, EntriesNext, PTL DEF Spec

\* Every match is played by the submission its ticket names (the assertions of
\* runBattlecodeTournament).
THEOREM EveryMatchIsFair == Spec => []MatchIsFair
  <1>1. Entries => MatchIsFair
    BY DEF Entries
  <1> QED BY <1>1, TypedInit, TypedNext, EntriesInit, EntriesNext, PTL DEF Spec

-----------------------------------------------------------------------------
(* Prizes and awards                                                       *)

\* What PrizeIsEarned says of the awards of a ledger.
Sound(l) ==
    \A a \in l.awards :
        /\ a.match \in l.matches /\ a.match.won
        /\ a.settlement = "fiber-xudt" => a.match \in prizes

\* A handler about to pay has a match that was won; one about to report has a match,
\* and an award only of it; what will be written is sound.
Reports ==
    \A r \in Requests :
        /\ at[r] \in {"prize", "reporting"} => job[r].match \in matches
        /\ at[r] = "prize" => job[r].match.won
        /\ at[r] = "reporting" /\ job[r].award # None =>
              /\ job[r].award.match = job[r].match /\ job[r].match.won
              /\ job[r].award.settlement = "fiber-xudt" => job[r].match \in prizes
        /\ at[r] \in Writing => Sound(job[r].ledger)

Payouts == Reports /\ PrizeIsEarned

LEMMA PayoutsInit == Init => Payouts
  BY DEF Init, Payouts, Reports, PrizeIsEarned, Writing, EmptyLedger

\* What most steps do: play no match, pay no prize, write nothing, and bring no handler
\* to a place Reports is about.
LEMMA PayoutsKept ==
    ASSUME Payouts, UNCHANGED <<matches, ledger>>,
           \/ UNCHANGED prizes
           \/ \E m \in matches : m.won /\ prizes' = prizes \cup {m},
           \A q \in Requests : at'[q] \in {"prize", "reporting"} \cup Writing =>
              at'[q] = at[q] /\ job'[q] = job[q]
    PROVE  Payouts'
  <1>1. prizes \subseteq prizes' /\ \A m \in prizes' : m \in matches /\ m.won
    BY DEF Payouts, PrizeIsEarned
  <1>2. Reports'
    BY <1>1 DEF Payouts, Reports, Sound
  <1>3. PrizeIsEarned'
    BY <1>1 DEF Payouts, PrizeIsEarned
  <1> QED BY <1>2, <1>3 DEF Payouts

LEMMA PayoutsNext == Typed /\ Payouts /\ [Next]_vars => Payouts'
  <1> SUFFICES ASSUME Typed, Payouts, [Next]_vars PROVE Payouts'
    OBVIOUS
  <1>t. /\ at \in [Requests -> Place] /\ job \in [Requests -> Job]
        /\ \A r \in Requests : job[r] \in Job
    BY DEF Typed, TypeOK
  <1> DEFINE Same ==
        \A q \in Requests : at'[q] \in {"prize", "reporting"} \cup Writing =>
           at'[q] = at[q] /\ job'[q] = job[q]
  <1>1. ASSUME NEW r \in Requests, ReadLedger(r) PROVE Payouts'
    <2>1. /\ \A q \in Requests : q # r => at'[q] = at[q] /\ job'[q] = job[q]
          /\ at'[r] \in Writing
          /\ job'[r].ledger = Appended(r)
          /\ UNCHANGED <<ledger, matches, prizes>>
      BY <1>1, <1>t DEF ReadLedger, Job, Writing, history
    <2>2. Sound(ledger)
      BY DEF Payouts, PrizeIsEarned, Sound
    <2>3. \A a \in Rows(r).awards :
             /\ a.match \in Rows(r).matches /\ a.match.won
             /\ a.settlement = "fiber-xudt" => a.match \in prizes
      BY DEF Payouts, Reports, Rows
    <2>4. Sound(Appended(r))
      BY <2>2, <2>3 DEF Sound, Appended
    <2>5. Reports'
      BY <2>1, <2>4 DEF Payouts, Reports, Sound, Writing
    <2> QED BY <2>1, <2>5 DEF Payouts, PrizeIsEarned
  <1>2. ASSUME NEW r \in Requests, WriteLedger(r) PROVE Payouts'
    <2>1. /\ \A q \in Requests : q # r => at'[q] = at[q] /\ job'[q] = job[q]
          /\ at'[r] \in {"locked", "idle"}
          /\ ledger' = job[r].ledger
          /\ UNCHANGED <<matches, prizes>>
      BY <1>2, <1>t DEF WriteLedger, Finish, history
    <2>2. Sound(job[r].ledger)
      BY <1>2 DEF WriteLedger, Payouts, Reports
    <2>3. Reports'
      BY <2>1 DEF Payouts, Reports, Sound, Writing
    <2>4. PrizeIsEarned'
      BY <2>1, <2>2 DEF Payouts, PrizeIsEarned, Sound
    <2> QED BY <2>3, <2>4 DEF Payouts
  <1>3. ASSUME NEW r \in Requests, NEW s \in Sessions, NEW sub \in Submissions, Submit(r, s,
    sub)
        PROVE  Payouts'
    <2>1. Same
      BY <1>3, <1>t DEF Submit, Begin, Writing
    <2> QED BY <1>3, <2>1, PayoutsKept DEF Submit, history
  <1>4. ASSUME NEW r \in Requests, Locked(r) PROVE Payouts'
    <2>1. Same
      BY <1>4, <1>t DEF Locked, Finish, Writing
    <2> QED BY <1>4, <2>1, PayoutsKept DEF Locked, history
  <1>5. ASSUME NEW r \in Requests, NEW s \in Sessions, NEW sub \in Submissions,
               Register(r, s, sub)
        PROVE  Payouts'
    <2>1. Same
      BY <1>5, <1>t DEF Register, Begin, Writing
    <2> QED BY <1>5, <2>1, PayoutsKept DEF Register, history
  <1>6. ASSUME NEW r \in Requests, Registered(r) PROVE Payouts'
    <2>1. Same
      BY <1>6, <1>t DEF Registered, Writing
    <2> QED BY <1>6, <2>1, PayoutsKept DEF Registered, history
  <1>7. ASSUME NEW r \in Requests, NEW c \in Challenges, Challenged(r, c) PROVE Payouts'
    <2>1. Same
      BY <1>7, <1>t DEF Challenged, Finish, Writing
    <2> QED BY <1>7, <2>1, PayoutsKept DEF Challenged, history
  <1>8. ASSUME NEW r \in Requests, ChallengeFails(r) PROVE Payouts'
    <2>1. Same
      BY <1>8, <1>t DEF ChallengeFails, Finish, Writing
    <2> QED BY <1>8, <2>1, PayoutsKept DEF ChallengeFails, history
  <1>9. ASSUME NEW r \in Requests, NEW s \in Sessions, Pay(r, s) PROVE Payouts'
    <2>1. Same
      BY <1>9, <1>t DEF Pay, Begin, Writing
    <2> QED BY <1>9, <2>1, PayoutsKept DEF Pay, history
  <1>10. ASSUME NEW r \in Requests, Paid(r) PROVE Payouts'
    <2>1. Same
      BY <1>10, <1>t DEF Paid, Finish, Writing
    <2> QED BY <1>10, <2>1, PayoutsKept DEF Paid, history
  <1>11. ASSUME NEW r \in Requests, PayFails(r) PROVE Payouts'
    <2>1. Same
      BY <1>11, <1>t DEF PayFails, Finish, Writing
    <2> QED BY <1>11, <2>1, PayoutsKept DEF PayFails, history
  <1>12. ASSUME NEW r \in Requests, NEW s \in Sessions, Claim(r, s) PROVE Payouts'
    <2>1. Same
      BY <1>12, <1>t DEF Claim, Begin, Writing
    <2> QED BY <1>12, <2>1, PayoutsKept DEF Claim, history
  <1>13. ASSUME NEW r \in Requests, Redeem(r) PROVE Payouts'
    <2>1. Same
      BY <1>13, <1>t DEF Redeem, Goto, Writing
    <2> QED BY <1>13, <2>1, PayoutsKept DEF Redeem, history
  <1>14. ASSUME NEW r \in Requests, NEW i \in TicketIds, IssueTicket(r, i) PROVE Payouts'
    <2>1. /\ at' = [at EXCEPT ![r] = "recording"]
          /\ \A q \in Requests : q # r => job'[q] = job[q]
          /\ UNCHANGED <<ledger, matches, prizes>>
      BY <1>14, <1>t DEF IssueTicket, Goto
    <2>2. Same
      BY <2>1, <1>t DEF Writing
    <2> QED BY <2>1, <2>2, PayoutsKept
  <1>15. ASSUME NEW r \in Requests, NEW s \in Sessions, Run(r, s) PROVE Payouts'
    <2>1. Same
      BY <1>15, <1>t DEF Run, Begin, Writing
    <2> QED BY <1>15, <2>1, PayoutsKept DEF Run, history
  <1>16. ASSUME NEW r \in Requests, NEW i \in MatchIds, NEW won \in BOOLEAN, Play(r, i, won)
         PROVE  Payouts'
    <2> DEFINE match == [id |-> i, ticket |-> job[r].object.ticket,
                         submission |-> job[r].object.submission, won |-> won]
               award == IF won /\ settlement = "local-ledger"
                        THEN [match |-> match, settlement |-> settlement] ELSE None
    <2>1. job' = [job EXCEPT ![r] = [job[r] EXCEPT !.match = match, !.award = award]]
      BY <1>16 DEF Play
    <2>2. job'[r].match = match /\ job'[r].award = award
      BY <2>1, <1>t DEF Job
    <2>3. /\ at'[r] \in {"prize", "reporting"} /\ (at'[r] = "prize" => won)
          /\ \A q \in Requests : q # r => at'[q] = at[q] /\ job'[q] = job[q]
      BY <1>16, <1>t DEF Play, Goto
    <2>4. matches' = matches \cup {match} /\ UNCHANGED <<ledger, prizes>>
      BY <1>16 DEF Play
    <2>5. award # None =>
             award.match = match /\ award.settlement = "local-ledger" /\ match.won
      OBVIOUS
    <2>6. match.won = won
      OBVIOUS
    <2> HIDE DEF match, award
    <2>7. Reports'
      BY <2>2, <2>3, <2>4, <2>5, <2>6 DEF Payouts, Reports, Sound, Writing
    <2>8. PrizeIsEarned'
      BY <2>4 DEF Payouts, PrizeIsEarned
    <2> QED BY <2>7, <2>8 DEF Payouts
  <1>17. ASSUME NEW r \in Requests, PrizePaid(r) PROVE Payouts'
    <2> DEFINE match == job[r].match
               award == [match |-> match, settlement |-> settlement]
    <2>1. match \in matches /\ match.won
      BY <1>17 DEF PrizePaid, Payouts, Reports
    <2>2. job' = [job EXCEPT ![r] = [job[r] EXCEPT !.award = award]]
      BY <1>17 DEF PrizePaid
    <2>3. job'[r].match = match /\ job'[r].award = award
      BY <2>2, <1>t DEF Job
    <2>4. /\ at' = [at EXCEPT ![r] = "reporting"]
          /\ \A q \in Requests : q # r => job'[q] = job[q]
          /\ prizes' = prizes \cup {match} /\ UNCHANGED <<ledger, matches>>
      BY <1>17, <1>t DEF PrizePaid, Goto
    <2>5. award.match = match
      OBVIOUS
    <2> HIDE DEF match, award
    <2>6. Reports'
      BY <2>1, <2>3, <2>4, <2>5, <1>t DEF Payouts, Reports, Sound, Writing
    <2>7. PrizeIsEarned'
      BY <2>1, <2>4 DEF Payouts, PrizeIsEarned
    <2> QED BY <2>6, <2>7 DEF Payouts
  <1>18. ASSUME NEW r \in Requests, PrizeFails(r) PROVE Payouts'
    <2>1. Same
      BY <1>18, <1>t DEF PrizeFails, Finish, Writing
    <2>2. job[r].match \in matches /\ job[r].match.won
      BY <1>18 DEF PrizeFails, Payouts, Reports
    <2> QED BY <1>18, <2>1, <2>2, PayoutsKept DEF PrizeFails
  <1>19. ASSUME NEW r \in Requests, Fail(r) PROVE Payouts'
    <2>1. Same
      BY <1>19, <1>t DEF Fail, Finish, Writing
    <2> QED BY <1>19, <2>1, PayoutsKept DEF Fail, history
  <1>20. ASSUME NEW S, Reset(S) PROVE Payouts'
    BY <1>20, PayoutsKept DEF Reset, history
  <1>21. CASE Restart
    <2>1. Same
      BY <1>21 DEF Restart, Writing
    <2> QED BY <1>21, <2>1, PayoutsKept DEF Restart, history
  <1>22. CASE UNCHANGED vars
    BY <1>22, PayoutsKept DEF vars, history, handlers
  <1>23. ASSUME NEW r \in Requests, Handler(r) PROVE Payouts'
    BY <1>1, <1>2, <1>4, <1>6, <1>7, <1>8, <1>10, <1>11, <1>13, <1>14, <1>16, <1>17, <1>18,
      <1>19,
       <1>23 DEF Handler
  <1>24. ASSUME NEW r \in Requests, NEW s \in Sessions, Call(r, s) PROVE Payouts'
    BY <1>3, <1>5, <1>9, <1>12, <1>15, <1>24 DEF Call
  <1> QED
    BY <1>20, <1>21, <1>22, <1>23, <1>24 DEF Next

\* Prizes are won; an award has its match beside it in the ledger, and under
\* fiber-xudt it was paid (createBattlecodeAward, before the ledger is written).
THEOREM EveryPrizeIsEarned == Spec => []PrizeIsEarned
  <1>1. Payouts => PrizeIsEarned
    BY DEF Payouts
  <1> QED BY <1>1, TypedInit, TypedNext, PayoutsInit, PayoutsNext, PTL DEF Spec

-----------------------------------------------------------------------------
(* Lost rows                                                               *)

Within(l, k) ==
    /\ l.submissions \subseteq k.submissions /\ l.tickets \subseteq k.tickets
    /\ l.matches \subseteq k.matches /\ l.awards \subseteq k.awards

\* A snapshot that was not overtaken holds the whole ledger.
Snapshots ==
    \A r \in Requests : at[r] \in Writing /\ ~overtaken[r] => Within(ledger, job[r].ledger)

LEMMA SnapshotsInit == Init => Snapshots
  BY DEF Init, Snapshots, Writing

\* Only reading brings a handler to where it writes, and only writing changes the
\* ledger.
LEMMA SnapshotsNext == Typed /\ Snapshots /\ [Next]_vars => Snapshots'
  <1> SUFFICES ASSUME Typed, Snapshots, [Next]_vars PROVE Snapshots'
    OBVIOUS
  <1>t. /\ at \in [Requests -> Place] /\ job \in [Requests -> Job]
        /\ overtaken \in [Requests -> BOOLEAN]
        /\ \A r \in Requests : job[r] \in Job
    BY DEF Typed, TypeOK
  <1> DEFINE Same ==
        /\ UNCHANGED ledger
        /\ \A q \in Requests : at'[q] \in Writing =>
              at[q] \in Writing /\ job'[q] = job[q] /\ overtaken'[q] = overtaken[q]
  <1>s. Same => Snapshots'
    BY DEF Snapshots
  <1>1. ASSUME NEW r \in Requests, ReadLedger(r) PROVE Snapshots'
    <2>1. /\ \A q \in Requests : q # r =>
                at'[q] = at[q] /\ job'[q] = job[q] /\ overtaken'[q] = overtaken[q]
          /\ job'[r].ledger = Appended(r)
          /\ UNCHANGED ledger
      BY <1>1, <1>t DEF ReadLedger, Job
    <2>2. Within(ledger, Appended(r))
      BY DEF Within, Appended
    <2> QED BY <2>1, <2>2 DEF Snapshots
  <1>2. ASSUME NEW r \in Requests, WriteLedger(r) PROVE Snapshots'
    <2>1. /\ at'[r] \in {"locked", "idle"}
          /\ \A q \in Requests : q # r => at'[q] = at[q]
          /\ \A q \in Requests : q # r /\ at[q] \in Writing => overtaken'[q]
      BY <1>2, <1>t DEF WriteLedger, Finish
    <2> QED BY <2>1 DEF Snapshots, Writing
  <1>3. ASSUME NEW r \in Requests, Handler(r), ~ReadLedger(r), ~WriteLedger(r) PROVE Same
    <2>1. Locked(r) => Same
      BY <1>t DEF Locked, Finish, Writing
    <2>2. Registered(r) => Same
      BY <1>t DEF Registered, Writing
    <2>3. ASSUME NEW c \in Challenges, Challenged(r, c) PROVE Same
      BY <2>3, <1>t DEF Challenged, Finish, Writing
    <2>4. ChallengeFails(r) => Same
      BY <1>t DEF ChallengeFails, Finish, Writing
    <2>5. Paid(r) => Same
      BY <1>t DEF Paid, Finish, Writing
    <2>6. PayFails(r) => Same
      BY <1>t DEF PayFails, Finish, Writing
    <2>7. Redeem(r) => Same
      BY <1>t DEF Redeem, Goto, Writing
    <2>8. ASSUME NEW i \in TicketIds, IssueTicket(r, i) PROVE Same
      <3>1. /\ at' = [at EXCEPT ![r] = "recording"] /\ UNCHANGED <<ledger, overtaken>>
            /\ \A q \in Requests : q # r => job'[q] = job[q]
        BY <2>8, <1>t DEF IssueTicket, Goto
      <3> QED BY <3>1, <1>t DEF Writing
    <2>9. ASSUME NEW i \in MatchIds, NEW won \in BOOLEAN, Play(r, i, won) PROVE Same
      <3>1. /\ at'[r] \in {"prize", "reporting"} /\ UNCHANGED <<ledger, overtaken>>
            /\ \A q \in Requests : q # r => at'[q] = at[q] /\ job'[q] = job[q]
        BY <2>9, <1>t DEF Play, Goto
      <3> QED BY <3>1 DEF Writing
    <2>10. PrizePaid(r) => Same
      <3>1. PrizePaid(r) =>
               /\ at' = [at EXCEPT ![r] = "reporting"] /\ UNCHANGED <<ledger, overtaken>>
               /\ \A q \in Requests : q # r => job'[q] = job[q]
        BY <1>t DEF PrizePaid, Goto
      <3> QED BY <3>1, <1>t DEF Writing
    <2>11. PrizeFails(r) => Same
      BY <1>t DEF PrizeFails, Finish, Writing
    <2>12. Fail(r) => Same
      BY <1>t DEF Fail, Finish, Writing
    <2> QED
      BY <1>3, <2>1, <2>2, <2>3, <2>4, <2>5, <2>6, <2>7, <2>8, <2>9, <2>10, <2>11, <2>12
      DEF Handler
  <1>4. ASSUME NEW r \in Requests, NEW s \in Sessions, Call(r, s) PROVE Same
    <2>1. ASSUME NEW sub \in Submissions, Submit(r, s, sub) PROVE Same
      BY <2>1, <1>t DEF Submit, Begin, Writing
    <2>2. ASSUME NEW sub \in Submissions, Register(r, s, sub) PROVE Same
      BY <2>2, <1>t DEF Register, Begin, Writing
    <2>3. Pay(r, s) => Same
      BY <1>t DEF Pay, Begin, Writing
    <2>4. Claim(r, s) => Same
      BY <1>t DEF Claim, Begin, Writing
    <2>5. Run(r, s) => Same
      BY <1>t DEF Run, Begin, Writing
    <2> QED BY <1>4, <2>1, <2>2, <2>3, <2>4, <2>5 DEF Call
  <1>5. ASSUME NEW S, Reset(S) PROVE Same
    BY <1>5 DEF Reset
  <1>6. Restart => Same
    BY DEF Restart, Writing
  <1>7. UNCHANGED vars => Same
    BY DEF vars, handlers
  <1> HIDE DEF Same
  <1>8. ASSUME NEW r \in Requests, Handler(r) PROVE Snapshots'
    BY <1>s, <1>1, <1>2, <1>3, <1>8
  <1> QED BY <1>s, <1>4, <1>5, <1>6, <1>7, <1>8 DEF Next

\* A step that is not a write leaves the ledger; a write of a snapshot that was not
\* overtaken keeps all of it.
LEMMA WritesGrow ==
    Snapshots /\ [Next]_vars =>
        \/ LedgerGrows
        \/ \E r \in Requests : at[r] \in Writing /\ overtaken[r]
        \/ UNCHANGED vars
  <1> SUFFICES ASSUME Snapshots, [Next]_vars
               PROVE  \/ LedgerGrows
                      \/ \E r \in Requests : at[r] \in Writing /\ overtaken[r]
    OBVIOUS
  <1>1. CASE \E r \in Requests : WriteLedger(r)
    <2>1. PICK r \in Requests : WriteLedger(r)
      BY <1>1
    <2>2. at[r] \in Writing /\ ledger' = job[r].ledger
      BY <2>1 DEF WriteLedger
    <2> QED BY <2>2 DEF Snapshots, Within, LedgerGrows
  <1>2. CASE ~\E r \in Requests : WriteLedger(r)
    <2>1. ASSUME NEW r \in Requests, Handler(r) PROVE UNCHANGED ledger
      <3>1. ReadLedger(r) => UNCHANGED ledger
        BY DEF ReadLedger
      <3>2. Locked(r) \/ Registered(r) \/ ChallengeFails(r) => UNCHANGED ledger
        BY DEF Locked, Registered, ChallengeFails
      <3>3. \A c \in Challenges : Challenged(r, c) => UNCHANGED ledger
        BY DEF Challenged
      <3>4. Paid(r) \/ PayFails(r) \/ Redeem(r) => UNCHANGED ledger
        BY DEF Paid, PayFails, Redeem
      <3>5. \A i \in TicketIds : IssueTicket(r, i) => UNCHANGED ledger
        BY DEF IssueTicket
      <3>6. \A i \in MatchIds, won \in BOOLEAN : Play(r, i, won) => UNCHANGED ledger
        BY DEF Play
      <3>7. PrizePaid(r) \/ PrizeFails(r) \/ Fail(r) => UNCHANGED ledger
        BY DEF PrizePaid, PrizeFails, Fail
      <3> QED BY <1>2, <2>1, <3>1, <3>2, <3>3, <3>4, <3>5, <3>6, <3>7 DEF Handler
    <2>2. \A r \in Requests, s \in Sessions : Call(r, s) => UNCHANGED ledger
      BY DEF Call, Submit, Register, Pay, Claim, Run
    <2>3. UNCHANGED ledger
      BY <2>1, <2>2 DEF Next, Reset, Restart, vars
    <2> QED BY <2>3 DEF LedgerGrows
  <1> QED BY <1>1, <1>2

\* The ledger loses a row only to a write whose snapshot another write had overtaken
\* (the append functions read and write in two transactions).
THEOREM OnlyRacesLoseRows == Spec => LossNeedsRace
  <1>1. Snapshots /\ [Next]_vars =>
           [LedgerGrows \/ \E r \in Requests : at[r] \in Writing /\ overtaken[r]]_vars
    BY WritesGrow
  <1> QED BY <1>1, TypedInit, TypedNext, SnapshotsInit, SnapshotsNext, PTL
    DEF Spec, LossNeedsRace
=============================================================================
