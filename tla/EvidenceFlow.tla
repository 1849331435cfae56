---------------------------- MODULE EvidenceFlow ----------------------------
(* The evidence API's payment walk-through (apps/evidence-api/src/index.ts).  *)
(* A session owns one flow object, kept in a map of at most FlowLimit entries,*)
(* and drives it with the routes unpaid, pay, continue, replay and reset.     *)
(* Every route but reset awaits something (the body, a hash, the middleware,  *)
(* the payer's node) between reading the flow and writing it, and nothing     *)
(* keeps two routes of one flow apart.  A runtime bootstrap replaces the      *)
(* middleware and the payer's node under all of them.  Each action below is   *)
(* one stretch of a route between two awaits, of the request in slot c;       *)
(* Console composes them with the clients that send the requests.             *)
EXTENDS Integers, Sequences, FiniteSets, SequencesExt

CONSTANTS
    MaxCalls,       \* bound: requests the server is serving at once
    Sessions,       \* values of the session header
    Resources,      \* protected resources of the catalogue
    Secrets,        \* signing secrets a runtime can be built with
    FlowLimit,      \* entries of the flow map, 16 in the code
    MaxChallenges,  \* bound: challenges ever issued
    MaxRuntimes,    \* bound: runtimes ever built
    None

ASSUME BoundsAssumption ==
    /\ FlowLimit \in Nat \ {0} /\ MaxCalls \in Nat
    /\ MaxChallenges \in Nat /\ MaxRuntimes \in Nat \ {0}
ASSUME NoneAssumption == None \notin Resources \cup Secrets \cup Sessions

VARIABLES
    flows,    \* the flow map: session and object, least recently used first
    flow,     \* the flow objects, those that only a handler still holds included
    runtime,  \* number and secret of the current runtime, secret None for no runtime
    issued,   \* every challenge issued: for whom, for what, by which runtime
    paid,     \* challenges the payer's node said it has paid
    served,   \* challenges whose redemption committed
    call,     \* what the request in each slot has captured and waits for
    overlap   \* history: objects on which two requests were open at once

flowVars == <<flows, flow, runtime, issued, paid, served, call, overlap>>

Calls == 1 .. MaxCalls
Fids == 1 .. (FlowLimit + MaxCalls + 1)
NoChallenge == 0
Challenges == 1 .. MaxChallenges
Runtimes == [no : 1 .. MaxRuntimes, secret : Secrets \cup {None}]
Verdicts == {"none", "served", "refused", "failed"}

\* The keys of EvidenceFlowState the routes write; body tells that the protected
\* resource answered the unpaid request, with a challenge or without.
Flow == [resource : Resources \cup {None}, challenge : Challenges \cup {NoChallenge},
         body : BOOLEAN, auth : Challenges \cup {NoChallenge},
         receipt : Challenges \cup {NoChallenge}, replay : Verdicts]

EmptyFlow == [resource |-> None, challenge |-> NoChallenge, body |-> FALSE,
              auth |-> NoChallenge, receipt |-> NoChallenge, replay |-> "none"]

Kinds == {"none", "unpaid", "pay", "continue", "replay", "bootstrap"}
Open == {"body", "hash", "issue", "pay", "present", "presented", "bootstrap"}

Call == [pc : Open \cup {"idle", "done"}, kind : Kinds, session : Sessions \cup {None},
         fid : Fids \cup {0}, resource : Resources \cup {None},
         challenge : Challenges \cup {NoChallenge}, runtime : Runtimes \cup {None},
         verdict : Verdicts, waited : BOOLEAN, ok : BOOLEAN, answer : Flow]

Idle == [pc |-> "idle", kind |-> "none", session |-> None, fid |-> 0, resource |-> None,
         challenge |-> NoChallenge, runtime |-> None, verdict |-> "none", waited |-> FALSE,
         ok |-> FALSE, answer |-> EmptyFlow]

FlowInit ==
    /\ flows = <<>>
    /\ flow = [f \in Fids |-> EmptyFlow]
    /\ runtime \in [no : {1}, secret : Secrets \cup {None}]
    /\ issued = <<>>
    /\ paid = {} /\ served = {} /\ overlap = {}
    /\ call = [c \in Calls |-> Idle]

-----------------------------------------------------------------------------
(* The flow map and its objects. *)

Kept(map, calls) == {map[i].fid : i \in DOMAIN map} \cup {calls[c].fid : c \in Calls}

\* The next state of map, requests and objects; an object neither the map nor a
\* handler refers to is gone.
Update(map, calls, objects, mixed) ==
    /\ flows' = map
    /\ call' = calls
    /\ flow' = [f \in Fids |-> IF f \in Kept(map, calls) THEN objects[f] ELSE EmptyFlow]
    /\ overlap' = mixed \cap Kept(map, calls)

Mine(s) == {i \in DOMAIN flows : flows[i].session = s}
FlowOf(s) == IF Mine(s) = {} THEN EmptyFlow
             ELSE flow[flows[CHOOSE i \in Mine(s) : TRUE].fid]

Fresh == CHOOSE f \in Fids \ Kept(flows, call) : TRUE

\* A plausible slip: a new session takes over the object of the one it evicts.
CurrentFlowRecycled(s) ==
    IF Mine(s) # {}
    THEN LET i == CHOOSE i \in Mine(s) : TRUE IN Append(RemoveAt(flows, i), flows[i])
    ELSE IF Len(flows) >= FlowLimit
    THEN Append(Tail(flows), [session |-> s, fid |-> Head(flows).fid])
    ELSE Append(flows, [session |-> s, fid |-> Fresh])

\* The map after currentFlow, with which every route begins: a known session
\* becomes the most recent one, a new one evicts the oldest of a full map.
CurrentFlow(s) ==
    IF Mine(s) # {}
    THEN LET i == CHOOSE i \in Mine(s) : TRUE IN Append(RemoveAt(flows, i), flows[i])
    ELSE Append(IF Len(flows) >= FlowLimit THEN Tail(flows) ELSE flows,
                [session |-> s, fid |-> Fresh])

OpenOn(f, c) == {d \in Calls \ {c} : call[d].pc \in Open /\ call[d].fid = f}

-----------------------------------------------------------------------------
(* Beginning and ending a request. *)

\* A request of s that leaves its object as start and waits as captured says.
Begin(s, c, w, start, captured) ==
    LET map == CurrentFlow(s)
        f == map[Len(map)].fid
        clean == IF start = EmptyFlow THEN overlap \ {f} ELSE overlap
    IN  Update(map, [call EXCEPT ![c] = [captured EXCEPT !.session = s, !.fid = f, !.waited = w]],
               [flow EXCEPT ![f] = start],
               IF OpenOn(f, c) = {} THEN clean ELSE clean \cup {f})

\* The answer carries the flow as it is when the route ends; clients read it only
\* from a success.
Answered(w, ok, now) ==
    IF w THEN [Idle EXCEPT !.pc = "done", !.waited = w, !.ok = ok,
                           !.answer = IF ok THEN now ELSE EmptyFlow]
    ELSE Idle

\* A request answered without an await: its flow stays or, for reset, is emptied.
Immediate(s, c, w, ok, now) ==
    LET map == CurrentFlow(s)
        f == map[Len(map)].fid
        clean == IF now = EmptyFlow THEN overlap \ {f} ELSE overlap
    IN  Update(map, [call EXCEPT ![c] = Answered(w, ok, now)], [flow EXCEPT ![f] = now],
               IF now = FlowOf(s) THEN overlap
               ELSE IF OpenOn(f, c) = {} THEN clean ELSE clean \cup {f})

\* A request between two awaits, and at its end.
Goes(c, captured, now) ==
    Update(flows, [call EXCEPT ![c] = captured], [flow EXCEPT ![call[c].fid] = now], overlap)

Ends(c, ok, now) == Goes(c, Answered(call[c].waited, ok, now), now)

At(c, pc) == call[c].pc = pc
Object(c) == flow[call[c].fid]
ledger == <<issued, paid, served>>

-----------------------------------------------------------------------------
(* POST /api/evidence/unpaid *)

\* The flow is emptied before the body is read.
Unpaid(s, c, w) ==
    /\ Len(issued) + Cardinality({d \in Calls : At(d, "body") \/ At(d, "hash") \/ At(d, "issue")})
         < MaxChallenges
    /\ Begin(s, c, w, EmptyFlow, [Idle EXCEPT !.pc = "body", !.kind = "unpaid"])
    /\ UNCHANGED <<runtime, ledger>>

UnpaidBody(c) ==
    /\ At(c, "body")
    /\ \E r \in Resources :
          Goes(c, [call[c] EXCEPT !.pc = "hash", !.resource = r], [Object(c) EXCEPT !.resource = r])
    /\ UNCHANGED <<runtime, ledger>>

UnpaidInvalid(c) ==
    /\ At(c, "body")
    /\ Ends(c, FALSE, Object(c))
    /\ UNCHANGED <<runtime, ledger>>

\* After the hash, protectResource takes the middleware of the runtime of now.
UnpaidHash(c) ==
    /\ At(c, "hash")
    /\ Goes(c, [call[c] EXCEPT !.pc = "issue", !.runtime = runtime], Object(c))
    /\ UNCHANGED <<runtime, ledger>>

UnpaidIssued(c) ==
    /\ At(c, "issue") /\ call[c].runtime.secret # None
    /\ issued' = Append(issued, [session |-> call[c].session, resource |-> call[c].resource,
                                 runtime |-> call[c].runtime])
    /\ Ends(c, TRUE, [Object(c) EXCEPT !.challenge = Len(issued) + 1, !.body = TRUE])
    /\ UNCHANGED <<runtime, paid, served>>

\* Without a runtime the answer is a 503 that has no challenge.
UnpaidUnavailable(c) ==
    /\ At(c, "issue") /\ call[c].runtime.secret = None
    /\ Ends(c, FALSE, [Object(c) EXCEPT !.challenge = NoChallenge, !.body = TRUE])
    /\ UNCHANGED <<runtime, ledger>>

-----------------------------------------------------------------------------
(* POST /api/evidence/pay *)

ChallengeReady(f) == f.challenge # NoChallenge /\ f.resource # None

Pay(s, c, w) ==
    LET f == FlowOf(s) IN
    /\ IF runtime.secret # None /\ ChallengeReady(f)
       THEN Begin(s, c, w, f, [Idle EXCEPT !.pc = "pay", !.kind = "pay", !.challenge = f.challenge])
       ELSE Immediate(s, c, w, FALSE, f)
    /\ UNCHANGED <<runtime, ledger>>

\* The credential of the challenge captured before the await goes into the flow
\* of after it.
PaySettles(c) ==
    /\ At(c, "pay")
    /\ paid' = paid \cup {call[c].challenge}
    /\ Ends(c, TRUE, [Object(c) EXCEPT !.auth = call[c].challenge])
    /\ UNCHANGED <<runtime, issued, served>>

\* An error of the payer's node, which may have paid all the same (Settlement).
PayFails(c) ==
    /\ At(c, "pay")
    /\ Ends(c, FALSE, Object(c))
    /\ UNCHANGED <<runtime, ledger>>

-----------------------------------------------------------------------------
(* POST /api/evidence/continue (or retry) and /api/evidence/replay *)

AuthorizationReady(f) == f.auth # NoChallenge /\ f.resource # None
ReplayReady(f) == AuthorizationReady(f) /\ f.receipt # NoChallenge

Presenting(s, c, w, kind, ready) ==
    LET f == FlowOf(s) IN
    /\ IF ready
       THEN Begin(s, c, w, f, [Idle EXCEPT !.pc = "present", !.kind = kind, !.resource = f.resource,
                                           !.challenge = f.auth, !.runtime = runtime])
       ELSE Immediate(s, c, w, FALSE, f)
    /\ UNCHANGED <<runtime, ledger>>

Continue(s, c, w) == Presenting(s, c, w, "continue", AuthorizationReady(FlowOf(s)))
Replay(s, c, w) == Presenting(s, c, w, "replay", ReplayReady(FlowOf(s)))

\* What the middleware of the captured runtime accepts (modelled in Middleware):
\* its own challenge, for this resource, paid and not yet redeemed.
Redeemable(c) ==
    LET i == issued[call[c].challenge] IN
    /\ call[c].runtime.secret # None
    /\ i.runtime.secret = call[c].runtime.secret
    /\ i.resource = call[c].resource
    /\ call[c].challenge \in paid \ served

\* A store that fails after the redemption turns the answer into a 5xx.
Present(c) ==
    /\ At(c, "present") /\ Redeemable(c)
    /\ served' = served \cup {call[c].challenge}
    /\ \E v \in {"served", "failed"} :
          Goes(c, [call[c] EXCEPT !.pc = "presented", !.verdict = v], Object(c))
    /\ UNCHANGED <<runtime, issued, paid>>

\* 402 when the credential does not verify or has expired; another status when a
\* store, the node or the handler fails or there is no runtime.
PresentRefused(c) ==
    /\ At(c, "present")
    /\ \E v \in {"refused", "failed"} :
          /\ v = "refused" => call[c].runtime.secret # None
          /\ Goes(c, [call[c] EXCEPT !.pc = "presented", !.verdict = v], Object(c))
    /\ UNCHANGED <<runtime, ledger>>

\* An invoice that cannot be made, for the unpaid request or for one refused, and a
\* store that fails twice, throw out of the route: it writes nothing.
ProtectThrows(c) ==
    /\ At(c, "issue") \/ At(c, "present")
    /\ call[c].runtime.secret # None
    /\ \/ UNCHANGED served
       \/ At(c, "present") /\ Redeemable(c) /\ served' = served \cup {call[c].challenge}
    /\ Ends(c, FALSE, Object(c))
    /\ UNCHANGED <<runtime, issued, paid>>

\* A plausible slip: the receipt is booked on the credential the flow has by now.
ContinueAnsweredLate(c) ==
    /\ At(c, "presented") /\ call[c].kind = "continue"
    /\ Ends(c, TRUE, [Object(c) EXCEPT !.receipt = IF call[c].verdict = "served"
                                                   THEN Object(c).auth ELSE NoChallenge])
    /\ UNCHANGED <<runtime, ledger>>

\* The receipt, or its absence, is written over what the flow has.
ContinueAnswered(c) ==
    /\ At(c, "presented") /\ call[c].kind = "continue"
    /\ Ends(c, TRUE, [Object(c) EXCEPT !.receipt = IF call[c].verdict = "served"
                                                   THEN call[c].challenge ELSE NoChallenge])
    /\ UNCHANGED <<runtime, ledger>>

ReplayAnswered(c) ==
    /\ At(c, "presented") /\ call[c].kind = "replay"
    /\ Ends(c, TRUE, [Object(c) EXCEPT !.replay = call[c].verdict])
    /\ UNCHANGED <<runtime, ledger>>

-----------------------------------------------------------------------------
(* Reset, status, and the replacement of the runtime. *)

Reset(s, c, w) ==
    /\ Immediate(s, c, w, TRUE, EmptyFlow)
    /\ UNCHANGED <<runtime, ledger>>

Status(s, c, w) ==
    /\ Immediate(s, c, w, TRUE, FlowOf(s))
    /\ UNCHANGED <<runtime, ledger>>

\* Any request of another session: it takes a place in the map.
Visit(s) ==
    /\ Update(CurrentFlow(s), call, flow, overlap)
    /\ UNCHANGED <<runtime, ledger>>

\* A plausible slip: the flows survive the runtime they were made with.
BootstrapKeepsFlows(s, c, w) ==
    LET map == CurrentFlow(s) IN
    /\ runtime.no < MaxRuntimes
    /\ \E k \in Secrets \cup {None} : runtime' = [no |-> runtime.no + 1, secret |-> k]
    /\ Update(map, [call EXCEPT ![c] = [Idle EXCEPT !.pc = "bootstrap", !.kind = "bootstrap",
                        !.session = s, !.fid = map[Len(map)].fid, !.waited = w]], flow, overlap)
    /\ UNCHANGED ledger

\* createFiberRuntime and resetAllFlows, in one stretch without an await: every
\* flow of the map is emptied, also those a handler holds.
Bootstrap(s, c, w) ==
    LET map == CurrentFlow(s)
        all == {map[i].fid : i \in DOMAIN map}
    IN  /\ runtime.no < MaxRuntimes
        /\ \E k \in Secrets \cup {None} : runtime' = [no |-> runtime.no + 1, secret |-> k]
        /\ Update(map,
                  [call EXCEPT ![c] = [Idle EXCEPT !.pc = "bootstrap", !.kind = "bootstrap",
                                           !.session = s, !.fid = map[Len(map)].fid, !.waited = w]],
                  [f \in Fids |-> IF f \in all THEN EmptyFlow ELSE flow[f]],
                  {f \in overlap \cup all : f \in all => OpenOn(f, c) # {}})
        /\ UNCHANGED ledger

\* The request is not allowed or the new runtime cannot be built: the old
\* runtime and every flow stay.
BootstrapRejected(s, c, w) ==
    /\ Immediate(s, c, w, FALSE, FlowOf(s))
    /\ UNCHANGED <<runtime, ledger>>

BootstrapAnswered(c) ==
    /\ At(c, "bootstrap")
    /\ Ends(c, TRUE, Object(c))
    /\ UNCHANGED <<runtime, ledger>>

\* Every stretch after the first of the request in slot c.
Serve(c) ==
    \/ UnpaidBody(c) \/ UnpaidInvalid(c) \/ UnpaidHash(c) \/ UnpaidIssued(c) \/ UnpaidUnavailable(c)
    \/ PaySettles(c) \/ PayFails(c)
    \/ Present(c) \/ PresentRefused(c) \/ ProtectThrows(c)
    \/ ContinueAnswered(c) \/ ReplayAnswered(c)
    \/ BootstrapAnswered(c)

-----------------------------------------------------------------------------
(* Properties. *)

FlowTypeOK ==
    /\ \A i \in DOMAIN flows : flows[i] \in [session : Sessions, fid : Fids]
    /\ Len(flows) <= FlowLimit
    /\ \A i, j \in DOMAIN flows : flows[i].session = flows[j].session => i = j
    /\ flow \in [Fids -> Flow]
    /\ runtime \in Runtimes
    /\ \A i \in DOMAIN issued :
          issued[i] \in [session : Sessions, resource : Resources, runtime : Runtimes]
    /\ paid \subseteq DOMAIN issued /\ served \subseteq paid
    /\ call \in [Calls -> Call]
    /\ overlap \subseteq Fids

\* A flow never claims what did not happen: a receipt stands for a committed
\* redemption, a credential for a challenge the payer's node was asked to pay,
\* in every interleaving of the routes, resets and bootstraps.
FlowTellsTheTruth ==
    \A f \in Fids : /\ flow[f].challenge <= Len(issued)
                    /\ flow[f].auth # NoChallenge => flow[f].auth \in paid
                    /\ flow[f].receipt # NoChallenge => flow[f].receipt \in served

\* One object's routes taken one at a time: resource, challenge, credential
\* and receipt all belong to one exchange with the current runtime, and a replay
\* is never served.  Only two open requests on one object can mix them.
SequentialFlowIsCoherent ==
    \A i \in DOMAIN flows :
        LET f == flow[flows[i].fid] IN
        flows[i].fid \notin overlap =>
            /\ f.challenge # NoChallenge => /\ issued[f.challenge].resource = f.resource
                                            /\ issued[f.challenge].runtime = runtime
            /\ f.auth \in {NoChallenge, f.challenge}
            /\ f.receipt \in {NoChallenge, f.auth}
            /\ f.replay # "served"

\* The map never hands one session's flow to another, evictions included: what a
\* flow holds was issued to its own session.
SessionsApart ==
    \A i \in DOMAIN flows :
        LET f == flow[flows[i].fid] IN
        \A n \in {f.challenge, f.auth, f.receipt} \ {NoChallenge} :
            issued[n].session = flows[i].session
=============================================================================
