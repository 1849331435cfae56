--------------------------- MODULE Console_proofs ---------------------------
(***************************************************************************)
(* Proofs about EvidenceFlow and Console, for any number of sessions,      *)
(* requests, resources and runtimes and any limit of the flow map: a flow  *)
(* tells the truth, belongs to one session and is coherent unless two      *)
(* requests had it open; the busy flag keeps the tab's requests apart and  *)
(* the screen shows nothing unearned.                                      *)
(***************************************************************************)
EXTENDS Console, TLAPS, SequenceTheorems, FiniteSetTheorems

-----------------------------------------------------------------------------
(* The inductive invariant                                                 *)

Entry == [session : Sessions, fid : Fids]
Issue == [session : Sessions, resource : Resources, runtime : Runtimes]
Pending == {d \in Calls : At(d, "body") \/ At(d, "hash") \/ At(d, "issue")}

\* The challenges still to be issued fit the bound.
Types ==
    /\ FlowTypeOK
    /\ flows \in Seq(Entry)
    /\ issued \in Seq(Issue)
    /\ Len(issued) + Cardinality(Pending) <= MaxChallenges

\* Session s has object f: in the map, or in the hands of one of its requests.
Owns(map, calls, s, f) ==
    \/ \E i \in DOMAIN map : map[i].session = s /\ map[i].fid = f
    \/ \E c \in Calls : calls[c].session = s /\ calls[c].fid = f

\* A request holds an object and its session as long as it is open.
Holds(k) ==
    IF k.pc \in Open THEN k.fid \in Fids /\ k.session \in Sessions
                     ELSE k.fid = 0 /\ k.session = None

\* An object has one owner, evicted or not; nobody's object is empty.
OwnersOK ==
    /\ \A f \in Fids, s, t \in Sessions :
          Owns(flows, call, s, f) /\ Owns(flows, call, t, f) => s = t
    /\ \A f \in Fids \ Kept(flows, call) : flow[f] = EmptyFlow
    /\ overlap \subseteq Kept(flows, call)
    /\ \A c \in Calls : Holds(call[c])

\* What flow f tells was done for session s.
Held(f) == {f.challenge, f.auth, f.receipt} \ {NoChallenge}
Own(s, f) ==
    /\ \A n \in Held(f) : issued[n].session = s
    /\ f.replay # "none" => \E n \in paid : issued[n].session = s

ObjectsOK == \A f \in Fids, s \in Sessions : Owns(flows, call, s, f) => Own(s, flow[f])

\* What a request captured stays true while it waits.
Sound(k) ==
    /\ k.pc \in {"hash", "issue"} => k.resource \in Resources
    /\ k.pc \in {"issue", "present"} => k.runtime \in Runtimes
    /\ k.pc = "pay" => k.challenge \in DOMAIN issued
    /\ k.pc \in {"present", "presented"} => k.challenge \in paid
    /\ k.pc \in {"pay", "present", "presented"} => issued[k.challenge].session = k.session
    /\ k.pc = "presented" /\ k.verdict = "served" => k.challenge \in served

CallsOK == \A c \in Calls : Sound(call[c])

\* FlowTellsTheTruth of one flow.
Truthful(f) ==
    /\ f.challenge <= Len(issued)
    /\ f.auth # NoChallenge => f.auth \in paid
    /\ f.receipt # NoChallenge => f.receipt \in served

TruthOK == \A f \in Fids : Truthful(flow[f])

SafeInv == Types /\ OwnersOK /\ ObjectsOK /\ CallsOK /\ TruthOK

\* One exchange with the current runtime.
Coherent(f) ==
    /\ f.challenge # NoChallenge => /\ issued[f.challenge].resource = f.resource
                                    /\ issued[f.challenge].runtime = runtime
    /\ f.auth \in {NoChallenge, f.challenge}
    /\ f.receipt \in {NoChallenge, f.auth}
    /\ f.replay # "served"

\* Request k captured what flow f has.
InStep(k, f) ==
    /\ k.pc \in {"body", "hash", "issue"} => f = [EmptyFlow EXCEPT !.resource = k.resource]
    /\ k.pc = "issue" => k.runtime = runtime
    /\ k.pc = "pay" => f.challenge = k.challenge
    /\ k.pc \in {"present", "presented"} => f.auth = k.challenge
    /\ k.kind = "replay" => /\ k.pc = "present" => k.challenge \in served
                            /\ k.pc = "presented" => k.verdict # "served"

OpenAt(f) == {c \in Calls : call[c].pc \in Open /\ call[c].fid = f}

\* An object of the map that no two requests had open at once.
CoherentAt(f) ==
    /\ Coherent(flow[f])
    /\ \A c, d \in OpenAt(f) : c = d
    /\ \A c \in OpenAt(f) : InStep(call[c], flow[f])

CoherenceOK == \A i \in DOMAIN flows : flows[i].fid \notin overlap => CoherentAt(flows[i].fid)

FlowInv == SafeInv /\ CoherenceOK

\* What the tab may show: a flow and a phase that its own session earned.
Earned(s, f) == Own(s, f) /\ Truthful(f)
EarnedPhase(p) ==
    /\ p \in {"payment_settled", "receipt_returned", "replay_rejected"} =>
          \E n \in paid : issued[n].session = Me
    /\ p = "receipt_returned" => \E n \in served : issued[n].session = Me

ScreenOK ==
    /\ Earned(Me, shown) /\ EarnedPhase(phase)
    /\ \A c \in Calls : Earned(Me, job[c].latest) /\ EarnedPhase(job[c].phase)

\* Whoever waits for an answer is the tab, and the answer is its own.
AnswersOK ==
    \A c \in Calls : /\ At(c, "done") => Earned(Me, call[c].answer)
                     /\ call[c].pc \in Open /\ call[c].waited => call[c].session = Me

JobsOK ==
    \A c \in Calls : /\ job[c].stage \in Unsent => At(c, "idle")
                     /\ job[c].stage = "resend" => job[c].name = "pay"
                     /\ job[c].stage = "none" <=> job[c].name = "none"
                     /\ job[c].name = "none" => job[c] = NoJob

\* No two requests had session s's object open.
Apart(s) == \A i \in Mine(s) : flows[i].fid \notin overlap

\* The server works on a request of the tab's session.
Working(c) == call[c].pc \in Open /\ call[c].session = Me

\* As long as nothing strayed, the tab has one request open and it is the running
\* function's; a function that does not set the flag runs alone, and no request but
\* a status read is on its way with nobody waiting for it.
BusyOK ==
    ~strayed =>
        /\ \A c \in Calls : Working(c) => c \in Running
        /\ \A c, d \in Running : c = d
        /\ busy \/ \A c \in Running : job[c].name = "select"
        /\ \A c \in Calls : job[c].stage = "lost" => job[c].name = "refresh"
        /\ Apart(Me)

IInv == TypeOK /\ FlowInv /\ AnswersOK /\ ScreenOK /\ JobsOK /\ BusyOK

-----------------------------------------------------------------------------
(* The flow map                                                            *)

\* Map.delete: the entries after the deleted one move up.
LEMMA RemoveAtProperties ==
  ASSUME NEW S, NEW q \in Seq(S), NEW i \in 1 .. Len(q)
  PROVE  /\ RemoveAt(q, i) \in Seq(S)
         /\ Len(RemoveAt(q, i)) = Len(q) - 1
         /\ \A j \in 1 .. Len(q) - 1 : RemoveAt(q, i)[j] = q[IF j < i THEN j ELSE j + 1]
<1>1. /\ SubSeq(q, 1, i - 1) \in Seq(S)
      /\ Len(SubSeq(q, 1, i - 1)) = i - 1
      /\ \A j \in 1 .. i - 1 : SubSeq(q, 1, i - 1)[j] = q[j]
  OBVIOUS
<1>2. /\ SubSeq(q, i + 1, Len(q)) \in Seq(S)
      /\ Len(SubSeq(q, i + 1, Len(q))) = Len(q) - i
      /\ \A j \in 1 .. Len(q) - i : SubSeq(q, i + 1, Len(q))[j] = q[i + j]
  OBVIOUS
<1> DEFINE a == SubSeq(q, 1, i - 1)
           b == SubSeq(q, i + 1, Len(q))
<1>3. RemoveAt(q, i) = a \o b
  BY DEF RemoveAt
<1> HIDE DEF a, b
<1>4. /\ a \in Seq(S) /\ Len(a) = i - 1 /\ \A j \in 1 .. i - 1 : a[j] = q[j]
      /\ b \in Seq(S) /\ Len(b) = Len(q) - i /\ \A j \in 1 .. Len(q) - i : b[j] = q[i + j]
  BY <1>1, <1>2 DEF a, b
<1>5. /\ a \o b \in Seq(S) /\ Len(a \o b) = Len(a) + Len(b)
      /\ \A j \in 1 .. Len(a) + Len(b) :
            (a \o b)[j] = IF j <= Len(a) THEN a[j] ELSE b[j - Len(a)]
  BY <1>4, ConcatProperties
<1>6. QED
  BY <1>3, <1>4, <1>5

\* There are more objects than places in the map and requests to hold them.
LEMMA FreshIsUnused == ASSUME Types PROVE Fresh \in Fids \ Kept(flows, call)
<1>1. SUFFICES ASSUME Fids \subseteq Kept(flows, call) PROVE FALSE
  BY DEF Fresh
<1>2. /\ FlowLimit \in Nat /\ MaxCalls \in Nat
      /\ Len(flows) \in Nat /\ Len(flows) <= FlowLimit /\ DOMAIN flows = 1 .. Len(flows)
  BY BoundsAssumption DEF Types, FlowTypeOK
<1> DEFINE InMap(f) == \E i \in DOMAIN flows : flows[i].fid = f
           place == [f \in Fids |->
                       IF InMap(f) THEN CHOOSE i \in DOMAIN flows : flows[i].fid = f
                       ELSE FlowLimit + (CHOOSE c \in Calls : call[c].fid = f)]
           T == 1 .. (FlowLimit + MaxCalls)
<1>3. ASSUME NEW f \in Fids
      PROVE  IF InMap(f) THEN place[f] \in 1 .. FlowLimit /\ flows[place[f]].fid = f
             ELSE \E e \in 1 .. MaxCalls : place[f] = FlowLimit + e /\ call[e].fid = f
  <2>1. CASE InMap(f)
    <3>1. PICK i \in DOMAIN flows : flows[i].fid = f
      BY <2>1
    <3>2. place[f] \in DOMAIN flows /\ flows[place[f]].fid = f
      BY <2>1, <3>1
    <3>3. QED
      BY <1>2, <2>1, <3>2
  <2>2. CASE ~InMap(f)
    <3>1. PICK c \in Calls : call[c].fid = f
      BY <1>1, <2>2 DEF Kept
    <3> DEFINE e == CHOOSE d \in Calls : call[d].fid = f
    <3>2. e \in Calls /\ call[e].fid = f
      BY <3>1
    <3>3. place[f] = FlowLimit + e
      BY <2>2
    <3> HIDE DEF e, place
    <3>4. QED
      BY <1>2, <2>2, <3>2, <3>3 DEF Calls
  <2>3. QED
    BY <2>1, <2>2
<1> HIDE DEF InMap, place
<1>4. place \in [Fids -> T]
  <2>1. \A f \in Fids : place[f] \in T
    BY <1>2, <1>3
  <2>2. place = [f \in Fids |-> place[f]]
    BY DEF place
  <2>3. QED
    BY <2>1, <2>2
<1>5. \A f, g \in Fids : place[f] = place[g] => f = g
  BY <1>2, <1>3
<1>6. /\ IsFiniteSet(Fids) /\ IsFiniteSet(T)
      /\ Cardinality(Fids) = FlowLimit + MaxCalls + 1
      /\ Cardinality(T) = FlowLimit + MaxCalls
  <2>1. FlowLimit + MaxCalls \in Nat
    BY <1>2
  <2>2. \A n \in Nat : IsFiniteSet(1 .. n) /\ Cardinality(1 .. n) = n
    BY FS_Interval
  <2>3. QED
    BY <2>1, <2>2 DEF Fids
<1>7. Cardinality(T) < Cardinality(Fids)
  BY <1>2, <1>6
<1> HIDE DEF T
<1>8. \E f, g \in Fids : f # g /\ place[f] = place[g]
  BY <1>4, <1>6, <1>7, FS_PigeonHole
<1>9. QED
  BY <1>5, <1>8

\* What currentFlow gives session s: object f, last of a map whose other entries
\* were in the map and belong to other sessions.
Gives(map, s, f) ==
    /\ map \in Seq(Entry) /\ Len(map) \in 1 .. FlowLimit
    /\ map[Len(map)] = [session |-> s, fid |-> f]
    /\ \A i, j \in DOMAIN map : map[i].session = map[j].session => i = j
    /\ \A i \in 1 .. Len(map) - 1 :
          map[i].fid # f /\ \E j \in DOMAIN flows : map[i] = flows[j]

\* The object is the session's own and shows its flow, or it is a new one.
Takes(s, f) ==
    /\ f \in Fids
    /\ flow[f] = FlowOf(s)
    /\ \A t \in Sessions : Owns(flows, call, t, f) => t = s
    /\ \/ \E i \in DOMAIN flows : flows[i] = [session |-> s, fid |-> f]
       \/ f \notin Kept(flows, call)

LEMMA CurrentFlowGives ==
  ASSUME Types, OwnersOK, NEW s \in Sessions
  PROVE  LET map == CurrentFlow(s)
             f == map[Len(map)].fid
         IN  Gives(map, s, f) /\ Takes(s, f)
<1> DEFINE map == CurrentFlow(s)
           n == Len(map)
           f == map[n].fid
<1>1. /\ flows \in Seq(Entry) /\ DOMAIN flows = 1 .. Len(flows)
      /\ Len(flows) \in Nat /\ Len(flows) <= FlowLimit /\ FlowLimit \in Nat \ {0}
      /\ \A i, j \in 1 .. Len(flows) : flows[i].session = flows[j].session => i = j
      /\ \A i \in 1 .. Len(flows) : flows[i] \in Entry
  BY BoundsAssumption DEF Types, FlowTypeOK
<1>2. ASSUME NEW i \in DOMAIN flows, NEW j \in DOMAIN flows, flows[i].fid = flows[j].fid
      PROVE  i = j
  <2>1. /\ flows[i].fid \in Fids /\ flows[i].session \in Sessions /\ flows[j].session \in Sessions
        /\ Owns(flows, call, flows[i].session, flows[i].fid)
        /\ Owns(flows, call, flows[j].session, flows[i].fid)
    BY <1>1, <1>2 DEF Entry, Owns
  <2>2. flows[i].session = flows[j].session
    BY <2>1 DEF OwnersOK
  <2>3. QED
    BY <1>1, <2>2
<1>3. CASE Mine(s) # {}
  <2> DEFINE k == CHOOSE i \in Mine(s) : TRUE
  <2>1. k \in Mine(s) /\ k \in 1 .. Len(flows) /\ flows[k].session = s
    BY <1>1, <1>3 DEF Mine
  <2>2. /\ RemoveAt(flows, k) \in Seq(Entry)
        /\ Len(RemoveAt(flows, k)) = Len(flows) - 1
        /\ \A j \in 1 .. Len(flows) - 1 :
              RemoveAt(flows, k)[j] = flows[IF j < k THEN j ELSE j + 1]
    BY <1>1, <2>1, RemoveAtProperties
  <2>3. map = Append(RemoveAt(flows, k), flows[k])
    BY <1>3 DEF CurrentFlow
  <2>4. FlowOf(s) = flow[flows[k].fid]
    BY <1>3 DEF FlowOf
  <2> HIDE DEF k, map
  <2>5. /\ map \in Seq(Entry) /\ n = Len(flows) /\ map[n] = flows[k]
        /\ \A j \in 1 .. n - 1 : map[j] = flows[IF j < k THEN j ELSE j + 1]
    <3> DEFINE rest == RemoveAt(flows, k)
               e == flows[k]
    <3>1. /\ rest \in Seq(Entry) /\ e \in Entry
          /\ Len(rest) = Len(flows) - 1 /\ map = Append(rest, e)
          /\ \A j \in 1 .. Len(flows) - 1 : rest[j] = flows[IF j < k THEN j ELSE j + 1]
      BY <1>1, <2>1, <2>2, <2>3
    <3> HIDE DEF rest, e
    <3>2. /\ Append(rest, e) \in Seq(Entry)
          /\ Len(Append(rest, e)) = Len(rest) + 1
          /\ \A i \in 1 .. Len(rest) : Append(rest, e)[i] = rest[i]
          /\ Append(rest, e)[Len(rest) + 1] = e
      BY <3>1, AppendProperties
    <3>3. /\ map \in Seq(Entry) /\ n = Len(flows) /\ map[n] = e
          /\ \A j \in 1 .. n - 1 : map[j] = rest[j]
      BY <1>1, <3>1, <3>2
    <3>4. QED
      BY <1>1, <3>1, <3>3 DEF e
  <2>6. DOMAIN map = 1 .. n /\ n \in 1 .. FlowLimit
    BY <1>1, <2>1, <2>5
  <2>7. map[n] = [session |-> s, fid |-> f]
    BY <1>1, <2>1, <2>5 DEF Entry
  <2>8. ASSUME NEW i \in DOMAIN map, NEW j \in DOMAIN map, map[i].session = map[j].session
        PROVE  i = j
    <3> DEFINE old(x) == IF x = n THEN k ELSE IF x < k THEN x ELSE x + 1
    <3>1. /\ map[i] = flows[old(i)] /\ old(i) \in 1 .. Len(flows)
          /\ map[j] = flows[old(j)] /\ old(j) \in 1 .. Len(flows)
      BY <1>1, <2>1, <2>5, <2>6
    <3>2. old(i) = old(j)
      BY <1>1, <2>8, <3>1
    <3>3. QED
      BY <1>1, <2>1, <2>5, <2>6, <3>2
  <2>9. ASSUME NEW i \in 1 .. n - 1
        PROVE  map[i].fid # f /\ \E j \in DOMAIN flows : map[i] = flows[j]
    <3> DEFINE j == IF i < k THEN i ELSE i + 1
    <3>1. j \in DOMAIN flows /\ map[i] = flows[j] /\ j # k /\ k \in DOMAIN flows
      BY <1>1, <2>1, <2>5
    <3>2. flows[j].fid # flows[k].fid
      BY <1>2, <3>1
    <3>3. QED
      BY <2>5, <3>1, <3>2
  <2>10. Gives(map, s, f)
    BY <2>5, <2>6, <2>7, <2>8, <2>9 DEF Gives
  <2>11. f \in Fids /\ flow[f] = FlowOf(s)
    BY <1>1, <2>1, <2>4, <2>5 DEF Entry
  <2>12. \E i \in DOMAIN flows : flows[i] = [session |-> s, fid |-> f]
    BY <1>1, <2>1, <2>5, <2>7
  <2>13. ASSUME NEW t \in Sessions, Owns(flows, call, t, f) PROVE t = s
    <3>1. Owns(flows, call, s, f)
      BY <1>1, <2>1, <2>5 DEF Owns
    <3>2. QED
      BY <2>11, <2>13, <3>1 DEF OwnersOK
  <2>14. QED
    BY <2>10, <2>11, <2>12, <2>13 DEF Takes, map
<1>4. CASE Mine(s) = {}
  <2> DEFINE room == IF Len(flows) >= FlowLimit THEN Tail(flows) ELSE flows
             shift == IF Len(flows) >= FlowLimit THEN 1 ELSE 0
             e == [session |-> s, fid |-> Fresh]
  <2>1. Fresh \in Fids /\ Fresh \notin Kept(flows, call)
    BY FreshIsUnused
  <2>2. /\ room \in Seq(Entry) /\ Len(room) = Len(flows) - shift
        /\ shift \in 0 .. 1 /\ Len(room) < FlowLimit
        /\ \A j \in 1 .. Len(room) : room[j] = flows[j + shift] /\ j + shift \in DOMAIN flows
    <3>1. CASE Len(flows) >= FlowLimit
      <4>1. flows # << >>
        BY <1>1, <3>1
      <4>2. /\ Tail(flows) \in Seq(Entry) /\ Len(Tail(flows)) = Len(flows) - 1
            /\ \A j \in 1 .. Len(Tail(flows)) : Tail(flows)[j] = flows[j + 1]
        BY <1>1, <4>1, HeadTailProperties
      <4>3. QED
        BY <1>1, <3>1, <4>2
    <3>2. CASE ~(Len(flows) >= FlowLimit)
      BY <1>1, <3>2
    <3>3. QED
      BY <3>1, <3>2
  <2>3. e \in Entry
    BY <2>1 DEF Entry
  <2>4. map = Append(room, e)
    BY <1>4 DEF CurrentFlow
  <2> HIDE DEF room, shift, map
  <2>5. /\ map \in Seq(Entry) /\ n = Len(room) + 1 /\ map[n] = e
        /\ \A j \in 1 .. n - 1 : map[j] = flows[j + shift] /\ j + shift \in DOMAIN flows
    <3>1. /\ Append(room, e) \in Seq(Entry)
          /\ Len(Append(room, e)) = Len(room) + 1
          /\ \A i \in 1 .. Len(room) : Append(room, e)[i] = room[i]
          /\ Append(room, e)[Len(room) + 1] = e
      BY <2>2, <2>3, AppendProperties
    <3>2. Len(room) \in Nat
      BY <2>2
    <3> HIDE DEF e
    <3>3. QED
      BY <2>2, <2>4, <3>1, <3>2
  <2>6. DOMAIN map = 1 .. n /\ n \in 1 .. FlowLimit /\ Len(room) \in Nat
    BY <1>1, <2>2, <2>5
  <2>7. f = Fresh /\ map[n] = [session |-> s, fid |-> f]
    BY <2>5
  <2>8. ASSUME NEW j \in DOMAIN flows PROVE flows[j].session # s /\ flows[j].fid # f
    BY <1>4, <2>1, <2>7, <2>8 DEF Mine, Kept
  <2>9. ASSUME NEW i \in DOMAIN map, NEW j \in DOMAIN map, map[i].session = map[j].session
        PROVE  i = j
    <3>1. CASE i = n /\ j = n
      BY <3>1
    <3>2. CASE i # n /\ j # n
      <4>1. /\ map[i] = flows[i + shift] /\ i + shift \in DOMAIN flows
            /\ map[j] = flows[j + shift] /\ j + shift \in DOMAIN flows
        BY <2>5, <2>6, <3>2
      <4>2. i + shift = j + shift
        BY <1>1, <2>9, <4>1
      <4>3. QED
        BY <2>2, <2>6, <4>2
    <3>3. CASE i # n /\ j = n
      <4>1. map[i] = flows[i + shift] /\ i + shift \in DOMAIN flows /\ map[j].session = s
        BY <2>5, <2>6, <2>7, <3>3
      <4>2. QED
        BY <2>8, <2>9, <4>1
    <3>4. CASE i = n /\ j # n
      <4>1. map[j] = flows[j + shift] /\ j + shift \in DOMAIN flows /\ map[i].session = s
        BY <2>5, <2>6, <2>7, <3>4
      <4>2. QED
        BY <2>8, <2>9, <4>1
    <3>5. QED
      BY <3>1, <3>2, <3>3, <3>4
  <2>10. ASSUME NEW i \in 1 .. n - 1
         PROVE  map[i].fid # f /\ \E j \in DOMAIN flows : map[i] = flows[j]
    BY <2>5, <2>8
  <2>11. Gives(map, s, f)
    BY <2>5, <2>6, <2>7, <2>9, <2>10 DEF Gives
  <2>12. f \in Fids /\ f \notin Kept(flows, call) /\ flow[f] = FlowOf(s)
    BY <1>4, <2>1, <2>7 DEF OwnersOK, FlowOf
  <2>13. \A t \in Sessions : ~Owns(flows, call, t, f)
    BY <2>12 DEF Owns, Kept
  <2>14. QED
    BY <2>11, <2>12, <2>13 DEF Takes, map
<1>5. QED
  BY <1>3, <1>4

-----------------------------------------------------------------------------
(* What a step of one request preserves                                    *)

\* Challenges, payments and redemptions are never taken back.
Grows ==
    /\ DOMAIN issued \subseteq DOMAIN issued'
    /\ \A n \in DOMAIN issued : issued'[n] = issued[n]
    /\ paid \subseteq paid' /\ served \subseteq served'

\* A step of the request in slot c, if it is one, on object f of session s.
Frame(c, s, f) ==
    /\ \A d \in Calls \ {c} : call'[d] = call[d]
    /\ \A g \in Fids \ {f} : flow'[g] \in {flow[g], EmptyFlow}
    /\ \A g \in Fids \ Kept(flows', call') : flow'[g] = EmptyFlow
    /\ overlap' \subseteq Kept(flows', call')
    /\ \A i \in DOMAIN flows' : \/ flows'[i] = [session |-> s, fid |-> f]
                                \/ \E j \in DOMAIN flows : flows'[i] = flows[j]
    /\ c \in Calls => call'[c].fid \in {0, f} /\ (call'[c].fid = f => call'[c].session = s)

LEMMA FlowTypes ==
  /\ NoChallenge \notin Challenges
  /\ EmptyFlow \in Flow /\ Held(EmptyFlow) = {} /\ EmptyFlow.replay = "none"
  /\ \A f \in Flow : Held(f) \subseteq Challenges
BY DEF NoChallenge, Challenges, EmptyFlow, Flow, Held, Verdicts

\* What a truthful flow holds has been issued.
LEMMA HeldIsIssued ==
  ASSUME Types, NEW f \in Flow, Truthful(f)
  PROVE  Held(f) \subseteq DOMAIN issued
<1>1. DOMAIN issued = 1 .. Len(issued) /\ Len(issued) \in Nat
  BY DEF Types
<1>2. f.challenge \in Challenges => f.challenge \in DOMAIN issued
  BY <1>1, BoundsAssumption DEF Truthful, Challenges
<1>3. f.challenge \in Challenges \cup {NoChallenge}
  BY DEF Flow
<1>4. QED
  BY <1>2, <1>3 DEF Held, Truthful, Types, FlowTypeOK

LEMMA OwnGrows ==
  ASSUME Types, Grows, NEW s, NEW f \in Flow, Truthful(f), Own(s, f)
  PROVE  Own(s, f)'
<1>1. Held(f) \subseteq DOMAIN issued /\ paid \subseteq DOMAIN issued
  BY HeldIsIssued DEF Types, FlowTypeOK
<1>2. QED
  BY <1>1 DEF Own, Grows, Held

LEMMA TruthfulGrows ==
  ASSUME Types, Types', Grows, NEW f \in Flow, Truthful(f)
  PROVE  Truthful(f)'
<1>1. Len(issued) <= Len(issued')
  <2>1. /\ DOMAIN issued = 1 .. Len(issued) /\ Len(issued) \in Nat
        /\ DOMAIN issued' = 1 .. Len(issued') /\ Len(issued') \in Nat
    BY DEF Types
  <2>2. QED
    BY <2>1 DEF Grows
<1>2. f.challenge \in Nat /\ Len(issued) \in Nat /\ Len(issued') \in Nat
  BY BoundsAssumption DEF Types, Flow, Challenges, NoChallenge
<1>3. QED
  BY <1>1, <1>2 DEF Truthful, Grows

LEMMA SoundGrows ==
  ASSUME Types, Grows, NEW k, Sound(k)
  PROVE  Sound(k)'
BY DEF Sound, Grows, Types, FlowTypeOK

LEMMA EmptyIsSafe ==
  ASSUME Types, NEW s
  PROVE  Own(s, EmptyFlow) /\ Truthful(EmptyFlow)
<1>1. Len(issued) \in Nat
  BY DEF Types
<1>2. /\ EmptyFlow.challenge = 0 /\ EmptyFlow.auth = NoChallenge /\ EmptyFlow.receipt = NoChallenge
      /\ EmptyFlow.replay = "none"
  BY DEF EmptyFlow, NoChallenge
<1>3. QED
  BY <1>1, <1>2, FlowTypes DEF Own, Truthful

LEMMA FrameSafe ==
  ASSUME SafeInv, Types', Grows,
         NEW c, NEW s \in Sessions, NEW f \in Fids, Frame(c, s, f),
         \A t \in Sessions : Owns(flows, call, t, f) => t = s,
         c \in Calls => Holds(call[c])' /\ Sound(call[c])', Own(s, flow[f])', Truthful(flow[f])'
  PROVE  SafeInv'
<1>1. ASSUME NEW g \in Fids, NEW t \in Sessions, Owns(flows', call', t, g)
      PROVE  Owns(flows, call, t, g) \/ (t = s /\ g = f)
  <2>1. ASSUME NEW i \in DOMAIN flows', flows'[i].session = t, flows'[i].fid = g
        PROVE  Owns(flows, call, t, g) \/ (t = s /\ g = f)
    BY <2>1 DEF Frame, Owns
  <2>2. ASSUME NEW d \in Calls, call'[d].session = t, call'[d].fid = g
        PROVE  Owns(flows, call, t, g) \/ (t = s /\ g = f)
    <3>1. CASE d = c
      BY <2>2, <3>1 DEF Frame, Fids
    <3>2. CASE d # c
      BY <2>2, <3>2 DEF Frame, Owns
    <3>3. QED
      BY <3>1, <3>2
  <2>3. QED
    BY <1>1, <2>1, <2>2 DEF Owns
<1>2. OwnersOK'
  <2>1. ASSUME NEW g \in Fids, NEW t \in Sessions, NEW u \in Sessions,
               Owns(flows', call', t, g), Owns(flows', call', u, g)
        PROVE  t = u
    <3>1. CASE g = f
      BY <1>1, <2>1, <3>1
    <3>2. CASE g # f
      BY <1>1, <2>1, <3>2 DEF SafeInv, OwnersOK
    <3>3. QED
      BY <3>1, <3>2
  <2>2. ASSUME NEW d \in Calls PROVE Holds(call'[d])
    BY <2>2 DEF SafeInv, OwnersOK, Frame
  <2>3. QED
    BY <2>1, <2>2 DEF OwnersOK, Frame
<1>3. flow \in [Fids -> Flow] /\ flow' \in [Fids -> Flow]
  BY DEF SafeInv, Types, FlowTypeOK
<1>4. TruthOK'
  <2> SUFFICES ASSUME NEW g \in Fids PROVE Truthful(flow[g])'
    BY DEF TruthOK
  <2>1. CASE g = f
    BY <2>1
  <2>2. CASE flow'[g] = EmptyFlow
    BY <2>2, EmptyIsSafe, TruthfulGrows, FlowTypes DEF SafeInv
  <2>3. CASE flow'[g] = flow[g]
    <3>1. Truthful(flow[g])
      BY DEF SafeInv, TruthOK
    <3>2. PICK x \in Flow : x = flow[g]
      BY <1>3
    <3>3. Truthful(x)'
      BY <3>1, <3>2, TruthfulGrows DEF SafeInv
    <3>4. QED
      BY <2>3, <3>2, <3>3
  <2>4. QED
    BY <2>1, <2>2, <2>3 DEF Frame
<1>5. ObjectsOK'
  <2> SUFFICES ASSUME NEW g \in Fids, NEW t \in Sessions, Owns(flows', call', t, g)
               PROVE  Own(t, flow[g])'
    BY DEF ObjectsOK
  <2>1. CASE g = f
    BY <1>1, <2>1
  <2>2. CASE flow'[g] = EmptyFlow
    <3>1. Own(t, EmptyFlow)'
      BY EmptyIsSafe, OwnGrows, FlowTypes DEF SafeInv
    <3>2. QED
      BY <2>2, <3>1
  <2>3. CASE flow'[g] = flow[g] /\ g # f
    <3>1. PICK x \in Flow : x = flow[g]
      BY <1>3
    <3>2. Owns(flows, call, t, g)
      BY <1>1, <2>3
    <3>3. Own(t, x) /\ Truthful(x)
      BY <3>1, <3>2 DEF SafeInv, ObjectsOK, TruthOK
    <3>4. Own(t, x)'
      BY <3>3, OwnGrows DEF SafeInv
    <3>5. QED
      BY <2>3, <3>1, <3>4
  <2>4. QED
    BY <2>1, <2>2, <2>3 DEF Frame
<1>6. CallsOK'
  <2> SUFFICES ASSUME NEW d \in Calls PROVE Sound(call[d])'
    BY DEF CallsOK
  <2>1. CASE d = c
    BY <2>1
  <2>2. CASE d # c
    <3>1. PICK k : k = call[d]
      OBVIOUS
    <3>2. Sound(k)'
      BY <3>1, SoundGrows DEF SafeInv, CallsOK
    <3>3. call'[d] = k
      BY <2>2, <3>1 DEF Frame
    <3>4. QED
      BY <3>2, <3>3
  <2>3. QED
    BY <2>1, <2>2
<1>7. QED
  BY <1>2, <1>4, <1>5, <1>6 DEF SafeInv

-----------------------------------------------------------------------------
(* The shapes of a step: a request begins, or goes on                      *)

\* The requests that will issue a challenge, when slot c changes.
LEMMA PendingStep ==
  ASSUME Types, NEW c \in Calls, \A d \in Calls \ {c} : call'[d] = call[d]
  PROVE  /\ Cardinality(Pending) \in Nat /\ Cardinality(Pending') \in Nat
         /\ Cardinality(Pending') <= Cardinality(Pending) + 1
         /\ (c \notin Pending' \/ c \in Pending) => Cardinality(Pending') <= Cardinality(Pending)
         /\ c \in Pending \ Pending' => Cardinality(Pending') + 1 = Cardinality(Pending)
<1>1. IsFiniteSet(Calls) /\ Pending \in SUBSET Calls /\ Pending' \in SUBSET Calls
  BY FS_Interval, BoundsAssumption DEF Calls, Pending
<1>2. IsFiniteSet(Pending) /\ IsFiniteSet(Pending')
  BY <1>1, FS_Subset
<1>3. Cardinality(Pending) \in Nat /\ Cardinality(Pending') \in Nat
  BY <1>2, FS_CardinalityType
<1>4. Pending \ {c} = Pending' \ {c}
  BY DEF Pending, At
<1>5. /\ Pending' \in SUBSET (Pending \cup {c})
      /\ (c \notin Pending' \/ c \in Pending) => Pending' \in SUBSET Pending
      /\ c \in Pending \ Pending' => Pending' = Pending \ {c}
  BY <1>4
<1>6. /\ IsFiniteSet(Pending \cup {c})
      /\ Cardinality(Pending \cup {c}) = IF c \in Pending THEN Cardinality(Pending)
                                                          ELSE Cardinality(Pending) + 1
  BY <1>2, FS_AddElement
<1>7. Cardinality(Pending') <= Cardinality(Pending \cup {c})
  BY <1>5, <1>6, FS_Subset
<1>8. ASSUME c \notin Pending' \/ c \in Pending
      PROVE  Cardinality(Pending') <= Cardinality(Pending)
  BY <1>2, <1>5, <1>8, FS_Subset
<1>9. ASSUME c \in Pending \ Pending'
      PROVE  Cardinality(Pending') + 1 = Cardinality(Pending)
  <2>1. Cardinality(Pending \ {c}) = Cardinality(Pending) - 1
    BY <1>2, <1>9, FS_RemoveElement
  <2>2. QED
    BY <1>3, <1>5, <1>9, <2>1
<1>10. QED
  BY <1>3, <1>6, <1>7, <1>8, <1>9

\* currentFlow gave session s object f, which becomes start.
Opened(s, c, f, start) ==
    /\ Gives(flows', s, f) /\ Takes(s, f)
    /\ call' \in [Calls -> Call]
    /\ \A d \in Calls \ {c} : call'[d] = call[d]
    /\ c \in Calls => call'[c].fid \in {0, f} /\ (call'[c].fid = f => call'[c].session = s)
    /\ flow' \in [Fids -> Flow]
    /\ flow'[f] = start
    /\ \A g \in (Fids \ {f}) \cap Kept(flows', call') : flow'[g] = flow[g]
    /\ \A g \in Fids \ Kept(flows', call') : flow'[g] = EmptyFlow
    /\ overlap' \subseteq Kept(flows', call') \cap Fids

LEMMA KeptLast ==
  ASSUME NEW map, NEW calls, NEW s, NEW f, Gives(map, s, f)
  PROVE  f \in Kept(map, calls)
<1>1. Len(map) \in DOMAIN map /\ map[Len(map)].fid = f
  BY BoundsAssumption DEF Gives
<1>2. QED
  BY <1>1 DEF Kept

LEMMA OpenedFrame ==
  ASSUME SafeInv, NEW c, NEW s \in Sessions, NEW f \in Fids, NEW start \in Flow,
         Opened(s, c, f, start), runtime' \in Runtimes, UNCHANGED <<issued, paid, served>>,
         Len(issued) + Cardinality(Pending') <= MaxChallenges
  PROVE  Types' /\ Grows /\ Frame(c, s, f) /\ \A t \in Sessions : Owns(flows, call, t, f) => t = s
<1>1. FlowTypeOK'
  <2>1. \A i \in DOMAIN flows' : flows'[i] \in Entry
    BY DEF Opened, Gives
  <2>2. Len(flows') <= FlowLimit
    BY BoundsAssumption DEF Opened, Gives
  <2>3. QED
    BY <2>1, <2>2 DEF Opened, Gives, FlowTypeOK, Entry, SafeInv, Types
<1>2. Types'
  BY <1>1 DEF SafeInv, Types, Opened, Gives
<1>3. Frame(c, s, f)
  <2>1. ASSUME NEW i \in DOMAIN flows'
        PROVE  flows'[i] = [session |-> s, fid |-> f] \/ \E j \in DOMAIN flows : flows'[i] = flows[j]
    <3>1. i = Len(flows') \/ i \in 1 .. Len(flows') - 1
      BY <1>2 DEF Types
    <3>2. QED
      BY <3>1 DEF Opened, Gives
  <2>2. QED
    BY <2>1 DEF Opened, Frame
<1>4. QED
  BY <1>2, <1>3 DEF Grows, Opened, Takes

\* The flow of a session is truthful and its own.
LEMMA FlowOfIsSafe ==
  ASSUME SafeInv, NEW s \in Sessions
  PROVE  FlowOf(s) \in Flow /\ Own(s, FlowOf(s)) /\ Truthful(FlowOf(s))
<1>1. CASE Mine(s) = {}
  BY <1>1, EmptyIsSafe, FlowTypes DEF FlowOf, SafeInv
<1>2. CASE Mine(s) # {}
  <2> DEFINE i == CHOOSE j \in Mine(s) : TRUE
  <2>1. i \in DOMAIN flows /\ flows[i].session = s
    BY <1>2 DEF Mine
  <2>2. FlowOf(s) = flow[flows[i].fid]
    BY <1>2 DEF FlowOf
  <2> HIDE DEF i
  <2>3. flows[i].fid \in Fids
    BY <2>1 DEF SafeInv, Types, FlowTypeOK
  <2>4. Owns(flows, call, s, flows[i].fid)
    BY <2>1 DEF Owns
  <2>5. QED
    BY <2>2, <2>3, <2>4 DEF SafeInv, ObjectsOK, TruthOK, Types, FlowTypeOK
<1>3. QED
  BY <1>1, <1>2

Captured(k, s, f, w) == [k EXCEPT !.session = s, !.fid = f, !.waited = w]

LEMMA CapturedType ==
  ASSUME NEW k \in Call, NEW s \in Sessions, NEW f \in Fids, NEW w \in BOOLEAN
  PROVE  /\ Captured(k, s, f, w) \in Call
         /\ Captured(k, s, f, w).fid = f /\ Captured(k, s, f, w).session = s
         /\ Captured(k, s, f, w).waited = w /\ Captured(k, s, f, w).pc = k.pc
         /\ Captured(k, s, f, w).kind = k.kind /\ Captured(k, s, f, w).resource = k.resource
         /\ Captured(k, s, f, w).challenge = k.challenge
         /\ Captured(k, s, f, w).runtime = k.runtime /\ Captured(k, s, f, w).verdict = k.verdict
BY DEF Captured, Call

\* The objects two requests had open, after a step that leaves f as start.
Mixed(c, f, start, same) ==
    IF same THEN overlap
    ELSE IF OpenOn(f, c) # {} THEN overlap \cup {f}
    ELSE IF start = EmptyFlow THEN overlap \ {f}
    ELSE overlap

LEMMA BeginOpens ==
  ASSUME SafeInv, NEW c \in Calls, NEW s \in Sessions, NEW w \in BOOLEAN,
         NEW start \in Flow, NEW k \in Call, Begin(s, c, w, start, k)
  PROVE  \E f \in Fids : /\ Opened(s, c, f, start)
                         /\ call'[c] = Captured(k, s, f, w)
                         /\ overlap' = Mixed(c, f, start, FALSE) \cap Kept(flows', call')
<1> DEFINE map == CurrentFlow(s)
<1>1. PICK f \in Fids : f = map[Len(map)].fid /\ Gives(map, s, f) /\ Takes(s, f)
  BY CurrentFlowGives DEF SafeInv, Takes
<1> HIDE DEF map
<1> DEFINE n == Captured(k, s, f, w)
           mixed == IF OpenOn(f, c) = {}
                    THEN (IF start = EmptyFlow THEN overlap \ {f} ELSE overlap)
                    ELSE (IF start = EmptyFlow THEN overlap \ {f} ELSE overlap) \cup {f}
<1>2. Update(map, [call EXCEPT ![c] = n], [flow EXCEPT ![f] = start], mixed)
  BY <1>1 DEF Begin, Captured, map
<1>3. n \in Call /\ n.fid = f /\ n.session = s
  BY CapturedType
<1>4. flow \in [Fids -> Flow] /\ call \in [Calls -> Call] /\ overlap \subseteq Fids
  BY DEF SafeInv, Types, FlowTypeOK
<1> HIDE DEF n
<1>5. flows' = map /\ call' = [call EXCEPT ![c] = n]
  BY <1>2 DEF Update
<1>6. f \in Kept(flows', call')
  BY <1>1, <1>5, KeptLast
<1>7. /\ flow' = [g \in Fids |-> IF g \in Kept(flows', call')
                                 THEN [flow EXCEPT ![f] = start][g] ELSE EmptyFlow]
      /\ overlap' = mixed \cap Kept(flows', call')
  BY <1>2, <1>5 DEF Update
<1>8. flow' \in [Fids -> Flow] /\ flow'[f] = start
  BY <1>4, <1>6, <1>7, FlowTypes
<1>9. Opened(s, c, f, start)
  BY <1>1, <1>3, <1>4, <1>5, <1>7, <1>8 DEF Opened
<1>10. mixed = Mixed(c, f, start, FALSE)
  BY DEF Mixed
<1>11. QED
  BY <1>5, <1>7, <1>9, <1>10, <1>4 DEF n

LEMMA IdleType == Idle \in Call
<1>1. "none" \in Kinds /\ NoChallenge \in Challenges \cup {NoChallenge}
  BY DEF Kinds
<1>2. /\ None \in Sessions \cup {None} /\ 0 \in Fids \cup {0}
      /\ None \in Resources \cup {None} /\ None \in Runtimes \cup {None}
      /\ "idle" \in Open \cup {"idle", "done"} /\ "none" \in Verdicts
  BY DEF Verdicts
<1>3. QED
  BY <1>1, <1>2, FlowTypes DEF Idle, Call

\* The answer to a request.
LEMMA AnsweredType ==
  ASSUME NEW w \in BOOLEAN, NEW ok \in BOOLEAN, NEW now \in Flow
  PROVE  /\ Answered(w, ok, now) \in Call
         /\ Answered(w, ok, now).pc = (IF w THEN "done" ELSE "idle")
         /\ Answered(w, ok, now).fid = 0 /\ Answered(w, ok, now).session = None
         /\ Answered(w, ok, now).answer \in {now, EmptyFlow}
<1>1. Idle \in Call
  BY IdleType
<1>2. CASE ~w
  BY <1>1, <1>2 DEF Answered, Idle
<1>3. CASE w
  <2> DEFINE a == IF ok THEN now ELSE EmptyFlow
  <2>1. a \in Flow /\ a \in {now, EmptyFlow}
    BY FlowTypes
  <2>2. Answered(w, ok, now) = [Idle EXCEPT !.pc = "done", !.waited = w, !.ok = ok, !.answer = a]
    BY <1>3 DEF Answered
  <2> HIDE DEF a
  <2>3. [Idle EXCEPT !.pc = "done", !.waited = w, !.ok = ok, !.answer = a] \in Call
    BY <1>1, <2>1 DEF Call
  <2>4. QED
    BY <1>3, <2>1, <2>2, <2>3 DEF Idle
<1>4. QED
  BY <1>2, <1>3

LEMMA ImmediateOpens ==
  ASSUME SafeInv, NEW c \in Calls, NEW s \in Sessions, NEW w \in BOOLEAN, NEW ok \in BOOLEAN,
         NEW now \in Flow, Immediate(s, c, w, ok, now)
  PROVE  \E f \in Fids : /\ Opened(s, c, f, now)
                         /\ call'[c] = Answered(w, ok, now)
                         /\ overlap' = Mixed(c, f, now, now = FlowOf(s)) \cap Kept(flows', call')
<1> DEFINE map == CurrentFlow(s)
<1>1. PICK f \in Fids : f = map[Len(map)].fid /\ Gives(map, s, f) /\ Takes(s, f)
  BY CurrentFlowGives DEF SafeInv, Takes
<1> HIDE DEF map
<1> DEFINE n == Answered(w, ok, now)
           clean == IF now = EmptyFlow THEN overlap \ {f} ELSE overlap
           mixed == IF now = FlowOf(s) THEN overlap
                    ELSE IF OpenOn(f, c) = {} THEN clean ELSE clean \cup {f}
<1>2. Update(map, [call EXCEPT ![c] = n], [flow EXCEPT ![f] = now], mixed)
  BY <1>1 DEF Immediate, map
<1>3. n \in Call /\ n.fid = 0
  BY FlowTypes, AnsweredType
<1>4. flow \in [Fids -> Flow] /\ call \in [Calls -> Call] /\ overlap \subseteq Fids
  BY DEF SafeInv, Types, FlowTypeOK
<1>5. f # 0
  BY DEF Fids
<1> HIDE DEF n
<1>6. flows' = map /\ call' = [call EXCEPT ![c] = n]
  BY <1>2 DEF Update
<1>7. f \in Kept(flows', call')
  BY <1>1, <1>6, KeptLast
<1>8. /\ flow' = [g \in Fids |-> IF g \in Kept(flows', call')
                                 THEN [flow EXCEPT ![f] = now][g] ELSE EmptyFlow]
      /\ overlap' = mixed \cap Kept(flows', call')
  BY <1>2, <1>6 DEF Update
<1>9. flow' \in [Fids -> Flow] /\ flow'[f] = now
  BY <1>4, <1>7, <1>8, FlowTypes
<1>10. Opened(s, c, f, now)
  BY <1>1, <1>3, <1>4, <1>5, <1>6, <1>8, <1>9 DEF Opened
<1>11. mixed = Mixed(c, f, now, now = FlowOf(s))
  BY DEF Mixed
<1>12. QED
  BY <1>6, <1>8, <1>10, <1>11, <1>4 DEF n

\* A session that only takes its place in the map.
LEMMA VisitOpens ==
  ASSUME SafeInv, NEW s \in Sessions, Visit(s)
  PROVE  \E f \in Fids : /\ Opened(s, 0, f, FlowOf(s))
                         /\ overlap' = overlap \cap Kept(flows', call')
<1> DEFINE map == CurrentFlow(s)
<1>1. PICK f \in Fids : f = map[Len(map)].fid /\ Gives(map, s, f) /\ Takes(s, f)
  BY CurrentFlowGives DEF SafeInv, Takes
<1> HIDE DEF map
<1>2. flow \in [Fids -> Flow] /\ call \in [Calls -> Call] /\ overlap \subseteq Fids
  BY DEF SafeInv, Types, FlowTypeOK
<1>3. flows' = map /\ call' = call
  BY DEF Visit, Update, map
<1>4. f \in Kept(flows', call')
  BY <1>1, <1>3, KeptLast
<1>5. /\ flow' = [g \in Fids |-> IF g \in Kept(flows', call') THEN flow[g] ELSE EmptyFlow]
      /\ overlap' = overlap \cap Kept(flows', call')
  BY <1>3 DEF Visit, Update, map
<1>6. flow' \in [Fids -> Flow] /\ flow'[f] = FlowOf(s)
  BY <1>1, <1>2, <1>4, <1>5, FlowTypes DEF Takes
<1>7. 0 \notin Calls
  BY DEF Calls
<1>8. Opened(s, 0, f, FlowOf(s))
  BY <1>1, <1>2, <1>3, <1>5, <1>6, <1>7 DEF Opened
<1>9. QED
  BY <1>5, <1>8

\* Opening preserves the safe part when the flow stays or is emptied.
LEMMA OpenedSafe ==
  ASSUME SafeInv, NEW c, NEW s \in Sessions, NEW f \in Fids, NEW start \in Flow,
         Opened(s, c, f, start), start = EmptyFlow \/ start = FlowOf(s),
         runtime' \in Runtimes, UNCHANGED <<issued, paid, served>>,
         Len(issued) + Cardinality(Pending') <= MaxChallenges,
         c \in Calls => Holds(call[c])' /\ Sound(call[c])'
  PROVE  SafeInv'
<1>1. Types' /\ Grows /\ Frame(c, s, f) /\ \A t \in Sessions : Owns(flows, call, t, f) => t = s
  BY OpenedFrame
<1>2. Own(s, start) /\ Truthful(start)
  BY FlowOfIsSafe, EmptyIsSafe DEF SafeInv
<1>3. Own(s, start)' /\ Truthful(start)'
  BY <1>1, <1>2, OwnGrows, TruthfulGrows DEF SafeInv
<1>4. Own(s, flow[f])' /\ Truthful(flow[f])'
  BY <1>3 DEF Opened
<1>5. QED
  BY <1>1, <1>4, FrameSafe

LEMMA EmptyIsCoherent == Coherent(EmptyFlow)
BY DEF Coherent, EmptyFlow, NoChallenge

\* And the coherence of the objects that were not mixed.
LEMMA OpenedCoherent ==
  ASSUME FlowInv, NEW c, NEW s \in Sessions, NEW f \in Fids, NEW start \in Flow,
         Opened(s, c, f, start), start = EmptyFlow \/ start = FlowOf(s),
         UNCHANGED <<runtime, issued, paid, served>>, c \in Calls => call[c].pc \notin Open,
         NEW same \in BOOLEAN, overlap' = Mixed(c, f, start, same) \cap Kept(flows', call'),
         same => start = FlowOf(s) /\ (c \in Calls => call'[c].pc \notin Open),
         c \in Calls /\ call'[c].pc \in Open /\ Coherent(start) => InStep(call[c], start)'
  PROVE  CoherenceOK'
<1> SUFFICES ASSUME NEW g \in Fids, NEW i \in DOMAIN flows', flows'[i].fid = g, g \notin overlap'
             PROVE  CoherentAt(g)'
  <2>1. \A i \in DOMAIN flows' : flows'[i] \in Entry
    BY DEF Opened, Gives
  <2>2. \A i \in DOMAIN flows' : flows'[i].fid \in Fids
    BY <2>1 DEF Entry
  <2>3. QED
    BY <2>2 DEF CoherenceOK
<1>1. g \in Kept(flows', call')
  BY DEF Kept
<1>2. f \in Kept(flows', call')
  BY KeptLast DEF Opened
<1>3. CASE g # f
  <2>1. \E j \in DOMAIN flows : flows[j].fid = g
    <3>1. i \in 1 .. Len(flows') - 1
      BY <1>3 DEF Opened, Gives
    <3>2. QED
      BY <3>1 DEF Opened, Gives
  <2>2. g \notin overlap
    BY <1>1, <1>3 DEF Mixed
  <2>3. CoherentAt(g)
    BY <2>1, <2>2 DEF FlowInv, CoherenceOK
  <2>4. flow'[g] = flow[g]
    BY <1>1, <1>3 DEF Opened
  <2>5. g # 0
    BY DEF Fids
  <2>6. OpenAt(g)' = OpenAt(g) /\ c \notin OpenAt(g)
    BY <1>3, <2>5 DEF OpenAt, Opened
  <2>7. \A d \in OpenAt(g) : call'[d] = call[d]
    BY <2>6 DEF Opened, OpenAt
  <2>8. Coherent(flow[g])'
    BY <2>3, <2>4 DEF CoherentAt, Coherent
  <2>9. ASSUME NEW d \in OpenAt(g)' PROVE InStep(call[d], flow[g])'
    BY <2>3, <2>4, <2>6, <2>7 DEF CoherentAt, InStep
  <2>10. \A d, e \in OpenAt(g)' : d = e
    BY <2>3, <2>6 DEF CoherentAt
  <2>11. QED
    BY <2>8, <2>9, <2>10 DEF CoherentAt
<1>4. CASE g = f
  <2>1. flow'[f] = start
    BY DEF Opened
  <2>2. start # EmptyFlow \/ same => f \notin overlap
    BY <1>2, <1>4 DEF Mixed
  <2>3. f \notin overlap /\ start = FlowOf(s)
        => /\ Coherent(start)
           /\ \A d, e \in OpenAt(f) : d = e
           /\ \A d \in OpenAt(f) : InStep(call[d], start)
    <3>1. SUFFICES ASSUME f \notin overlap, start = FlowOf(s)
                   PROVE  /\ Coherent(flow[f])
                          /\ \A d, e \in OpenAt(f) : d = e
                          /\ \A d \in OpenAt(f) : InStep(call[d], flow[f])
      BY DEF Opened, Takes
    <3>2. CASE f \in Kept(flows, call)
      BY <3>1, <3>2 DEF Opened, Takes, FlowInv, CoherenceOK, CoherentAt
    <3>3. CASE f \notin Kept(flows, call)
      BY <3>3, EmptyIsCoherent DEF FlowInv, SafeInv, OwnersOK, OpenAt, Kept
    <3>4. QED
      BY <3>2, <3>3
  <2>4. Coherent(start) /\ Coherent(flow[f])'
    BY <2>1, <2>2, <2>3, EmptyIsCoherent DEF Coherent
  <2>5. CASE same
    <3>1. OpenAt(f)' = OpenAt(f) /\ c \notin OpenAt(f)
      BY <2>5 DEF OpenAt, Opened
    <3>2. \A d \in OpenAt(f) : call'[d] = call[d]
      BY <3>1 DEF Opened, OpenAt
    <3>3. ASSUME NEW d \in OpenAt(f)' PROVE InStep(call[d], flow[f])'
      BY <2>1, <2>2, <2>3, <2>5, <3>1, <3>2 DEF InStep
    <3>4. \A d, e \in OpenAt(f)' : d = e
      BY <2>2, <2>3, <2>5, <3>1
    <3>5. QED
      BY <1>4, <2>4, <3>3, <3>4 DEF CoherentAt
  <2>6. CASE ~same
    <3>1. OpenOn(f, c) = {}
      BY <1>2, <1>4, <2>6 DEF Mixed
    <3>2. \A d \in OpenAt(f)' : d = c /\ c \in Calls /\ call'[c].pc \in Open
      BY <3>1 DEF OpenAt, OpenOn, Opened
    <3>3. ASSUME NEW d \in OpenAt(f)' PROVE InStep(call[d], flow[f])'
      BY <2>1, <2>4, <3>2 DEF InStep
    <3>4. QED
      BY <1>4, <2>4, <3>2, <3>3 DEF CoherentAt
  <2>7. QED
    BY <2>5, <2>6
<1>5. QED
  BY <1>3, <1>4

\* No request but the one in slot c is open for session t.
Alone(c, t) == \A d \in Calls \ {c} : ~(call[d].pc \in Open /\ call[d].session = t)

LEMMA OwnersHold ==
  ASSUME SafeInv, NEW d \in Calls, call[d].pc \in Open
  PROVE  /\ call[d].fid \in Fids /\ call[d].session \in Sessions
         /\ Owns(flows, call, call[d].session, call[d].fid)
         /\ \A t \in Sessions : Owns(flows, call, t, call[d].fid) => t = call[d].session
<1>1. call[d].fid \in Fids /\ call[d].session \in Sessions
  BY DEF SafeInv, OwnersOK, Holds
<1>2. Owns(flows, call, call[d].session, call[d].fid)
  BY DEF Owns
<1>3. QED
  BY <1>1, <1>2 DEF SafeInv, OwnersOK

\* A session's object is mixed by nobody else's request.
LEMMA OpenedApart ==
  ASSUME SafeInv, NEW c, NEW s \in Sessions, NEW f \in Fids, NEW start,
         Opened(s, c, f, start), NEW same \in BOOLEAN,
         overlap' = Mixed(c, f, start, same) \cap Kept(flows', call'),
         NEW t \in Sessions, same \/ Alone(c, t), Apart(t)
  PROVE  Apart(t)'
<1> SUFFICES ASSUME NEW i \in DOMAIN flows', flows'[i].session = t, flows'[i].fid \in overlap'
             PROVE  FALSE
  BY DEF Apart, Mine
<1>1. CASE i = Len(flows')
  <2>1. t = s /\ flows'[i].fid = f
    BY <1>1 DEF Opened, Gives
  <2>2. f \notin overlap
    <3>1. CASE \E j \in DOMAIN flows : flows[j] = [session |-> s, fid |-> f]
      BY <2>1, <3>1 DEF Apart, Mine
    <3>2. CASE f \notin Kept(flows, call)
      BY <3>2 DEF SafeInv, OwnersOK
    <3>3. QED
      BY <3>1, <3>2 DEF Opened, Takes
  <2>3. ~same /\ OpenOn(f, c) # {}
    BY <2>1, <2>2 DEF Mixed
  <2>4. PICK d \in Calls \ {c} : call[d].pc \in Open /\ call[d].fid = f
    BY <2>3 DEF OpenOn
  <2>5. call[d].session \in Sessions /\ Owns(flows, call, call[d].session, f)
    BY <2>4, OwnersHold
  <2>6. call[d].session = s
    BY <2>5 DEF Opened, Takes
  <2>7. QED
    BY <2>1, <2>3, <2>4, <2>6 DEF Alone
<1>2. CASE i # Len(flows')
  <2>1. i \in 1 .. Len(flows') - 1
    BY <1>2 DEF Opened, Gives
  <2>2. flows'[i].fid # f /\ \E j \in DOMAIN flows : flows'[i] = flows[j]
    BY <2>1 DEF Opened, Gives
  <2>3. flows'[i].fid \in overlap
    BY <2>2 DEF Mixed
  <2>4. QED
    BY <2>2, <2>3 DEF Apart, Mine
<1>3. QED
  BY <1>1, <1>2

\* What the system sees of a stretch of session s's request in slot c.
Turn(c, s, w) ==
    /\ FlowInv' /\ Grows
    /\ \A d \in Calls \ {c} : call'[d] = call[d]
    /\ call'[c].pc \in Open => call'[c].session = s /\ call'[c].waited = w
    /\ call'[c].pc = "done" => w
    /\ At(c, "done")' => Earned(s, call[c].answer)'
    /\ Alone(c, Me) /\ Apart(Me) => Apart(Me)'

LEMMA BeginTurn ==
  ASSUME FlowInv, Me \in Sessions, NEW c \in Calls, NEW s \in Sessions, NEW w \in BOOLEAN,
         NEW start \in Flow, NEW k \in Call, Begin(s, c, w, start, k),
         start = EmptyFlow \/ start = FlowOf(s), UNCHANGED <<runtime, issued, paid, served>>,
         call[c].pc \notin Open, k.pc \in Open \ {"hash", "issue"},
         k.pc = "body" => Len(issued) + Cardinality(Pending) < MaxChallenges,
         \A g \in Fids : Sound(Captured(k, s, g, w)),
         Coherent(start) => InStep(k, start)
  PROVE  Turn(c, s, w)
<1>1. PICK f \in Fids : /\ Opened(s, c, f, start)
                        /\ call'[c] = Captured(k, s, f, w)
                        /\ overlap' = Mixed(c, f, start, FALSE) \cap Kept(flows', call')
  <2>1. SafeInv
    BY DEF FlowInv
  <2>2. QED
    BY <2>1, BeginOpens DEF Mixed
<1> DEFINE n == Captured(k, s, f, w)
<1>2. /\ n \in Call /\ n.fid = f /\ n.session = s /\ n.waited = w /\ n.pc = k.pc
      /\ n.kind = k.kind /\ n.resource = k.resource /\ n.challenge = k.challenge
      /\ n.runtime = k.runtime /\ n.verdict = k.verdict
  BY CapturedType
<1>3. Sound(n)
  OBVIOUS
<1>4. call'[c] = n
  BY <1>1
<1> HIDE DEF n
<1>5. Holds(call[c])' /\ Sound(call[c])'
  <2>1. Sound(n)'
    BY <1>3 DEF Sound
  <2>2. QED
    BY <1>2, <1>4, <2>1 DEF Holds
<1>6. Len(issued) + Cardinality(Pending') <= MaxChallenges
  <2>1. Types /\ (\A d \in Calls \ {c} : call'[d] = call[d])
    BY <1>1 DEF FlowInv, SafeInv, Opened
  <2>2. k.pc # "body" => c \notin Pending'
    BY <1>2, <1>4 DEF Pending, At
  <2>3. Len(issued) \in Nat
    BY <2>1 DEF Types
  <2>4. /\ Cardinality(Pending) \in Nat /\ Cardinality(Pending') \in Nat
        /\ Cardinality(Pending') <= Cardinality(Pending) + 1
        /\ k.pc # "body" => Cardinality(Pending') <= Cardinality(Pending)
    BY <2>1, <2>2, PendingStep
  <2>5. Len(issued) + Cardinality(Pending) <= MaxChallenges /\ MaxChallenges \in Nat
    BY BoundsAssumption DEF FlowInv, SafeInv, Types
  <2>6. QED
    BY <2>3, <2>4, <2>5
<1>7. SafeInv'
  <2>1. runtime' \in Runtimes
    BY DEF FlowInv, SafeInv, Types, FlowTypeOK
  <2>2. QED
    BY <1>1, <1>5, <1>6, <2>1, OpenedSafe DEF FlowInv
<1>8. CoherenceOK'
  <2>1. Coherent(start) => InStep(n, start)'
    BY <1>2 DEF InStep
  <2>2. call'[c].pc \in Open /\ Coherent(start) => InStep(call[c], start)'
    BY <1>4, <2>1
  <2>3. QED
    BY <1>1, <2>2, OpenedCoherent
<1>9. Alone(c, Me) /\ Apart(Me) => Apart(Me)'
  BY <1>1, OpenedApart DEF FlowInv
<1>10. call'[c].pc # "done"
  BY <1>2, <1>4 DEF Open
<1>11. QED
  BY <1>1, <1>2, <1>4, <1>7, <1>8, <1>9, <1>10 DEF Turn, FlowInv, Grows, At, Opened

LEMMA IdleIsSafe == ASSUME NEW k, k.pc \in {"idle", "done"} PROVE Sound(k)
BY DEF Sound

\* A request answered at once; "same" requests leave every object as mixed as it was.
LEMMA ImmediateTurn ==
  ASSUME FlowInv, Me \in Sessions, NEW c \in Calls, NEW s \in Sessions, NEW w \in BOOLEAN,
         NEW ok \in BOOLEAN, NEW now \in Flow, Immediate(s, c, w, ok, now),
         now = EmptyFlow \/ now = FlowOf(s), UNCHANGED <<runtime, issued, paid, served>>,
         call[c].pc \notin Open
  PROVE  /\ Turn(c, s, w) /\ call'[c].pc \notin Open
         /\ now = FlowOf(s) /\ Apart(Me) => Apart(Me)'
<1>1. PICK f \in Fids : /\ Opened(s, c, f, now)
                        /\ call'[c] = Answered(w, ok, now)
                        /\ overlap' = Mixed(c, f, now, now = FlowOf(s)) \cap Kept(flows', call')
  BY ImmediateOpens DEF FlowInv
<1> DEFINE n == Answered(w, ok, now)
<1>2. /\ n.pc = (IF w THEN "done" ELSE "idle") /\ n.fid = 0 /\ n.session = None
      /\ n.answer \in {now, EmptyFlow}
  BY AnsweredType
<1>3. call'[c] = n
  BY <1>1
<1> HIDE DEF n
<1>4. call'[c].pc \notin Open
  BY <1>2, <1>3 DEF Open
<1>5. Holds(call[c])' /\ Sound(call[c])'
  <2>1. Sound(n)'
    BY <1>2, IdleIsSafe DEF Sound
  <2>2. QED
    BY <1>2, <1>3, <1>4, <2>1 DEF Holds
<1>6. Len(issued) + Cardinality(Pending') <= MaxChallenges
  <2>1. Types /\ (\A d \in Calls \ {c} : call'[d] = call[d])
    BY <1>1 DEF FlowInv, SafeInv, Opened
  <2>2. c \notin Pending'
    BY <1>4 DEF Pending, At, Open
  <2>3. /\ Cardinality(Pending) \in Nat /\ Cardinality(Pending') \in Nat
        /\ Cardinality(Pending') <= Cardinality(Pending)
    BY <2>1, <2>2, PendingStep
  <2>4. /\ Len(issued) + Cardinality(Pending) <= MaxChallenges /\ MaxChallenges \in Nat
        /\ Len(issued) \in Nat
    BY <2>1, BoundsAssumption DEF Types
  <2>5. QED
    BY <2>3, <2>4
<1>7. SafeInv'
  <2>1. runtime' \in Runtimes
    BY DEF FlowInv, SafeInv, Types, FlowTypeOK
  <2>2. QED
    BY <1>1, <1>5, <1>6, <2>1, OpenedSafe DEF FlowInv
<1> DEFINE same == now = FlowOf(s)
<1>8. PICK b \in BOOLEAN : b = same
  OBVIOUS
<1>9. overlap' = Mixed(c, f, now, b) \cap Kept(flows', call')
  BY <1>1, <1>8
<1> HIDE DEF same
<1>10. CoherenceOK'
  <2>1. b => now = FlowOf(s) /\ call'[c].pc \notin Open
    BY <1>4, <1>8 DEF same
  <2>2. QED
    BY <1>1, <1>4, <1>9, <2>1, OpenedCoherent
<1>11. (Alone(c, Me) \/ now = FlowOf(s)) /\ Apart(Me) => Apart(Me)'
  <2>1. SafeInv /\ (now = FlowOf(s) => b)
    BY <1>8 DEF FlowInv, same
  <2>2. b \/ Alone(c, Me) => (Apart(Me) => Apart(Me)')
    BY <1>1, <1>9, <2>1, OpenedApart
  <2>3. QED
    BY <2>1, <2>2
<1>12. At(c, "done")' => Earned(s, call[c].answer)'
  <2>1. Earned(s, now) /\ Earned(s, EmptyFlow)
    BY FlowOfIsSafe, EmptyIsSafe DEF FlowInv, SafeInv, Earned
  <2>2. Earned(s, now)' /\ Earned(s, EmptyFlow)'
    BY <2>1 DEF Earned, Own, Truthful
  <2>3. QED
    BY <1>2, <1>3, <2>2
<1>13. QED
  BY <1>1, <1>2, <1>3, <1>4, <1>7, <1>10, <1>11, <1>12 DEF Turn, FlowInv, Grows, Opened

\* Another session's request takes its place in the map and nothing else.
LEMMA VisitTurn ==
  ASSUME FlowInv, Me \in Sessions, NEW s \in Sessions, Visit(s)
  PROVE  FlowInv' /\ Grows /\ call' = call /\ (Apart(Me) => Apart(Me)')
<1>1. PICK f \in Fids : /\ Opened(s, 0, f, FlowOf(s))
                        /\ overlap' = overlap \cap Kept(flows', call')
  BY VisitOpens DEF FlowInv
<1>2. SafeInv /\ UNCHANGED <<runtime, issued, paid, served, call>> /\ 0 \notin Calls
  BY DEF FlowInv, Visit, Update, ledger, Calls
<1>3. PICK start \in Flow : start = FlowOf(s)
  BY <1>2, FlowOfIsSafe
<1>4. /\ Opened(s, 0, f, start)
      /\ overlap' = Mixed(0, f, start, TRUE) \cap Kept(flows', call')
  BY <1>1, <1>3 DEF Mixed
<1>5. SafeInv'
  <2>1. runtime' \in Runtimes /\ Pending' = Pending /\ Len(issued) + Cardinality(Pending) <= MaxChallenges
    BY <1>2 DEF SafeInv, Types, FlowTypeOK, Pending, At
  <2>2. QED
    BY <1>2, <1>3, <1>4, <2>1, OpenedSafe
<1>6. CoherenceOK'
  BY <1>2, <1>3, <1>4, OpenedCoherent DEF Mixed
<1>7. Apart(Me) => Apart(Me)'
  BY <1>2, <1>4, OpenedApart DEF Mixed
<1>8. QED
  BY <1>2, <1>5, <1>6, <1>7 DEF FlowInv, Grows

\* A bootstrap empties every object of the map, its own and those in use.
LEMMA BootstrapTurn ==
  ASSUME FlowInv, Me \in Sessions, NEW c \in Calls, NEW s \in Sessions, NEW w \in BOOLEAN,
         call[c].pc \notin Open, Bootstrap(s, c, w)
  PROVE  Turn(c, s, w)
<1> DEFINE map == CurrentFlow(s)
           all == {map[i].fid : i \in DOMAIN map}
<1>1. PICK f \in Fids : f = map[Len(map)].fid /\ Gives(map, s, f) /\ Takes(s, f)
  BY CurrentFlowGives DEF FlowInv, SafeInv, Takes
<1> DEFINE n == [Idle EXCEPT !.pc = "bootstrap", !.kind = "bootstrap",
                             !.session = s, !.fid = f, !.waited = w]
<1>2. /\ UNCHANGED <<issued, paid, served>>
      /\ runtime.no < MaxRuntimes
      /\ \E k \in Secrets \cup {None} : runtime' = [no |-> runtime.no + 1, secret |-> k]
      /\ Update(map, [call EXCEPT ![c] = n],
                [g \in Fids |-> IF g \in all THEN EmptyFlow ELSE flow[g]],
                {g \in overlap \cup all : g \in all => OpenOn(g, c) # {}})
  BY <1>1 DEF Bootstrap, ledger
<1>3. n \in Call /\ n.fid = f /\ n.session = s /\ n.waited = w /\ n.pc = "bootstrap"
      /\ n.kind = "bootstrap"
  <2>1. "bootstrap" \in Kinds /\ "bootstrap" \in Open \cup {"idle", "done"}
    BY DEF Kinds, Open
  <2>2. QED
    BY <2>1, IdleType DEF Call
<1>4. /\ flow \in [Fids -> Flow] /\ call \in [Calls -> Call] /\ overlap \subseteq Fids
      /\ runtime \in Runtimes /\ Types
  BY DEF FlowInv, SafeInv, Types, FlowTypeOK
<1>5. f \in all /\ \A i \in DOMAIN map : map[i] \in Entry /\ map[i].fid \in all
  <2>1. map \in Seq(Entry) /\ Len(map) \in DOMAIN map
    BY <1>1, BoundsAssumption DEF Gives
  <2>2. \A i \in DOMAIN map : map[i] \in Entry
    BY <2>1
  <2>3. QED
    BY <1>1, <2>1, <2>2
<1>6. all \subseteq Fids
  BY <1>5 DEF Entry
<1> HIDE DEF n, map
<1>7. flows' = map /\ call' = [call EXCEPT ![c] = n]
  BY <1>2 DEF Update
<1>8. \A i \in DOMAIN flows' : flows'[i].fid \in Kept(flows', call')
  BY DEF Kept
<1>9. /\ flow' = [g \in Fids |-> IF g \in Kept(flows', call')
                                 THEN IF g \in all THEN EmptyFlow ELSE flow[g]
                                 ELSE EmptyFlow]
      /\ overlap' = {g \in overlap \cup all : g \in all => OpenOn(g, c) # {}}
                       \cap Kept(flows', call')
  <2>1. flow' = [g \in Fids |-> IF g \in Kept(flows', call')
                                THEN [h \in Fids |-> IF h \in all THEN EmptyFlow ELSE flow[h]][g]
                                ELSE EmptyFlow]
    BY <1>2, <1>7 DEF Update
  <2>2. QED
    BY <1>2, <1>7, <2>1 DEF Update
<1>10. /\ flow' \in [Fids -> Flow] /\ (\A g \in all : flow'[g] = EmptyFlow)
       /\ \A g \in Fids : flow'[g] \in {flow[g], EmptyFlow}
       /\ \A g \in Fids \ Kept(flows', call') : flow'[g] = EmptyFlow
  BY <1>4, <1>6, <1>9, FlowTypes
<1>11. /\ \A d \in Calls \ {c} : call'[d] = call[d]
       /\ call'[c] = n /\ call' \in [Calls -> Call]
  BY <1>3, <1>4, <1>7
<1>12. runtime' \in Runtimes
  BY <1>2, <1>4, BoundsAssumption DEF Runtimes
<1>13. Types'
  <2>1. FlowTypeOK'
    <3>1. \A i \in DOMAIN flows' : flows'[i] \in Entry
      BY <1>5, <1>7
    <3>2. /\ Len(flows') <= FlowLimit
          /\ \A i, j \in DOMAIN flows' : flows'[i].session = flows'[j].session => i = j
      BY <1>1, <1>7, BoundsAssumption DEF Gives
    <3>3. overlap' \subseteq Fids
      BY <1>4, <1>6, <1>9
    <3>4. QED
      BY <1>2, <1>4, <1>10, <1>11, <1>12, <3>1, <3>2, <3>3 DEF FlowTypeOK, Entry, Types
  <2>2. Len(issued') + Cardinality(Pending') <= MaxChallenges
    <3>1. c \notin Pending'
      BY <1>3, <1>11 DEF Pending, At
    <3>2. /\ Cardinality(Pending) \in Nat /\ Cardinality(Pending') \in Nat
          /\ Cardinality(Pending') <= Cardinality(Pending)
      BY <1>4, <1>11, <3>1, PendingStep
    <3>3. /\ Len(issued) + Cardinality(Pending) <= MaxChallenges /\ MaxChallenges \in Nat
          /\ Len(issued) \in Nat
      BY <1>4, BoundsAssumption DEF Types
    <3>4. QED
      BY <1>2, <3>2, <3>3
  <2>3. QED
    BY <1>1, <1>2, <1>4, <1>7, <2>1, <2>2 DEF Types, Gives
<1>14. Grows
  BY <1>2 DEF Grows
<1>15. Frame(c, s, f)
  <2>1. ASSUME NEW i \in DOMAIN flows'
        PROVE  flows'[i] = [session |-> s, fid |-> f] \/ \E j \in DOMAIN flows : flows'[i] = flows[j]
    <3>1. i = Len(flows') \/ i \in 1 .. Len(flows') - 1
      BY <1>13 DEF Types
    <3>2. QED
      BY <1>1, <1>7, <3>1 DEF Gives
  <2>2. QED
    BY <1>3, <1>9, <1>10, <1>11, <2>1 DEF Frame
<1>16. SafeInv'
  <2>1. Holds(call[c])' /\ Sound(call[c])'
    BY <1>3, <1>11 DEF Holds, Open, Sound
  <2>2. flow'[f] = EmptyFlow
    BY <1>5, <1>10
  <2>3. Own(s, EmptyFlow)' /\ Truthful(EmptyFlow)'
    <3>1. Own(s, EmptyFlow) /\ Truthful(EmptyFlow)
      BY <1>4, EmptyIsSafe
    <3>2. QED
      BY <1>2, <3>1 DEF Own, Truthful
  <2>4. SafeInv /\ Own(s, flow[f])' /\ Truthful(flow[f])' /\ \A t \in Sessions : Owns(flows, call, t, f) => t = s
    BY <1>1, <2>2, <2>3 DEF FlowInv, Takes
  <2>5. QED
    BY <1>13, <1>14, <1>15, <2>1, <2>4, FrameSafe
<1>17. CoherenceOK'
  <2> SUFFICES ASSUME NEW i \in DOMAIN flows', NEW g \in Fids, g = flows'[i].fid, g \notin overlap'
               PROVE  CoherentAt(g)'
    BY <1>5, <1>6, <1>7 DEF CoherenceOK
  <2>1. g \in all /\ flow'[g] = EmptyFlow
    BY <1>5, <1>7, <1>10
  <2>2. OpenOn(g, c) = {}
    BY <1>8, <1>9, <2>1
  <2>3. \A d \in OpenAt(g)' : d = c
    BY <1>11, <2>2 DEF OpenAt, OpenOn
  <2>4. Coherent(EmptyFlow)'
    BY DEF Coherent, EmptyFlow, NoChallenge
  <2>5. InStep(n, EmptyFlow)'
    BY <1>3 DEF InStep
  <2>6. QED
    BY <1>11, <2>1, <2>3, <2>4, <2>5 DEF CoherentAt
<1>18. Alone(c, Me) /\ Apart(Me) => Apart(Me)'
  <2> SUFFICES ASSUME Alone(c, Me), NEW i \in DOMAIN flows', flows'[i].session = Me,
                      NEW g \in Fids, g = flows'[i].fid, g \in overlap'
               PROVE  FALSE
    BY <1>5, <1>6, <1>7 DEF Apart, Mine
  <2>1. g \in all
    BY <1>5, <1>7
  <2>2. PICK d \in Calls \ {c} : call[d].pc \in Open /\ call[d].fid = g
    BY <1>9, <2>1 DEF OpenOn
  <2>3. /\ call[d].session \in Sessions /\ Owns(flows, call, call[d].session, g)
        /\ \A t \in Sessions : Owns(flows, call, t, g) => t = call[d].session
    BY <2>2, OwnersHold DEF FlowInv
  <2>4. call[d].session = Me
    <3>1. CASE \E j \in DOMAIN flows : flows'[i] = flows[j]
      BY <2>3, <3>1 DEF Owns
    <3>2. CASE flows'[i] = [session |-> s, fid |-> f]
      BY <1>1, <2>3, <3>2 DEF Takes
    <3>3. QED
      BY <1>15, <3>1, <3>2 DEF Frame
  <2>5. QED
    BY <2>2, <2>4 DEF Alone
<1>19. QED
  BY <1>3, <1>11, <1>14, <1>16, <1>17, <1>18 DEF Turn, FlowInv, At

\* A request between two awaits, and at its end.
LEMMA GoesTurn ==
  ASSUME FlowInv, NEW c \in Calls, call[c].pc \in Open, NEW k \in Call, NEW now \in Flow,
         NEW s \in Sessions, s = call[c].session, NEW w \in BOOLEAN, w = call[c].waited,
         Goes(c, k, now), Types', Grows, runtime' = runtime,
         k.pc \in Open => k.fid = call[c].fid /\ k.session = s /\ k.waited = w,
         k.pc \notin Open => /\ k.fid = 0 /\ k.session = None
                             /\ k.pc = "done" => w /\ k.answer \in {now, EmptyFlow},
         Sound(k)', Earned(s, now)',
         Coherent(Object(c)) /\ InStep(call[c], Object(c)) =>
            Coherent(now)' /\ (k.pc \in Open => InStep(k, now)')
  PROVE  Turn(c, s, w) /\ (Apart(Me) => Apart(Me)')
<1>1. PICK f \in Fids : f = call[c].fid
  BY OwnersHold DEF FlowInv
<1>2. \A t \in Sessions : Owns(flows, call, t, f) => t = s
  BY <1>1, OwnersHold DEF FlowInv
<1>3. /\ flow \in [Fids -> Flow] /\ call \in [Calls -> Call] /\ overlap \subseteq Fids
      /\ flow' \in [Fids -> Flow] /\ Types
  BY DEF FlowInv, SafeInv, Types, FlowTypeOK
<1>4. /\ flows' = flows /\ call' = [call EXCEPT ![c] = k]
      /\ flow' = [g \in Fids |-> IF g \in Kept(flows', call')
                                 THEN [flow EXCEPT ![f] = now][g] ELSE EmptyFlow]
      /\ overlap' = overlap \cap Kept(flows', call')
  BY <1>1 DEF Goes, Update
<1>5. call'[c] = k /\ \A d \in Calls \ {c} : call'[d] = call[d]
  BY <1>3, <1>4
<1>6. /\ \A g \in (Fids \ {f}) \cap Kept(flows', call') : flow'[g] = flow[g]
      /\ \A g \in Fids \ Kept(flows', call') : flow'[g] = EmptyFlow
      /\ flow'[f] \in {now, EmptyFlow}
      /\ f \in Kept(flows', call') => flow'[f] = now
  BY <1>3, <1>4
<1>7. Earned(s, now)' /\ Earned(s, EmptyFlow)'
  <2>1. Own(s, EmptyFlow) /\ Truthful(EmptyFlow)
    BY <1>3, EmptyIsSafe
  <2>2. Own(s, EmptyFlow)' /\ Truthful(EmptyFlow)'
    BY <1>3, <2>1, OwnGrows, TruthfulGrows, FlowTypes
  <2>3. QED
    BY <2>2 DEF Earned
<1>8. SafeInv'
  <2>1. Frame(c, s, f)
    <3>1. \A i \in DOMAIN flows' : \E j \in DOMAIN flows : flows'[i] = flows[j]
      BY <1>4
    <3>2. call'[c].fid \in {0, f} /\ (call'[c].fid = f => call'[c].session = s)
      BY <1>1, <1>5 DEF Fids
    <3>3. \A g \in Fids \ {f} : flow'[g] \in {flow[g], EmptyFlow}
      BY <1>6
    <3>4. overlap' \subseteq Kept(flows', call')
      BY <1>4
    <3>5. QED
      BY <1>5, <1>6, <3>1, <3>2, <3>3, <3>4 DEF Frame
  <2>2. Holds(call[c])' /\ Sound(call[c])'
    <3>1. Holds(call'[c])
      BY <1>1, <1>5 DEF Holds
    <3>2. QED
      BY <1>5, <3>1 DEF Holds
  <2>3. Own(s, flow[f])' /\ Truthful(flow[f])'
    BY <1>6, <1>7 DEF Earned
  <2>4. SafeInv
    BY DEF FlowInv
  <2>5. QED
    BY <1>2, <2>1, <2>2, <2>3, <2>4, FrameSafe
<1>9. CoherenceOK'
  <2> SUFFICES ASSUME NEW i \in DOMAIN flows, NEW g \in Fids, g = flows[i].fid, g \notin overlap'
               PROVE  CoherentAt(g)'
    <3>1. \A i \in DOMAIN flows : flows[i].fid \in Fids
      BY <1>3 DEF Types, FlowTypeOK
    <3>2. QED
      BY <1>4, <3>1 DEF CoherenceOK
  <2>1. g \in Kept(flows', call') /\ g \notin overlap
    BY <1>4 DEF Kept
  <2>2. CoherentAt(g)
    BY <2>1 DEF FlowInv, CoherenceOK
  <2>3. CASE g = f
    <3>1. c \in OpenAt(g)
      BY <1>1, <2>3 DEF OpenAt
    <3>2. \A d \in OpenAt(g) : d = c
      BY <2>2, <3>1 DEF CoherentAt
    <3>3. Coherent(now)' /\ (k.pc \in Open => InStep(k, now)')
      BY <1>1, <2>2, <2>3, <3>1 DEF CoherentAt, Object
    <3>4. flow'[g] = now
      BY <1>6, <2>1, <2>3
    <3>5. \A d \in OpenAt(g)' : d = c /\ k.pc \in Open
      BY <1>5, <3>2 DEF OpenAt
    <3>6. Coherent(flow[g])'
      BY <3>3, <3>4 DEF Coherent
    <3>7. ASSUME NEW d \in OpenAt(g)' PROVE InStep(call[d], flow[g])'
      BY <1>5, <3>3, <3>4, <3>5 DEF InStep
    <3>8. QED
      BY <3>5, <3>6, <3>7 DEF CoherentAt
  <2>4. CASE g # f
    <3>1. flow'[g] = flow[g]
      BY <1>6, <2>1, <2>4
    <3>2. OpenAt(g)' = OpenAt(g) /\ c \notin OpenAt(g)
      BY <1>1, <1>5, <2>4 DEF OpenAt, Fids
    <3>3. \A d \in OpenAt(g) : call'[d] = call[d]
      BY <1>5, <3>2 DEF OpenAt
    <3>4. Coherent(flow[g])'
      <4>1. Held(flow[g]) \subseteq DOMAIN issued
        BY <1>3, HeldIsIssued DEF FlowInv, SafeInv, TruthOK
      <4>2. flow[g].challenge # NoChallenge => issued'[flow[g].challenge] = issued[flow[g].challenge]
        BY <4>1 DEF Held, Grows
      <4>3. QED
        BY <2>2, <3>1, <4>2 DEF CoherentAt, Coherent
    <3>5. ASSUME NEW d \in OpenAt(g)' PROVE InStep(call[d], flow[g])'
      <4>1. InStep(call[d], flow[g])
        BY <2>2, <3>2 DEF CoherentAt
      <4>2. call'[d] = call[d]
        BY <3>2, <3>3
      <4>3. QED
        BY <3>1, <4>1, <4>2 DEF InStep, Grows
    <3>6. \A d, e \in OpenAt(g)' : d = e
      BY <2>2, <3>2 DEF CoherentAt
    <3>7. QED
      BY <3>4, <3>5, <3>6 DEF CoherentAt
  <2>5. QED
    BY <2>3, <2>4
<1>10. Apart(Me) => Apart(Me)'
  BY <1>4 DEF Apart, Mine
<1>11. At(c, "done")' => Earned(s, call[c].answer)'
  BY <1>5, <1>7 DEF At, Open
<1>12. Turn(c, s, w)
  BY <1>1, <1>5, <1>8, <1>9, <1>10, <1>11 DEF Turn, FlowInv, At, Open
<1>13. QED
  BY <1>10, <1>12

-----------------------------------------------------------------------------
(* The routes                                                              *)

LEMMA UnpaidTurn ==
  ASSUME FlowInv, Me \in Sessions, NEW c \in Calls, NEW s \in Sessions, NEW w \in BOOLEAN,
         call[c].pc \notin Open, Unpaid(s, c, w)
  PROVE  Turn(c, s, w)
<1>1. PICK k \in Call : k = [Idle EXCEPT !.pc = "body", !.kind = "unpaid"]
  BY IdleType DEF Call, Kinds, Open
<1>2. k.pc = "body" /\ k.kind = "unpaid" /\ k.resource = None
  BY <1>1, IdleType DEF Call, Idle
<1>3. Begin(s, c, w, EmptyFlow, k) /\ Len(issued) + Cardinality(Pending) < MaxChallenges
  BY <1>1 DEF Unpaid, Pending
<1>4. UNCHANGED <<runtime, issued, paid, served>>
  BY DEF Unpaid, ledger
<1>5. \A g \in Fids : Sound(Captured(k, s, g, w))
  BY <1>2, CapturedType DEF Sound
<1>6. InStep(k, EmptyFlow)
  <2>1. EmptyFlow.resource = k.resource
    BY <1>2 DEF EmptyFlow
  <2>2. EmptyFlow = [EmptyFlow EXCEPT !.resource = k.resource]
    BY <2>1, FlowTypes, Zenon DEF Flow
  <2>3. /\ k.pc # "issue" /\ k.pc # "pay" /\ k.pc \notin {"present", "presented"}
        /\ k.kind # "replay"
    BY <1>2
  <2>4. k.pc \in {"body", "hash", "issue"} => EmptyFlow = [EmptyFlow EXCEPT !.resource = k.resource]
    BY <2>2
  <2>5. /\ k.pc = "issue" => k.runtime = runtime
        /\ k.pc = "pay" => EmptyFlow.challenge = k.challenge
        /\ k.pc \in {"present", "presented"} => EmptyFlow.auth = k.challenge
        /\ k.kind = "replay" => /\ k.pc = "present" => k.challenge \in served
                                /\ k.pc = "presented" => k.verdict # "served"
    BY <2>3
  <2>6. QED
    BY <2>4, <2>5 DEF InStep
<1>7. k.pc \in Open \ {"hash", "issue"} /\ EmptyFlow \in Flow
  BY <1>2, FlowTypes DEF Open
<1>8. QED
  BY <1>3, <1>4, <1>5, <1>6, <1>7, BeginTurn

LEMMA PayTurn ==
  ASSUME FlowInv, Me \in Sessions, NEW c \in Calls, NEW s \in Sessions, NEW w \in BOOLEAN,
         call[c].pc \notin Open, Pay(s, c, w)
  PROVE  Turn(c, s, w)
<1>1. SafeInv /\ Types
  BY DEF FlowInv, SafeInv
<1>2. PICK x \in Flow : x = FlowOf(s) /\ Own(s, x) /\ Truthful(x)
  BY <1>1, FlowOfIsSafe
<1>3. UNCHANGED <<runtime, issued, paid, served>>
  BY DEF Pay, ledger
<1>4. CASE runtime.secret # None /\ ChallengeReady(x)
  <2>1. PICK k \in Call : k = [Idle EXCEPT !.pc = "pay", !.kind = "pay", !.challenge = x.challenge]
    BY IdleType DEF Call, Kinds, Open, Flow
  <2>2. k.pc = "pay" /\ k.kind = "pay" /\ k.challenge = x.challenge
    BY <2>1, IdleType DEF Call
  <2>3. Begin(s, c, w, x, k)
    BY <1>2, <1>4, <2>1 DEF Pay
  <2>4. x.challenge \in Held(x) /\ x.challenge \in DOMAIN issued /\ issued[x.challenge].session = s
    BY <1>1, <1>2, <1>4, HeldIsIssued DEF ChallengeReady, Held, Own
  <2>5. \A g \in Fids : Sound(Captured(k, s, g, w))
    BY <2>2, <2>4, CapturedType DEF Sound
  <2>6. InStep(k, x)
    BY <2>2 DEF InStep
  <2>7. k.pc \in Open \ {"hash", "issue"}
    BY <2>2 DEF Open
  <2>8. QED
    BY <1>2, <1>3, <2>2, <2>3, <2>5, <2>6, <2>7, BeginTurn
<1>5. CASE ~(runtime.secret # None /\ ChallengeReady(x))
  <2>1. Immediate(s, c, w, FALSE, x)
    BY <1>2, <1>5 DEF Pay
  <2>2. QED
    BY <1>2, <1>3, <2>1, ImmediateTurn
<1>6. QED
  BY <1>4, <1>5

LEMMA PresentingTurn ==
  ASSUME FlowInv, Me \in Sessions, NEW c \in Calls, NEW s \in Sessions, NEW w \in BOOLEAN,
         call[c].pc \notin Open, NEW kind \in {"continue", "replay"}, NEW ready \in BOOLEAN,
         Presenting(s, c, w, kind, ready),
         ready => AuthorizationReady(FlowOf(s)),
         ready /\ kind = "replay" => ReplayReady(FlowOf(s))
  PROVE  Turn(c, s, w)
<1>1. SafeInv /\ Types /\ runtime \in Runtimes
  BY DEF FlowInv, SafeInv, Types, FlowTypeOK
<1>2. PICK x \in Flow : x = FlowOf(s) /\ Own(s, x) /\ Truthful(x)
  BY <1>1, FlowOfIsSafe
<1>3. UNCHANGED <<runtime, issued, paid, served>>
  BY DEF Presenting, ledger
<1>4. CASE ready
  <2>1. PICK k \in Call : k = [Idle EXCEPT !.pc = "present", !.kind = kind, !.resource = x.resource,
                                           !.challenge = x.auth, !.runtime = runtime]
    BY <1>1, IdleType DEF Call, Kinds, Open, Flow
  <2>2. k.pc = "present" /\ k.kind = kind /\ k.challenge = x.auth /\ k.runtime = runtime
    BY <2>1, IdleType DEF Call
  <2>3. Begin(s, c, w, x, k)
    BY <1>2, <1>4, <2>1 DEF Presenting
  <2>4. x.auth \in Held(x) /\ x.auth \in paid /\ issued[x.auth].session = s
    BY <1>2, <1>4 DEF AuthorizationReady, Held, Own, Truthful
  <2>5. \A g \in Fids : Sound(Captured(k, s, g, w))
    BY <1>1, <2>2, <2>4, CapturedType DEF Sound
  <2>6. Coherent(x) => InStep(k, x)
    BY <1>2, <1>4, <2>2 DEF InStep, Coherent, ReplayReady, Truthful
  <2>7. k.pc \in Open \ {"hash", "issue"}
    BY <2>2 DEF Open
  <2>8. QED
    BY <1>2, <1>3, <2>2, <2>3, <2>5, <2>6, <2>7, BeginTurn
<1>5. CASE ~ready
  <2>1. Immediate(s, c, w, FALSE, x)
    BY <1>2, <1>5 DEF Presenting
  <2>2. QED
    BY <1>2, <1>3, <2>1, ImmediateTurn
<1>6. QED
  BY <1>4, <1>5

Requests == Actions \cup {"clear", "select", "apply", "refresh"}

\* A first stretch, of any route.
LEMMA RouteTurn ==
  ASSUME FlowInv, Me \in Sessions, NEW c \in Calls, NEW s \in Sessions, NEW w \in BOOLEAN,
         call[c].pc \notin Open, NEW name \in Requests, Route(s, c, name, w)
  PROVE  /\ Turn(c, s, w)
         /\ name \in {"clear", "select", "refresh"} => call'[c].pc \notin Open
         /\ name = "refresh" => (Apart(Me) => Apart(Me)')
<1>1. SafeInv /\ Types
  BY DEF FlowInv, SafeInv
<1>2. PICK x \in Flow : x = FlowOf(s)
  BY <1>1, FlowOfIsSafe
<1>3. CASE name = "unpaid"
  BY <1>3, UnpaidTurn DEF Route
<1>4. CASE name = "pay"
  BY <1>4, PayTurn DEF Route
<1>5. CASE name = "continue"
  <2>1. PICK ready \in BOOLEAN : ready = AuthorizationReady(FlowOf(s))
    BY DEF AuthorizationReady
  <2>2. Presenting(s, c, w, "continue", ready)
    BY <1>5, <2>1 DEF Route, Continue
  <2>3. QED
    BY <1>5, <2>1, <2>2, PresentingTurn
<1>6. CASE name = "replay"
  <2>1. PICK ready \in BOOLEAN : ready = ReplayReady(FlowOf(s))
    BY DEF ReplayReady, AuthorizationReady
  <2>2. Presenting(s, c, w, "replay", ready)
    BY <1>6, <2>1 DEF Route, Replay
  <2>3. ready => AuthorizationReady(FlowOf(s))
    BY <2>1 DEF ReplayReady
  <2>4. QED
    BY <1>6, <2>1, <2>2, <2>3, PresentingTurn
<1>7. CASE name \in {"clear", "select"}
  <2>1. /\ Immediate(s, c, w, TRUE, EmptyFlow)
        /\ UNCHANGED <<runtime, issued, paid, served>>
    BY <1>7 DEF Route, Reset, ledger
  <2>2. QED
    BY <1>7, <2>1, ImmediateTurn, FlowTypes
<1>8. CASE name = "apply"
  <2>1. CASE Bootstrap(s, c, w)
    BY <1>8, <2>1, BootstrapTurn
  <2>2. CASE BootstrapRejected(s, c, w)
    <3>1. /\ Immediate(s, c, w, FALSE, x)
          /\ UNCHANGED <<runtime, issued, paid, served>>
      BY <1>2, <2>2 DEF BootstrapRejected, ledger
    <3>2. QED
      BY <1>2, <1>8, <3>1, ImmediateTurn
  <2>3. QED
    BY <1>8, <2>1, <2>2 DEF Route
<1>9. CASE name = "refresh"
  <2>1. /\ Immediate(s, c, w, TRUE, x)
        /\ UNCHANGED <<runtime, issued, paid, served>>
    BY <1>2, <1>9 DEF Route, Status, ledger
  <2>2. QED
    BY <1>2, <1>9, <2>1, ImmediateTurn
<1>10. QED
  BY <1>3, <1>4, <1>5, <1>6, <1>7, <1>8, <1>9 DEF Requests, Actions

\* What a request in progress can rely on.
LEMMA InProgress ==
  ASSUME FlowInv, NEW c \in Calls, call[c].pc \in Open
  PROVE  /\ call[c] \in Call /\ call[c].fid \in Fids /\ call[c].session \in Sessions
         /\ call[c].waited \in BOOLEAN /\ Object(c) \in Flow
         /\ Earned(call[c].session, Object(c)) /\ Sound(call[c])
         /\ Types /\ paid \subseteq DOMAIN issued /\ served \subseteq paid
<1>1. call[c].fid \in Fids /\ call[c].session \in Sessions /\ Owns(flows, call, call[c].session, call[c].fid)
  BY OwnersHold DEF FlowInv
<1>2. call \in [Calls -> Call] /\ flow \in [Fids -> Flow] /\ Types
  BY DEF FlowInv, SafeInv, Types, FlowTypeOK
<1>3. call[c].waited \in BOOLEAN
  BY <1>2 DEF Call
<1>4. QED
  BY <1>1, <1>2, <1>3 DEF FlowInv, SafeInv, ObjectsOK, TruthOK, CallsOK, Earned, Object, Types, FlowTypeOK

LEMMA AppendKeeps ==
  ASSUME NEW S, NEW q \in Seq(S), NEW e \in S
  PROVE  /\ Append(q, e) \in Seq(S) /\ Len(Append(q, e)) = Len(q) + 1
         /\ DOMAIN q \subseteq DOMAIN Append(q, e)
         /\ \A n \in DOMAIN q : Append(q, e)[n] = q[n]
         /\ Append(q, e)[Len(q) + 1] = e
OBVIOUS

LEMMA GoesTypes ==
  ASSUME FlowInv, NEW c \in Calls, call[c].pc \in Open, NEW k \in Call, NEW now \in Flow,
         Goes(c, k, now), runtime' = runtime, paid' \subseteq DOMAIN issued', served' \subseteq paid',
         paid \subseteq paid', served \subseteq served',
         \/ /\ issued' = issued
            /\ k.pc \in {"body", "hash", "issue"} => c \in Pending
         \/ /\ \E e \in Issue : issued' = Append(issued, e)
            /\ k.pc \notin {"body", "hash", "issue"} /\ c \in Pending
  PROVE  Types' /\ Grows
<1>1. Types /\ call[c].fid \in Fids
  BY InProgress
<1>2. /\ flow \in [Fids -> Flow] /\ call \in [Calls -> Call] /\ overlap \subseteq Fids
      /\ runtime \in Runtimes /\ issued \in Seq(Issue) /\ Len(issued) \in Nat
      /\ DOMAIN issued = 1 .. Len(issued)
  BY <1>1 DEF Types, FlowTypeOK
<1>3. /\ flows' = flows /\ call' = [call EXCEPT ![c] = k]
      /\ flow' = [g \in Fids |-> IF g \in Kept(flows', call')
                                 THEN [flow EXCEPT ![call[c].fid] = now][g] ELSE EmptyFlow]
      /\ overlap' \subseteq overlap
  BY DEF Goes, Update
<1>4. flow' \in [Fids -> Flow] /\ call' \in [Calls -> Call]
  BY <1>1, <1>2, <1>3, FlowTypes
<1>5. call'[c] = k /\ \A d \in Calls \ {c} : call'[d] = call[d]
  BY <1>2, <1>3
<1>6. c \in Pending' <=> k.pc \in {"body", "hash", "issue"}
  BY <1>5 DEF Pending, At
<1>7. /\ Cardinality(Pending) \in Nat /\ Cardinality(Pending') \in Nat
      /\ (c \notin Pending' \/ c \in Pending) => Cardinality(Pending') <= Cardinality(Pending)
      /\ c \in Pending \ Pending' => Cardinality(Pending') + 1 = Cardinality(Pending)
  BY <1>1, <1>5, PendingStep
<1>8. Len(issued) + Cardinality(Pending) <= MaxChallenges /\ MaxChallenges \in Nat
  BY <1>1, BoundsAssumption DEF Types
<1>9. /\ issued' \in Seq(Issue) /\ Len(issued') + Cardinality(Pending') <= MaxChallenges
      /\ DOMAIN issued \subseteq DOMAIN issued' /\ \A n \in DOMAIN issued : issued'[n] = issued[n]
  <2>1. CASE issued' = issued /\ (k.pc \in {"body", "hash", "issue"} => c \in Pending)
    <3>1. Cardinality(Pending') <= Cardinality(Pending)
      BY <1>6, <1>7, <2>1
    <3>2. Len(issued) + Cardinality(Pending') <= MaxChallenges
      BY <1>2, <1>7, <1>8, <3>1
    <3>3. QED
      BY <1>2, <2>1, <3>2
  <2>2. CASE /\ \E e \in Issue : issued' = Append(issued, e)
             /\ k.pc \notin {"body", "hash", "issue"} /\ c \in Pending
    <3>1. PICK q \in Seq(Issue), e \in Issue : q = issued /\ issued' = Append(q, e)
      BY <1>2, <2>2
    <3>2. /\ issued' \in Seq(Issue) /\ Len(issued') = Len(issued) + 1
          /\ DOMAIN issued \subseteq DOMAIN issued' /\ \A n \in DOMAIN issued : issued'[n] = issued[n]
      BY <3>1, AppendKeeps
    <3>3. Cardinality(Pending') + 1 = Cardinality(Pending)
      BY <1>6, <1>7, <2>2
    <3>4. Len(issued') + Cardinality(Pending') <= MaxChallenges
      BY <1>2, <1>7, <1>8, <3>2, <3>3
    <3>5. QED
      BY <3>2, <3>4
  <2>3. QED
    BY <2>1, <2>2
<1>10. \A i \in DOMAIN issued' : issued'[i] \in Issue
  BY <1>9
<1>11. FlowTypeOK'
  BY <1>1, <1>2, <1>3, <1>4, <1>10 DEF FlowTypeOK, Types, Issue
<1>12. Types'
  BY <1>1, <1>3, <1>9, <1>11 DEF Types
<1>13. QED
  BY <1>9, <1>12 DEF Grows

\* A stretch that leaves the ledger alone.
LEMMA QuietGoes ==
  ASSUME FlowInv, NEW c \in Calls, call[c].pc \in Open, NEW k \in Call, NEW now \in Flow,
         NEW s \in Sessions, s = call[c].session, NEW w \in BOOLEAN, w = call[c].waited,
         Goes(c, k, now), UNCHANGED <<runtime, issued, paid, served>>,
         k.pc \in {"body", "hash", "issue"} => c \in Pending,
         k.pc \in Open => k.fid = call[c].fid /\ k.session = s /\ k.waited = w,
         k.pc \notin Open => /\ k.fid = 0 /\ k.session = None
                             /\ k.pc = "done" => w /\ k.answer \in {now, EmptyFlow},
         Sound(k), Earned(s, now),
         Coherent(Object(c)) /\ InStep(call[c], Object(c)) =>
            Coherent(now) /\ (k.pc \in Open => InStep(k, now))
  PROVE  Turn(c, s, w) /\ (Apart(Me) => Apart(Me)')
<1>1. paid \subseteq DOMAIN issued /\ served \subseteq paid
  BY InProgress
<1>2. Types' /\ Grows
  BY <1>1, GoesTypes
<1>3. Sound(k)' /\ Earned(s, now)'
  BY DEF Sound, Earned, Own, Truthful
<1>4. Coherent(Object(c)) /\ InStep(call[c], Object(c)) =>
         Coherent(now)' /\ (k.pc \in Open => InStep(k, now)')
  BY DEF Coherent, InStep
<1>5. QED
  BY <1>2, <1>3, <1>4, GoesTurn

\* The end of a request, with its answer.
LEMMA EndsTurn ==
  ASSUME FlowInv, NEW c \in Calls, call[c].pc \in Open, NEW now \in Flow, NEW ok \in BOOLEAN,
         NEW s \in Sessions, s = call[c].session, NEW w \in BOOLEAN, w = call[c].waited,
         Ends(c, ok, now), runtime' = runtime, paid' \subseteq DOMAIN issued', served' \subseteq paid',
         paid \subseteq paid', served \subseteq served',
         issued' = issued \/ ((\E e \in Issue : issued' = Append(issued, e)) /\ c \in Pending),
         Earned(s, now)',
         Coherent(Object(c)) /\ InStep(call[c], Object(c)) => Coherent(now)'
  PROVE  Turn(c, s, w) /\ (Apart(Me) => Apart(Me)')
<1>1. PICK k \in Call : k = Answered(w, ok, now)
  BY AnsweredType
<1>2. /\ k.pc = (IF w THEN "done" ELSE "idle") /\ k.fid = 0 /\ k.session = None
      /\ k.answer \in {now, EmptyFlow}
  BY <1>1, AnsweredType
<1>3. Goes(c, k, now)
  BY <1>1 DEF Ends
<1>4. k.pc \notin Open /\ k.pc \notin {"body", "hash", "issue"} /\ Sound(k)'
  BY <1>2 DEF Open, Sound
<1>5. Types' /\ Grows
  BY <1>3, <1>4, GoesTypes
<1>6. QED
  BY <1>2, <1>3, <1>4, <1>5, GoesTurn

\* Every later stretch, of any route.
LEMMA ServeTurn ==
  ASSUME FlowInv, NEW c \in Calls, Serve(c),
         NEW s, s = call[c].session, NEW w, w = call[c].waited
  PROVE  call[c].pc \in Open /\ Turn(c, s, w) /\ (Apart(Me) => Apart(Me)')
<1>1. call[c].pc \in Open
  BY DEF Serve, UnpaidBody, UnpaidInvalid, UnpaidHash, UnpaidIssued, UnpaidUnavailable, PaySettles,
         PayFails, Present, PresentRefused, ProtectThrows, ContinueAnswered, ReplayAnswered,
         BootstrapAnswered, At, Open
<1>2. PICK k \in Call, x \in Flow, f \in Fids : k = call[c] /\ x = Object(c) /\ f = call[c].fid
  BY <1>1, InProgress
<1>3. /\ s \in Sessions /\ w \in BOOLEAN
      /\ Own(s, x) /\ Truthful(x) /\ Earned(s, x) /\ Sound(k)
      /\ k.fid = f /\ k.session = s /\ k.waited = w
      /\ Types /\ paid \subseteq DOMAIN issued /\ served \subseteq paid /\ runtime \in Runtimes
      /\ issued \in Seq(Issue) /\ Len(issued) \in Nat /\ DOMAIN issued = 1 .. Len(issued)
  <2>1. Types => /\ issued \in Seq(Issue) /\ Len(issued) \in Nat /\ DOMAIN issued = 1 .. Len(issued)
                 /\ runtime \in Runtimes
    BY DEF Types, FlowTypeOK
  <2>2. QED
    BY <1>1, <1>2, <2>1, InProgress DEF Earned
<1> DEFINE quiet == UNCHANGED <<runtime, issued, paid, served>>
<1>4. CASE UnpaidBody(c)
  <2>1. PICK r \in Resources :
          Goes(c, [k EXCEPT !.pc = "hash", !.resource = r], [x EXCEPT !.resource = r])
    BY <1>2, <1>4 DEF UnpaidBody
  <2>2. PICK n \in Call : n = [k EXCEPT !.pc = "hash", !.resource = r]
    BY DEF Call, Open
  <2>3. PICK y \in Flow : y = [x EXCEPT !.resource = r]
    BY DEF Flow
  <2>4. /\ n.pc = "hash" /\ n.fid = f /\ n.session = s /\ n.waited = w /\ n.resource = r
        /\ n.kind = k.kind
    BY <1>3, <2>2 DEF Call
  <2>5. y.challenge = x.challenge /\ y.auth = x.auth /\ y.receipt = x.receipt /\ y.replay = x.replay
    BY <2>3 DEF Flow
  <2>6. Earned(s, y)
    BY <1>3, <2>5 DEF Earned, Own, Truthful, Held
  <2>7. Sound(n)
    BY <2>4 DEF Sound
  <2>8. Coherent(x) /\ InStep(k, x) => Coherent(y) /\ InStep(n, y)
    <3>1. SUFFICES ASSUME x = [EmptyFlow EXCEPT !.resource = k.resource]
                   PROVE  Coherent(y) /\ InStep(n, y)
      BY <1>2, <1>4 DEF InStep, UnpaidBody, At
    <3>2. y = [EmptyFlow EXCEPT !.resource = r]
      BY <2>3, <3>1 DEF EmptyFlow
    <3>3. y.challenge = NoChallenge /\ y.auth = NoChallenge /\ y.receipt = NoChallenge /\ y.replay = "none"
      BY <3>2 DEF EmptyFlow
    <3>4. QED
      BY <2>4, <3>2, <3>3 DEF Coherent, InStep
  <2>9. quiet /\ c \in Pending /\ n.pc \in Open
    BY <1>4, <2>4 DEF UnpaidBody, ledger, Pending, Open
  <2>10. QED
    BY <1>1, <1>2, <1>3, <2>1, <2>2, <2>3, <2>4, <2>6, <2>7, <2>8, <2>9, QuietGoes
<1>5. CASE UnpaidInvalid(c) \/ PayFails(c) \/ BootstrapAnswered(c)
  <2>1. PICK ok \in BOOLEAN : Ends(c, ok, x)
    BY <1>2, <1>5 DEF UnpaidInvalid, PayFails, BootstrapAnswered
  <2>2. quiet
    BY <1>5 DEF UnpaidInvalid, PayFails, BootstrapAnswered, ledger
  <2>3. Earned(s, x)' /\ (Coherent(x) => Coherent(x)')
    BY <1>3, <2>2 DEF Earned, Own, Truthful, Coherent
  <2>4. QED
    BY <1>1, <1>2, <1>3, <2>1, <2>2, <2>3, EndsTurn
<1>6. CASE UnpaidHash(c)
  <2>1. PICK n \in Call : n = [k EXCEPT !.pc = "issue", !.runtime = runtime]
    BY <1>3 DEF Call, Open
  <2>2. Goes(c, n, x)
    BY <1>2, <1>6, <2>1 DEF UnpaidHash
  <2>3. /\ n.pc = "issue" /\ n.fid = f /\ n.session = s /\ n.waited = w /\ n.resource = k.resource
        /\ n.kind = k.kind /\ n.runtime = runtime
    BY <1>3, <2>1 DEF Call
  <2>4. k.pc = "hash"
    BY <1>2, <1>6 DEF UnpaidHash, At
  <2>5. Sound(n)
    BY <1>3, <2>3, <2>4 DEF Sound
  <2>6. InStep(k, x) => InStep(n, x)
    BY <2>3, <2>4 DEF InStep
  <2>7. quiet /\ c \in Pending /\ n.pc \in Open
    BY <1>6, <2>3 DEF UnpaidHash, ledger, Pending, Open
  <2>8. QED
    BY <1>1, <1>2, <1>3, <2>2, <2>3, <2>5, <2>6, <2>7, QuietGoes
<1>7. CASE UnpaidIssued(c)
  <2>1. /\ k.pc = "issue" /\ UNCHANGED <<runtime, paid, served>>
        /\ issued' = Append(issued, [session |-> s, resource |-> k.resource, runtime |-> k.runtime])
        /\ Ends(c, TRUE, [x EXCEPT !.challenge = Len(issued) + 1, !.body = TRUE])
    BY <1>2, <1>7 DEF UnpaidIssued, At
  <2>2. PICK e \in Issue : e = [session |-> s, resource |-> k.resource, runtime |-> k.runtime]
    BY <1>3, <2>1 DEF Sound, Issue
  <2>3. PICK m \in Challenges : m = Len(issued) + 1
    <3>1. c \in Pending
      BY <1>2, <2>1 DEF Pending, At
    <3>2. IsFiniteSet(Pending)
      <4>1. IsFiniteSet(Calls) /\ Pending \subseteq Calls
        BY FS_Interval, BoundsAssumption DEF Calls, Pending
      <4>2. QED
        BY <4>1, FS_Subset
    <3>3. Cardinality(Pending) \in Nat /\ Cardinality(Pending) # 0
      BY <3>1, <3>2, FS_EmptySet, FS_CardinalityType
    <3>4. Len(issued) + Cardinality(Pending) <= MaxChallenges
      BY <1>3 DEF Types
    <3>5. Len(issued) + 1 \in 1 .. MaxChallenges
      BY <1>3, <3>3, <3>4, BoundsAssumption
    <3>6. QED
      BY <3>5 DEF Challenges
  <2>4. PICK y \in Flow : y = [x EXCEPT !.challenge = m, !.body = TRUE]
    BY DEF Flow
  <2>5. /\ y.challenge = m /\ y.resource = x.resource
        /\ y.auth = x.auth /\ y.receipt = x.receipt /\ y.replay = x.replay
    BY <2>4 DEF Flow
  <2>6. /\ issued' = Append(issued, e) /\ Len(issued') = m /\ issued'[m] = e
        /\ \A n \in DOMAIN issued : issued'[n] = issued[n] /\ n \in DOMAIN issued'
    BY <1>3, <2>1, <2>2, <2>3, AppendKeeps
  <2>7. Earned(s, y)'
    <3>1. Held(x) \subseteq DOMAIN issued
      BY <1>3, HeldIsIssued
    <3>2. Held(y) \subseteq Held(x) \cup {m} /\ Held(y)' = Held(y)
      BY <2>5 DEF Held
    <3>3. \A n \in Held(y) : issued'[n].session = s
      BY <1>3, <2>2, <2>6, <3>1, <3>2 DEF Own
    <3>4. y.replay # "none" => \E n \in paid : issued'[n].session = s
      BY <1>3, <2>5, <2>6 DEF Own
    <3>5. Own(s, y)'
      BY <2>1, <3>2, <3>3, <3>4 DEF Own
    <3>6. Truthful(y)'
      BY <1>3, <2>1, <2>3, <2>5, <2>6 DEF Truthful
    <3>7. QED
      BY <3>5, <3>6 DEF Earned
  <2>8. Coherent(x) /\ InStep(k, x) => Coherent(y)'
    <3>1. SUFFICES ASSUME x = [EmptyFlow EXCEPT !.resource = k.resource], k.runtime = runtime
                   PROVE  Coherent(y)'
      BY <2>1 DEF InStep
    <3>2. x.resource = k.resource /\ x.auth = NoChallenge /\ x.receipt = NoChallenge /\ x.replay = "none"
      BY <3>1 DEF EmptyFlow
    <3>3. e.resource = k.resource /\ e.runtime = runtime
      BY <2>2, <3>1
    <3>4. QED
      BY <2>1, <2>5, <2>6, <3>2, <3>3 DEF Coherent
  <2>9. Ends(c, TRUE, y) /\ c \in Pending
    BY <1>2, <2>1, <2>3, <2>4 DEF Pending, At
  <2>10. paid' \subseteq DOMAIN issued' /\ served' \subseteq paid' /\ paid \subseteq paid' /\ served \subseteq served'
    BY <1>3, <2>1, <2>6
  <2>11. (\E g \in Issue : issued' = Append(issued, g)) /\ runtime' = runtime
    BY <2>1, <2>6
  <2>12. QED
    BY <1>1, <1>2, <1>3, <2>7, <2>8, <2>9, <2>10, <2>11, EndsTurn
<1>8. CASE UnpaidUnavailable(c)
  <2>1. PICK y \in Flow : y = [x EXCEPT !.challenge = NoChallenge, !.body = TRUE]
    BY DEF Flow
  <2>2. /\ y.challenge = NoChallenge /\ y.resource = x.resource
        /\ y.auth = x.auth /\ y.receipt = x.receipt /\ y.replay = x.replay
    BY <2>1 DEF Flow
  <2>3. k.pc = "issue" /\ Ends(c, FALSE, y) /\ quiet
    BY <1>2, <1>8, <2>1 DEF UnpaidUnavailable, At, ledger
  <2>4. Earned(s, y)'
    <3>1. Held(y) \subseteq Held(x)
      BY <2>2 DEF Held
    <3>2. Earned(s, y)
      BY <1>3, <2>2, <3>1 DEF Earned, Own, Truthful, NoChallenge
    <3>3. QED
      BY <2>3, <3>2 DEF Earned, Own, Truthful
  <2>5. Coherent(x) /\ InStep(k, x) => Coherent(y)'
    <3>1. SUFFICES ASSUME x = [EmptyFlow EXCEPT !.resource = k.resource] PROVE Coherent(y)'
      BY <2>3 DEF InStep
    <3>2. x.auth = NoChallenge /\ x.receipt = NoChallenge /\ x.replay = "none"
      BY <3>1 DEF EmptyFlow
    <3>3. QED
      BY <2>2, <3>2 DEF Coherent
  <2>6. QED
    BY <1>1, <1>2, <1>3, <2>3, <2>4, <2>5, EndsTurn
<1>9. CASE PaySettles(c)
  <2>1. /\ k.pc = "pay" /\ paid' = paid \cup {k.challenge} /\ UNCHANGED <<runtime, issued, served>>
        /\ Ends(c, TRUE, [x EXCEPT !.auth = k.challenge])
    BY <1>2, <1>9 DEF PaySettles, At
  <2>2. k.challenge \in DOMAIN issued /\ issued[k.challenge].session = s
    BY <1>3, <2>1 DEF Sound
  <2>3. PICK y \in Flow : y = [x EXCEPT !.auth = k.challenge]
    BY DEF Flow, Call
  <2>4. /\ y.challenge = x.challenge /\ y.resource = x.resource
        /\ y.auth = k.challenge /\ y.receipt = x.receipt /\ y.replay = x.replay
    BY <2>3 DEF Flow
  <2>5. Earned(s, y)'
    <3>1. Held(y) \subseteq Held(x) \cup {k.challenge} /\ Held(y)' = Held(y)
      BY <2>4 DEF Held
    <3>2. Own(s, y)'
      BY <1>3, <2>1, <2>2, <2>4, <3>1 DEF Own
    <3>3. Truthful(y)'
      BY <1>3, <2>1, <2>4 DEF Truthful
    <3>4. QED
      BY <3>2, <3>3 DEF Earned
  <2>6. Coherent(x) /\ InStep(k, x) => Coherent(y)'
    BY <2>1, <2>4 DEF Coherent, InStep
  <2>7. paid' \subseteq DOMAIN issued' /\ served' \subseteq paid' /\ paid \subseteq paid' /\ served \subseteq served'
    BY <1>3, <2>1, <2>2
  <2>8. QED
    BY <1>1, <1>2, <1>3, <2>1, <2>3, <2>5, <2>6, <2>7, EndsTurn
<1>10. CASE Present(c)
  <2> PICK v \in {"served", "failed"} : Goes(c, [k EXCEPT !.pc = "presented", !.verdict = v], x)
    BY <1>2, <1>10 DEF Present
  <2>1. PICK n \in Call : n = [k EXCEPT !.pc = "presented", !.verdict = v]
    BY DEF Call, Open, Verdicts
  <2>2. /\ n.pc = "presented" /\ n.fid = f /\ n.session = s /\ n.waited = w
        /\ n.kind = k.kind /\ n.challenge = k.challenge /\ n.verdict = v
    BY <1>3, <2>1 DEF Call
  <2>3. /\ k.pc = "present" /\ k.challenge \in paid \ served
        /\ served' = served \cup {k.challenge} /\ UNCHANGED <<runtime, issued, paid>>
        /\ Goes(c, n, x)
    BY <1>2, <1>10, <2>1 DEF Present, At, Redeemable
  <2>4. Sound(n)'
    BY <1>3, <2>2, <2>3 DEF Sound
  <2>5. Earned(s, x)'
    BY <1>3, <2>3 DEF Earned, Own, Truthful
  <2>6. Coherent(x) /\ InStep(k, x) => Coherent(x)' /\ InStep(n, x)'
    BY <2>2, <2>3 DEF Coherent, InStep
  <2>7. /\ paid' \subseteq DOMAIN issued' /\ served' \subseteq paid'
        /\ paid \subseteq paid' /\ served \subseteq served' /\ runtime' = runtime /\ issued' = issued
    BY <1>3, <2>3
  <2>8. Types' /\ Grows
    BY <1>1, <2>2, <2>3, <2>7, GoesTypes
  <2>9. QED
    BY <1>1, <1>2, <1>3, <2>2, <2>3, <2>4, <2>5, <2>6, <2>7, <2>8, GoesTurn DEF Open
<1>11. CASE PresentRefused(c)
  <2>1. PICK v \in {"failed", "refused"} : Goes(c, [k EXCEPT !.pc = "presented", !.verdict = v], x)
    BY <1>2, <1>11 DEF PresentRefused
  <2>2. PICK n \in Call : n = [k EXCEPT !.pc = "presented", !.verdict = v]
    BY DEF Call, Open, Verdicts
  <2>3. /\ n.pc = "presented" /\ n.fid = f /\ n.session = s /\ n.waited = w
        /\ n.kind = k.kind /\ n.challenge = k.challenge /\ n.verdict # "served"
    BY <1>3, <2>2 DEF Call
  <2>4. k.pc = "present" /\ quiet /\ Goes(c, n, x)
    BY <1>2, <1>11, <2>1, <2>2 DEF PresentRefused, At, ledger
  <2>5. Sound(n) /\ n.pc \in Open /\ n.pc \notin {"body", "hash", "issue"}
    BY <1>3, <2>3, <2>4 DEF Sound, Open
  <2>6. InStep(k, x) => InStep(n, x)
    BY <2>3, <2>4 DEF InStep
  <2>7. QED
    BY <1>1, <1>2, <1>3, <2>3, <2>4, <2>5, <2>6, QuietGoes
<1>12. CASE ContinueAnswered(c)
  <2>1. PICK m \in Challenges \cup {NoChallenge} :
          m = IF k.verdict = "served" THEN k.challenge ELSE NoChallenge
    BY DEF Call
  <2>2. PICK y \in Flow : y = [x EXCEPT !.receipt = m]
    BY DEF Flow
  <2>3. /\ y.challenge = x.challenge /\ y.resource = x.resource
        /\ y.auth = x.auth /\ y.receipt = m /\ y.replay = x.replay
    BY <2>2 DEF Flow
  <2>4. k.pc = "presented" /\ Ends(c, TRUE, y) /\ quiet
    BY <1>2, <1>12, <2>1, <2>2 DEF ContinueAnswered, At, ledger
  <2>5. m # NoChallenge => m \in served /\ issued[m].session = s
    BY <1>3, <2>1, <2>4 DEF Sound
  <2>6. Earned(s, y)'
    <3>1. Held(y) \subseteq Held(x) \cup ({m} \ {NoChallenge})
      BY <2>3 DEF Held
    <3>2. Earned(s, y)
      BY <1>3, <2>3, <2>5, <3>1 DEF Earned, Own, Truthful
    <3>3. QED
      BY <2>4, <3>2 DEF Earned, Own, Truthful
  <2>7. Coherent(x) /\ InStep(k, x) => Coherent(y)'
    BY <2>1, <2>3, <2>4 DEF Coherent, InStep
  <2>8. QED
    BY <1>1, <1>2, <1>3, <2>4, <2>6, <2>7, EndsTurn
<1>13. CASE ReplayAnswered(c)
  <2>1. PICK y \in Flow : y = [x EXCEPT !.replay = k.verdict]
    BY DEF Flow, Call
  <2>2. /\ y.challenge = x.challenge /\ y.resource = x.resource
        /\ y.auth = x.auth /\ y.receipt = x.receipt /\ y.replay = k.verdict
    BY <2>1 DEF Flow
  <2>3. k.pc = "presented" /\ k.kind = "replay" /\ Ends(c, TRUE, y) /\ quiet
    BY <1>2, <1>13, <2>1 DEF ReplayAnswered, At, ledger
  <2>4. k.challenge \in paid /\ issued[k.challenge].session = s
    BY <1>3, <2>3 DEF Sound
  <2>5. Earned(s, y)'
    <3>1. Held(y) = Held(x)
      BY <2>2 DEF Held
    <3>2. Earned(s, y)
      BY <1>3, <2>2, <2>4, <3>1 DEF Earned, Own, Truthful
    <3>3. QED
      BY <2>3, <3>2 DEF Earned, Own, Truthful
  <2>6. Coherent(x) /\ InStep(k, x) => Coherent(y)'
    BY <2>2, <2>3 DEF Coherent, InStep
  <2>7. QED
    BY <1>1, <1>2, <1>3, <2>3, <2>5, <2>6, EndsTurn
<1>14. CASE ProtectThrows(c)
  <2>1. /\ Ends(c, FALSE, x) /\ UNCHANGED <<runtime, issued, paid>>
        /\ \/ UNCHANGED served
           \/ k.challenge \in paid /\ served' = served \cup {k.challenge}
    BY <1>2, <1>14 DEF ProtectThrows, Redeemable
  <2>2. Earned(s, x)' /\ (Coherent(x) => Coherent(x)')
    BY <1>3, <2>1 DEF Earned, Own, Truthful, Coherent
  <2>3. paid' \subseteq DOMAIN issued' /\ served' \subseteq paid' /\ paid \subseteq paid' /\ served \subseteq served'
    BY <1>3, <2>1
  <2>4. QED
    BY <1>1, <1>2, <1>3, <2>1, <2>2, <2>3, EndsTurn
<1>15. QED
  BY <1>4, <1>5, <1>6, <1>7, <1>8, <1>9, <1>10, <1>11, <1>12, <1>13, <1>14 DEF Serve

-----------------------------------------------------------------------------
(* The tab                                                                 *)

\* What was earned stays earned.
LEMMA EarnedGrows ==
  ASSUME FlowInv, FlowInv', Grows
  PROVE  /\ \A f \in Flow : Earned(Me, f) => Earned(Me, f)'
         /\ \A p \in Phases : EarnedPhase(p) => EarnedPhase(p)'
<1>1. Types /\ Types' /\ paid \subseteq DOMAIN issued /\ served \subseteq paid
  BY DEF FlowInv, SafeInv, Types, FlowTypeOK
<1>2. ASSUME NEW f \in Flow, Earned(Me, f) PROVE Earned(Me, f)'
  <2>1. Own(Me, f)' /\ Truthful(f)'
    BY <1>1, <1>2, OwnGrows, TruthfulGrows DEF Earned
  <2>2. QED
    BY <2>1 DEF Earned
<1>3. ASSUME NEW p \in Phases, EarnedPhase(p) PROVE EarnedPhase(p)'
  BY <1>1, <1>3 DEF EarnedPhase, Grows
<1>4. QED
  BY <1>2, <1>3

\* What a flow earned, the phase may say.
LEMMA ShownIsEarned ==
  ASSUME NEW f \in Flow, Earned(Me, f), NEW p \in Phases, EarnedPhase(p), FlowInv
  PROVE  InferPhase(f, p) \in Phases /\ EarnedPhase(InferPhase(f, p))
<1>1. served \subseteq paid
  BY DEF FlowInv, SafeInv, Types, FlowTypeOK
<1>2. CASE f.replay = "refused"
  <2>1. InferPhase(f, p) = "replay_rejected"
    BY <1>2 DEF InferPhase
  <2>2. QED
    BY <1>2, <2>1 DEF Earned, Own, EarnedPhase, Phases
<1>3. CASE f.replay # "refused" /\ f.receipt # NoChallenge
  <2>1. InferPhase(f, p) = "receipt_returned"
    BY <1>3 DEF InferPhase
  <2>2. f.receipt \in served /\ issued[f.receipt].session = Me
    BY <1>3 DEF Earned, Own, Truthful, Held
  <2>3. QED
    BY <1>1, <2>1, <2>2 DEF EarnedPhase, Phases
<1>4. CASE f.replay # "refused" /\ f.receipt = NoChallenge /\ f.auth # NoChallenge
  <2>1. InferPhase(f, p) = "payment_settled"
    BY <1>4 DEF InferPhase
  <2>2. f.auth \in paid /\ issued[f.auth].session = Me
    BY <1>4 DEF Earned, Own, Truthful, Held
  <2>3. QED
    BY <2>1, <2>2 DEF EarnedPhase, Phases
<1>5. CASE f.replay # "refused" /\ f.receipt = NoChallenge /\ f.auth = NoChallenge
  <2>1. InferPhase(f, p) \in {"challenge_received", p}
    BY <1>5 DEF InferPhase
  <2>2. QED
    BY <2>1 DEF EarnedPhase, Phases
<1>6. QED
  BY <1>2, <1>3, <1>4, <1>5

\* The answers of the requests, when slot c changes.
LEMMA AnswersStep ==
  ASSUME FlowInv, AnswersOK, NEW c \in Calls, NEW s, NEW w, Turn(c, s, w), w => s = Me
  PROVE  AnswersOK'
<1> SUFFICES ASSUME NEW d \in Calls
             PROVE  /\ At(d, "done")' => Earned(Me, call[d].answer)'
                    /\ call'[d].pc \in Open /\ call'[d].waited => call'[d].session = Me
  BY DEF AnswersOK
<1>1. CASE d = c
  <2>1. At(c, "done")' => w
    BY DEF Turn, At
  <2>2. QED
    BY <1>1, <2>1 DEF Turn
<1>2. CASE d # c
  <2>1. call'[d] = call[d] /\ FlowInv' /\ Grows
    BY <1>2 DEF Turn
  <2>2. PICK f \in Flow : f = call[d].answer
    BY DEF FlowInv, SafeInv, Types, FlowTypeOK, Call
  <2>3. At(d, "done") => Earned(Me, f)'
    BY <2>1, <2>2, EarnedGrows DEF AnswersOK
  <2>4. At(d, "done")' => Earned(Me, call[d].answer)'
    BY <2>1, <2>2, <2>3 DEF At
  <2>5. QED
    BY <2>1, <2>4 DEF AnswersOK
<1>3. QED
  BY <1>1, <1>2

\* The tab drops an answer, or stops waiting for one.
LEMMA DropStep ==
  ASSUME FlowInv, AnswersOK, NEW c \in Calls, UNCHANGED server, NEW k,
         call' = [call EXCEPT ![c] = k],
         \/ call[c].pc \notin Open /\ k = Idle
         \/ k = [call[c] EXCEPT !.waited = FALSE]
  PROVE  /\ FlowInv' /\ Grows /\ AnswersOK' /\ (Apart(Me) <=> Apart(Me)')
         /\ \A d \in Calls \ {c} : call'[d] = call[d]
         /\ call'[c].pc \in Open => call[c].pc \in Open /\ call'[c].session = call[c].session
<1>1. /\ UNCHANGED <<flows, flow, runtime, issued, paid, served, overlap>>
      /\ call \in [Calls -> Call] /\ Types /\ OwnersOK /\ Holds(call[c])
  BY DEF server, ledger, FlowInv, SafeInv, Types, FlowTypeOK, OwnersOK
<1>2. PICK o \in Call : o = call[c]
  BY <1>1
<1>3. /\ k \in Call /\ k.fid = o.fid /\ k.session = o.session
      /\ k.pc \in Open => /\ k.pc = o.pc /\ k.kind = o.kind /\ k.resource = o.resource
                          /\ k.challenge = o.challenge /\ k.runtime = o.runtime
                          /\ k.verdict = o.verdict /\ ~k.waited
      /\ (k.pc \in Open <=> o.pc \in Open)
      /\ k.pc = "done" => o.pc = "done" /\ k.answer = o.answer
  <2>1. CASE o.pc \notin Open /\ k = Idle
    BY <1>1, <1>2, <2>1, IdleType DEF Holds, Idle, Open
  <2>2. CASE k = [o EXCEPT !.waited = FALSE]
    BY <2>2 DEF Call
  <2>3. QED
    BY <1>2, <2>1, <2>2
<1>4. /\ call' \in [Calls -> Call] /\ call'[c] = k
      /\ \A d \in Calls \ {c} : call'[d] = call[d]
      /\ \A d \in Calls : /\ call'[d].fid = call[d].fid /\ call'[d].session = call[d].session
                          /\ call'[d].pc \in Open <=> call[d].pc \in Open
                          /\ call'[d].pc \in Open => call'[d].pc = call[d].pc
  BY <1>1, <1>2, <1>3
<1>5. Kept(flows', call') = Kept(flows, call)
  BY <1>1, <1>4 DEF Kept
<1>6. \A s, f : Owns(flows', call', s, f) <=> Owns(flows, call, s, f)
  BY <1>1, <1>4 DEF Owns
<1>7. Pending' = Pending
  BY <1>4 DEF Pending, At, Open
<1>8. Types'
  BY <1>1, <1>4, <1>7 DEF Types, FlowTypeOK
<1>9. OwnersOK'
  <2>1. \A d \in Calls : Holds(call'[d])
    BY <1>1, <1>4 DEF OwnersOK, Holds
  <2>2. QED
    BY <1>1, <1>5, <1>6, <2>1 DEF OwnersOK
<1>10. ObjectsOK' /\ TruthOK'
  BY <1>1, <1>6 DEF FlowInv, SafeInv, ObjectsOK, TruthOK, Own, Truthful
<1>11. CallsOK'
  <2> SUFFICES ASSUME NEW d \in Calls PROVE Sound(call[d])'
    BY DEF CallsOK
  <2>1. Sound(call[d]) /\ Sound(o)
    BY <1>2 DEF FlowInv, SafeInv, CallsOK
  <2>2. Sound(k)
    BY <1>3, <2>1 DEF Sound, Open
  <2>3. QED
    BY <1>1, <1>4, <2>1, <2>2 DEF Sound
<1>12. CoherenceOK'
  <2> SUFFICES ASSUME NEW i \in DOMAIN flows, flows[i].fid \notin overlap,
                      NEW g, g = flows[i].fid
               PROVE  CoherentAt(g)'
    BY <1>1 DEF CoherenceOK
  <2>1. CoherentAt(g)
    BY DEF FlowInv, CoherenceOK
  <2>2. OpenAt(g)' = OpenAt(g)
    BY <1>4 DEF OpenAt
  <2>3. ASSUME NEW d \in OpenAt(g) PROVE InStep(call[d], flow[g])'
    <3>1. InStep(call[d], flow[g])
      BY <2>1, <2>3 DEF CoherentAt
    <3>2. CASE d = c
      <4>1. k.pc \in Open
        BY <1>4, <2>3, <3>2 DEF OpenAt
      <4>2. InStep(k, flow[g])
        BY <1>2, <1>3, <3>1, <3>2, <4>1 DEF InStep
      <4>3. QED
        BY <1>1, <1>4, <3>2, <4>2 DEF InStep
    <3>3. CASE d # c
      BY <1>1, <1>4, <2>3, <3>1, <3>3 DEF InStep, OpenAt
    <3>4. QED
      BY <3>2, <3>3
  <2>4. Coherent(flow[g])'
    BY <1>1, <2>1 DEF CoherentAt, Coherent
  <2>5. QED
    BY <2>1, <2>2, <2>3, <2>4 DEF CoherentAt
<1>13. AnswersOK'
  <2> SUFFICES ASSUME NEW d \in Calls
               PROVE  /\ At(d, "done")' => Earned(Me, call[d].answer)'
                      /\ call'[d].pc \in Open /\ call'[d].waited => call'[d].session = Me
    BY DEF AnswersOK
  <2>1. At(d, "done")' => At(d, "done") /\ call'[d].answer = call[d].answer
    BY <1>2, <1>3, <1>4 DEF At
  <2>2. At(d, "done")' => Earned(Me, call[d].answer)'
    BY <1>1, <2>1 DEF AnswersOK, Earned, Own, Truthful
  <2>3. call'[d].pc \in Open /\ call'[d].waited => call[d].waited
    BY <1>3, <1>4
  <2>4. QED
    BY <1>4, <2>2, <2>3 DEF AnswersOK
<1>14. Apart(Me) <=> Apart(Me)'
  BY <1>1 DEF Apart, Mine
<1>15. QED
  BY <1>1, <1>4, <1>8, <1>9, <1>10, <1>11, <1>12, <1>13, <1>14 DEF FlowInv, SafeInv, Grows

\* What a step of the tab that touches slot c has to show.
LEMMA TabStep ==
  ASSUME TypeOK, FlowInv, ScreenOK, JobsOK, FlowInv', Grows, NEW c \in Calls,
         NEW f \in Flow, shown' = f, Earned(Me, f),
         NEW p \in Phases, phase' = p, EarnedPhase(p),
         NEW j \in Job, job' = [job EXCEPT ![c] = j], Earned(Me, j.latest), EarnedPhase(j.phase),
         j.stage \in Unsent => call'[c].pc = "idle", j.stage = "resend" => j.name = "pay",
         j.stage = "none" <=> j.name = "none", j.name = "none" => j = NoJob,
         \A d \in Calls \ {c} : call'[d] = call[d],
         busy' \in BOOLEAN, refreshing' \in BOOLEAN, strayed' \in BOOLEAN,
         left' \in 0 .. MaxDisturbances
  PROVE  TypeOK' /\ ScreenOK' /\ JobsOK'
<1>1. job \in [Calls -> Job] /\ j.latest \in Flow /\ j.phase \in Phases
  BY DEF TypeOK, Job
<1>2. /\ job' \in [Calls -> Job] /\ job'[c] = j
      /\ \A d \in Calls \ {c} : job'[d] = job[d]
  BY <1>1
<1>3. TypeOK'
  BY <1>2 DEF TypeOK, FlowInv, SafeInv, Types
<1>4. /\ \A g \in Flow : Earned(Me, g) => Earned(Me, g)'
      /\ \A q \in Phases : EarnedPhase(q) => EarnedPhase(q)'
  BY EarnedGrows
<1>5. ScreenOK'
  <2>1. Earned(Me, f)' /\ EarnedPhase(p)'
    BY <1>4
  <2>2. Earned(Me, shown)' /\ EarnedPhase(phase)'
    BY <2>1 DEF Earned, Own, Truthful, EarnedPhase
  <2>3. ASSUME NEW d \in Calls PROVE Earned(Me, job[d].latest)' /\ EarnedPhase(job[d].phase)'
    <3>1. PICK g \in Flow, q \in Phases :
            g = job'[d].latest /\ q = job'[d].phase /\ Earned(Me, g) /\ EarnedPhase(q)
      <4>1. CASE d = c
        BY <1>1, <1>2, <4>1
      <4>2. CASE d # c
        <5>1. job'[d] = job[d] /\ job[d] \in Job
          BY <1>1, <1>2, <4>2
        <5>2. QED
          BY <5>1 DEF ScreenOK, Job
      <4>3. QED
        BY <4>1, <4>2
    <3>2. Earned(Me, g)' /\ EarnedPhase(q)'
      BY <1>4, <3>1
    <3>3. QED
      BY <3>1, <3>2
  <2>4. QED
    BY <2>2, <2>3 DEF ScreenOK
<1>6. JobsOK'
  BY <1>2 DEF JobsOK, At
<1>7. QED
  BY <1>3, <1>5, <1>6

\* A step of the server or of another client leaves the tab alone.
LEMMA AsideStep ==
  ASSUME TypeOK, FlowInv, ScreenOK, JobsOK, FlowInv', Grows,
         UNCHANGED <<shown, phase, busy, refreshing, job>>, strayed' \in BOOLEAN,
         left' \in 0 .. MaxDisturbances,
         \A d \in Calls : job[d].stage \in Unsent => call'[d].pc = "idle"
  PROVE  TypeOK' /\ ScreenOK' /\ JobsOK'
<1>1. TypeOK'
  BY DEF TypeOK, FlowInv, SafeInv, Types
<1>2. /\ \A g \in Flow : Earned(Me, g) => Earned(Me, g)'
      /\ \A q \in Phases : EarnedPhase(q) => EarnedPhase(q)'
  BY EarnedGrows
<1>3. ScreenOK'
  <2>1. shown \in Flow /\ phase \in Phases /\ \A d \in Calls : job[d].latest \in Flow /\ job[d].phase \in Phases
    BY DEF TypeOK, Job
  <2>2. PICK f \in Flow, p \in Phases : f = shown /\ p = phase
    BY <2>1
  <2>3. Earned(Me, f)' /\ EarnedPhase(p)'
    BY <1>2, <2>2 DEF ScreenOK
  <2>4. ASSUME NEW d \in Calls PROVE Earned(Me, job[d].latest)' /\ EarnedPhase(job[d].phase)'
    <3>1. PICK g \in Flow, q \in Phases : g = job[d].latest /\ q = job[d].phase
      BY <2>1
    <3>2. Earned(Me, g)' /\ EarnedPhase(q)'
      BY <1>2, <3>1 DEF ScreenOK
    <3>3. job'[d].latest = g /\ job'[d].phase = q
      BY <3>1
    <3>4. QED
      BY <3>2, <3>3
  <2>5. shown' = f /\ phase' = p
    BY <2>2
  <2>6. QED
    BY <2>3, <2>4, <2>5 DEF ScreenOK
<1>4. JobsOK'
  BY DEF JobsOK, At
<1>5. QED
  BY <1>1, <1>3, <1>4

\* The job a function starts.
LEMMA StartJob ==
  ASSUME NEW c \in Calls, NEW name \in Requests, NEW stage \in {"send", "resend"},
         NEW f \in Flow, NEW p \in Phases, Start(c, name, stage, f, p)
  PROVE  \E j \in Job : /\ job' = [job EXCEPT ![c] = j]
                        /\ j.name = name /\ j.stage = stage /\ j.latest = f /\ j.phase = p
                        /\ j.name # "none" /\ j.stage # "none"
<1> DEFINE j == [name |-> name, stage |-> stage, latest |-> f, phase |-> p]
<1>1. j \in Job
  BY DEF Job, Requests
<1>2. QED
  BY <1>1 DEF Start, Requests, Actions

LEMMA NoJobType == NoJob \in Job /\ NoJob.latest = EmptyFlow /\ NoJob.phase = "idle"
                     /\ NoJob.name = "none" /\ NoJob.stage = "none"
BY FlowTypes DEF NoJob, Job, Phases

LEMMA EmptyIsEarned == ASSUME FlowInv PROVE Earned(Me, EmptyFlow) /\ EarnedPhase("idle")
BY EmptyIsSafe DEF Earned, EarnedPhase, FlowInv, SafeInv

\* When nothing strayed, a tab without a running function has nothing open.
LEMMA QuietTab ==
  ASSUME BusyOK, ~strayed, Running = {}
  PROVE  (\A d \in Calls : ~Working(d)) /\ Apart(Me) /\ \A c : Alone(c, Me)
BY DEF BusyOK, Working, Alone

\* The flows and the requests the server works on stay as they are.
LEMMA QuietServer ==
  ASSUME IInv, UNCHANGED flowVars
  PROVE  FlowInv' /\ AnswersOK' /\ Grows /\ call' = call /\ (Apart(Me) <=> Apart(Me)')
<1>1. UNCHANGED <<flows, flow, runtime, issued, paid, served, call, overlap>>
  BY DEF flowVars
<1>2. FlowInv' <=> FlowInv
  BY <1>1 DEF FlowInv, SafeInv, Types, FlowTypeOK, OwnersOK, ObjectsOK, CallsOK, TruthOK, CoherenceOK,
              Pending, At, Kept, Owns, Own, Truthful, Sound, CoherentAt, Coherent, InStep, OpenAt
<1>3. AnswersOK' <=> AnswersOK
  BY <1>1 DEF AnswersOK, Earned, Own, Truthful, At
<1>4. QED
  BY <1>1, <1>2, <1>3 DEF IInv, Grows, Apart, Mine, FlowInv, SafeInv, Types, FlowTypeOK

\* What a new function leaves of BusyOK.
LEMMA BusyBegun ==
  ASSUME IInv, NEW c \in Calls, job[c] = NoJob, UNCHANGED flowVars,
         NEW j \in Job, job' = [job EXCEPT ![c] = j],
         ~strayed' => ~strayed /\ Running = {},
         j.name \in Requests \ {"refresh"}, j.stage = "send", busy' \/ j.name = "select"
  PROVE  BusyOK'
<1> SUFFICES ASSUME ~strayed' PROVE BusyOK'
  BY DEF BusyOK
<1>1. job \in [Calls -> Job] /\ UNCHANGED <<flows, overlap, call>>
  BY DEF IInv, TypeOK, flowVars
<1>2. (\A d \in Calls : ~Working(d)) /\ Apart(Me) /\ Running = {}
  BY QuietTab DEF IInv
<1>3. job'[c] = j /\ \A d \in Calls \ {c} : job'[d] = job[d]
  BY <1>1
<1>4. Running' = {c}
  BY <1>2, <1>3 DEF Running
<1>5. (\A d \in Calls : ~Working(d)') /\ Apart(Me)'
  BY <1>1, <1>2 DEF Working, Apart, Mine
<1>6. \A d \in Calls : job'[d].stage = "lost" => job'[d].name = "refresh"
  BY <1>3 DEF IInv, BusyOK
<1>7. QED
  BY <1>3, <1>4, <1>5, <1>6 DEF BusyOK

\* Or a step that starts and ends no function.
LEMMA BusyStays ==
  ASSUME IInv, NEW c \in Calls,
         \A d \in Calls \ {c} : job'[d] = job[d] /\ call'[d] = call[d],
         c \in Running' <=> c \in Running, c \in Running => job'[c].name = job[c].name,
         job'[c].stage = "lost" => job'[c].name = "refresh",
         busy' = busy, Working(c)' => c \in Running, ~strayed' => ~strayed /\ Apart(Me)'
  PROVE  BusyOK'
<1> SUFFICES ASSUME ~strayed, Apart(Me)' PROVE BusyOK'
  BY DEF BusyOK
<1>1. /\ \A d \in Calls : Working(d) => d \in Running
      /\ \A d, e \in Running : d = e
      /\ busy \/ \A d \in Running : job[d].name = "select"
      /\ \A d \in Calls : job[d].stage = "lost" => job[d].name = "refresh"
  BY DEF IInv, BusyOK
<1>2. Running' = Running /\ \A d \in Running : job'[d].name = job[d].name
  BY DEF Running
<1>3. \A d \in Calls : Working(d)' => d \in Running'
  BY <1>1, <1>2 DEF Working
<1>4. \A d, e \in Running' : d = e
  BY <1>1, <1>2
<1>5. busy' \/ \A d \in Running' : job'[d].name = "select"
  BY <1>1, <1>2
<1>6. \A d \in Calls : job'[d].stage = "lost" => job'[d].name = "refresh"
  BY <1>1
<1>7. QED
  BY <1>3, <1>4, <1>5, <1>6 DEF BusyOK

\* Or a step that ends one.
LEMMA BusyEnded ==
  ASSUME IInv, NEW c \in Running, job'[c] = NoJob, call'[c].pc \notin Open,
         \A d \in Calls \ {c} : job'[d] = job[d] /\ call'[d] = call[d],
         Apart(Me) => Apart(Me)', ~strayed' => ~strayed
  PROVE  BusyOK'
<1> SUFFICES ASSUME ~strayed PROVE BusyOK'
  BY DEF BusyOK
<1>1. /\ \A d \in Calls : Working(d) => d = c
      /\ \A d \in Running : d = c
      /\ Apart(Me)'
  BY DEF IInv, BusyOK
<1>2. Running' = {}
  BY <1>1, NoJobType DEF Running
<1>3. \A d \in Calls : ~Working(d)'
  BY <1>1 DEF Working
<1>4. \A d \in Calls : job'[d].stage = "lost" => job'[d].name = "refresh"
  BY NoJobType DEF IInv, BusyOK
<1>5. QED
  BY <1>1, <1>2, <1>3, <1>4 DEF BusyOK

-----------------------------------------------------------------------------
(* The actions                                                             *)

LEMMA Parts ==
  ASSUME IInv
  PROVE  /\ TypeOK /\ FlowInv /\ AnswersOK /\ ScreenOK /\ JobsOK /\ BusyOK /\ SafeInv /\ Types
         /\ shown \in Flow /\ phase \in Phases
         /\ busy \in BOOLEAN /\ refreshing \in BOOLEAN /\ strayed \in BOOLEAN
         /\ job \in [Calls -> Job] /\ call \in [Calls -> Call] /\ left \in 0 .. MaxDisturbances
         /\ Earned(Me, shown) /\ EarnedPhase(phase) /\ Me \in Sessions
         /\ EmptyFlow \in Flow /\ Earned(Me, EmptyFlow) /\ EarnedPhase("idle") /\ "idle" \in Phases
BY FlowTypes, EmptyIsEarned, ConsoleAssumption
   DEF IInv, TypeOK, FlowInv, SafeInv, Types, FlowTypeOK, ScreenOK, Phases

LEMMA Disturbs ==
  ASSUME TypeOK, UNCHANGED left \/ Disturb \/ DisturbTwice
  PROVE  left' \in 0 .. MaxDisturbances
BY ConsoleAssumption DEF TypeOK, Disturb, DisturbTwice

\* A function begins: its request is on its way.
LEMMA FunctionBegins ==
  ASSUME IInv, NEW c \in Calls, Free(c), NEW name \in Requests, UNCHANGED flowVars,
         UNCHANGED left \/ Disturb \/ DisturbTwice,
         NEW f \in Flow, Earned(Me, f), NEW p \in Phases, EarnedPhase(p),
         Start(c, name, "send", f, p),
         NEW g \in Flow, shown' = g, Earned(Me, g), NEW q \in Phases, phase' = q, EarnedPhase(q),
         busy' \in BOOLEAN, refreshing' \in BOOLEAN, strayed' \in BOOLEAN
  PROVE  /\ TypeOK' /\ FlowInv' /\ AnswersOK' /\ ScreenOK' /\ JobsOK' /\ call' = call
         /\ (Apart(Me) <=> Apart(Me)') /\ call[c].pc = "idle" /\ job[c] = NoJob
         /\ \E j \in Job : job' = [job EXCEPT ![c] = j] /\ j.name = name /\ j.stage = "send"
<1>1. call[c].pc = "idle" /\ job[c] = NoJob
  BY DEF Free, Vacant
<1>2. FlowInv' /\ AnswersOK' /\ Grows /\ call' = call /\ (Apart(Me) <=> Apart(Me)')
  BY QuietServer
<1>3. PICK j \in Job : /\ job' = [job EXCEPT ![c] = j]
                       /\ j.name = name /\ j.stage = "send" /\ j.latest = f /\ j.phase = p
                       /\ j.name # "none" /\ j.stage # "none"
  BY StartJob
<1>4. left' \in 0 .. MaxDisturbances
  BY Parts, Disturbs
<1>5. TypeOK' /\ ScreenOK' /\ JobsOK'
  BY <1>1, <1>2, <1>3, <1>4, Parts, TabStep
<1>6. QED
  BY <1>1, <1>2, <1>3, <1>5

LEMMA OnlySelecting ==
  ASSUME IInv, ~busy, ~strayed, ~Selecting PROVE Running = {}
BY DEF IInv, BusyOK, Selecting

LEMMA PressStep ==
  ASSUME IInv, NEW c \in Calls, NEW a \in Actions, Press(c, a)
  PROVE  IInv'
<1>1. /\ ~busy /\ Free(c) /\ busy' = TRUE
      /\ strayed' = (strayed \/ Selecting) /\ (UNCHANGED left \/ Disturb)
      /\ Start(c, a, "send", shown, phase)
      /\ phase' \in {"unpaid_request_sent", phase} /\ UNCHANGED <<shown, refreshing>>
      /\ UNCHANGED flowVars
  BY DEF Press
<1>2. PICK f \in Flow, p \in Phases, q \in Phases :
         /\ f = shown /\ p = phase /\ q = phase'
         /\ Earned(Me, f) /\ EarnedPhase(p) /\ EarnedPhase(q)
  BY <1>1, Parts DEF Phases, EarnedPhase
<1>3. a \in Requests /\ Start(c, a, "send", f, p) /\ shown' = f /\ phase' = q
  BY <1>1, <1>2 DEF Requests
<1>4. strayed' \in BOOLEAN /\ busy' \in BOOLEAN /\ refreshing' \in BOOLEAN
  BY <1>1, Parts DEF Selecting
<1>5. /\ TypeOK' /\ FlowInv' /\ AnswersOK' /\ ScreenOK' /\ JobsOK' /\ job[c] = NoJob
      /\ \E j \in Job : job' = [job EXCEPT ![c] = j] /\ j.name = a /\ j.stage = "send"
  BY <1>1, <1>2, <1>3, <1>4, FunctionBegins
<1>6. ~strayed' => ~strayed /\ Running = {}
  BY <1>1, OnlySelecting
<1>7. BusyOK'
  BY <1>1, <1>5, <1>6, BusyBegun DEF Requests, Actions
<1>8. QED
  BY <1>5, <1>7 DEF IInv

LEMMA ClearStep ==
  ASSUME IInv, NEW c \in Calls, Clear(c)
  PROVE  IInv'
<1>1. /\ Free(c) /\ Disturb /\ busy' = TRUE
      /\ strayed' = (strayed \/ Running # {})
      /\ Start(c, "clear", "send", EmptyFlow, "idle")
      /\ shown' = EmptyFlow /\ phase' = "idle" /\ UNCHANGED refreshing
      /\ UNCHANGED flowVars
  BY DEF Clear
<1>2. strayed' \in BOOLEAN /\ busy' \in BOOLEAN /\ refreshing' \in BOOLEAN /\ "clear" \in Requests
  BY <1>1, Parts DEF Requests
<1>3. /\ TypeOK' /\ FlowInv' /\ AnswersOK' /\ ScreenOK' /\ JobsOK' /\ job[c] = NoJob
      /\ \E j \in Job : job' = [job EXCEPT ![c] = j] /\ j.name = "clear" /\ j.stage = "send"
  BY <1>1, <1>2, Parts, FunctionBegins
<1>4. BusyOK'
  BY <1>1, <1>3, BusyBegun DEF Requests, Actions
<1>5. QED
  BY <1>3, <1>4 DEF IInv

LEMMA ApplyStep ==
  ASSUME IInv, NEW c \in Calls, Apply(c)
  PROVE  IInv'
<1>1. /\ ~busy /\ Free(c) /\ Disturb /\ busy' = TRUE
      /\ strayed' = (strayed \/ Selecting)
      /\ Start(c, "apply", "send", EmptyFlow, "idle")
      /\ UNCHANGED <<shown, phase, refreshing>> /\ UNCHANGED flowVars
  BY DEF Apply
<1>2. PICK f \in Flow, p \in Phases : f = shown /\ p = phase /\ Earned(Me, f) /\ EarnedPhase(p)
  BY Parts
<1>3. strayed' \in BOOLEAN /\ busy' \in BOOLEAN /\ refreshing' \in BOOLEAN /\ "apply" \in Requests
  BY <1>1, Parts DEF Requests, Selecting
<1>4. /\ TypeOK' /\ FlowInv' /\ AnswersOK' /\ ScreenOK' /\ JobsOK' /\ job[c] = NoJob
      /\ \E j \in Job : job' = [job EXCEPT ![c] = j] /\ j.name = "apply" /\ j.stage = "send"
  BY <1>1, <1>2, <1>3, Parts, FunctionBegins
<1>5. ~strayed' => ~strayed /\ Running = {}
  BY <1>1, OnlySelecting
<1>6. BusyOK'
  BY <1>1, <1>4, <1>5, BusyBegun DEF Requests, Actions
<1>7. QED
  BY <1>4, <1>6 DEF IInv

LEMMA SelectStep ==
  ASSUME IInv, NEW c \in Calls, Select(c)
  PROVE  IInv'
<1>1. /\ Free(c) /\ Disturb /\ strayed' = (strayed \/ Running # {})
      /\ Start(c, "select", "send", EmptyFlow, "idle")
      /\ shown' = EmptyFlow /\ phase' = "idle" /\ UNCHANGED <<busy, refreshing>>
      /\ UNCHANGED flowVars
  BY DEF Select
<1>2. strayed' \in BOOLEAN /\ busy' \in BOOLEAN /\ refreshing' \in BOOLEAN /\ "select" \in Requests
  BY <1>1, Parts DEF Requests
<1>3. /\ TypeOK' /\ FlowInv' /\ AnswersOK' /\ ScreenOK' /\ JobsOK' /\ job[c] = NoJob
      /\ \E j \in Job : job' = [job EXCEPT ![c] = j] /\ j.name = "select" /\ j.stage = "send"
  BY <1>1, <1>2, Parts, FunctionBegins
<1>4. BusyOK'
  BY <1>1, <1>3, BusyBegun DEF Requests, Actions
<1>5. QED
  BY <1>3, <1>4 DEF IInv

LEMMA RefreshStep ==
  ASSUME IInv, NEW c \in Calls, Refresh(c)
  PROVE  IInv'
<1>1. /\ Free(c) /\ DisturbTwice /\ refreshing' = TRUE
      /\ Start(c, "refresh", "send", EmptyFlow, phase)
      /\ UNCHANGED <<shown, phase, busy, strayed>> /\ UNCHANGED flowVars
  BY DEF Refresh
<1>2. PICK f \in Flow, p \in Phases : f = shown /\ p = phase /\ Earned(Me, f) /\ EarnedPhase(p)
  BY Parts
<1>3. busy' \in BOOLEAN /\ strayed' \in BOOLEAN /\ refreshing' \in BOOLEAN /\ "refresh" \in Requests
  BY <1>1, Parts DEF Requests
<1>4. /\ TypeOK' /\ FlowInv' /\ AnswersOK' /\ ScreenOK' /\ JobsOK' /\ call' = call
      /\ (Apart(Me) <=> Apart(Me)') /\ call[c].pc = "idle" /\ job[c] = NoJob
      /\ \E j \in Job : job' = [job EXCEPT ![c] = j] /\ j.name = "refresh" /\ j.stage = "send"
  BY <1>1, <1>2, <1>3, Parts, FunctionBegins
<1>5. BusyOK'
  <2>1. /\ \A d \in Calls \ {c} : job'[d] = job[d] /\ call'[d] = call[d]
        /\ job'[c].name = "refresh" /\ job'[c].stage = "send"
    BY <1>4, Parts
  <2>2. c \notin Running /\ c \notin Running'
    BY <1>4, <2>1, NoJobType DEF Running
  <2>3. ~Working(c)'
    BY <1>4 DEF Working, Open
  <2>4. ~strayed' => ~strayed /\ Apart(Me)'
    BY <1>1, <1>4, Parts DEF BusyOK
  <2>5. QED
    BY <1>1, <2>1, <2>2, <2>3, <2>4, BusyStays
<1>6. QED
  BY <1>4, <1>5 DEF IInv

LEMMA ArriveStep ==
  ASSUME IInv, NEW c \in Calls, Arrive(c)
  PROVE  IInv'
<1>1. /\ job[c].stage \in {"send", "resend"} /\ Route(Me, c, Sent(job[c]), TRUE)
      /\ job' = [job EXCEPT ![c].stage = IF @ = "send" THEN "wait" ELSE "retry"]
      /\ UNCHANGED <<shown, phase, busy, refreshing, left, strayed>>
  BY DEF Arrive
<1>2. PICK o \in Job : o = job[c] /\ Earned(Me, o.latest) /\ EarnedPhase(o.phase)
  BY Parts DEF ScreenOK
<1>3. call[c].pc = "idle" /\ o.stage \in {"send", "resend"} /\ o.name \in Requests
  BY <1>1, <1>2, Parts DEF JobsOK, At, Unsent, Job, Requests
<1>4. PICK name \in Requests : name = Sent(o) /\ Route(Me, c, name, TRUE)
  BY <1>1, <1>2, <1>3 DEF Sent, Requests, Actions
<1>5. Turn(c, Me, TRUE) /\ (name = "refresh" => call'[c].pc \notin Open /\ (Apart(Me) => Apart(Me)'))
  BY <1>3, <1>4, Parts, RouteTurn DEF Open
<1>6. FlowInv' /\ Grows /\ AnswersOK' /\ \A d \in Calls \ {c} : call'[d] = call[d]
  BY <1>5, Parts, AnswersStep DEF Turn
<1>7. PICK stage \in {"wait", "retry"} : stage = IF o.stage = "send" THEN "wait" ELSE "retry"
  OBVIOUS
<1>8. PICK j \in Job : j = [o EXCEPT !.stage = stage]
  BY DEF Job
<1>9. /\ job' = [job EXCEPT ![c] = j] /\ j.name = o.name /\ j.stage = stage
      /\ j.latest = o.latest /\ j.phase = o.phase
  BY <1>1, <1>2, <1>7, <1>8 DEF Job
<1>10. PICK f \in Flow, p \in Phases : f = shown /\ p = phase /\ Earned(Me, f) /\ EarnedPhase(p)
  BY Parts
<1>11. /\ j.stage \notin Unsent /\ (j.stage = "none" <=> j.name = "none") /\ (j.name = "none" => j = NoJob)
       /\ busy' \in BOOLEAN /\ refreshing' \in BOOLEAN /\ strayed' \in BOOLEAN
       /\ left' \in 0 .. MaxDisturbances
  BY <1>1, <1>3, <1>9, Parts DEF Unsent, Requests, Actions
<1>12. TypeOK' /\ ScreenOK' /\ JobsOK'
  BY <1>1, <1>2, <1>6, <1>9, <1>10, <1>11, Parts, TabStep
<1>13. BusyOK'
  <2>1. job'[c] = j /\ \A d \in Calls \ {c} : job'[d] = job[d] /\ call'[d] = call[d]
    BY <1>6, <1>9, Parts
  <2>2. /\ (c \in Running' <=> c \in Running) /\ job'[c].name = job[c].name /\ job'[c].stage # "lost"
        /\ c \in Running <=> o.name # "refresh"
    BY <1>2, <1>3, <1>9, <2>1 DEF Running
  <2>3. CASE c \in Running
    <3>1. ~strayed => Alone(c, Me) /\ Apart(Me)
      BY <2>3, Parts DEF BusyOK, Alone, Working
    <3>2. ~strayed' => ~strayed /\ Apart(Me)'
      BY <1>1, <1>5, <3>1 DEF Turn
    <3>3. QED
      BY <1>1, <2>1, <2>2, <2>3, <3>2, BusyStays
  <2>4. CASE c \notin Running
    <3>1. o.name = "refresh"
      BY <2>2, <2>4
    <3>2. CASE name = "refresh"
      <4>1. ~Working(c)' /\ (~strayed' => ~strayed /\ Apart(Me)')
        BY <1>1, <1>5, <3>2, Parts DEF Working, BusyOK
      <4>2. QED
        BY <1>1, <2>1, <2>2, <2>4, <4>1, BusyStays
    <3>3. CASE name # "refresh"
      BY <1>2, <1>4, <3>1, <3>3, Parts DEF Sent, JobsOK
    <3>4. QED
      BY <3>2, <3>3
  <2>5. QED
    BY <2>3, <2>4
<1>14. QED
  BY <1>6, <1>12, <1>13 DEF IInv

LEMMA ArriveLateStep ==
  ASSUME IInv, NEW c \in Calls, ArriveLate(c)
  PROVE  IInv'
<1>1. /\ job[c].stage = "lost" /\ Stop(c)
      /\ Route(Me, c, job[c].name, FALSE) \/ UNCHANGED flowVars
      /\ UNCHANGED <<shown, phase, busy, refreshing, left, strayed>>
  BY DEF ArriveLate
<1>2. call[c].pc = "idle" /\ job[c].name \in Requests
  BY <1>1, Parts DEF JobsOK, At, Unsent, Job, Requests
<1>3. PICK name \in Requests : name = job[c].name
  BY <1>2
<1>4. /\ FlowInv' /\ Grows /\ AnswersOK' /\ \A d \in Calls \ {c} : call'[d] = call[d]
      /\ name = "refresh" => call'[c].pc \notin Open /\ (Apart(Me) => Apart(Me)')
  <2>1. CASE Route(Me, c, name, FALSE)
    <3>1. Turn(c, Me, FALSE) /\ (name = "refresh" => call'[c].pc \notin Open /\ (Apart(Me) => Apart(Me)'))
      BY <1>2, <2>1, Parts, RouteTurn DEF Open
    <3>2. QED
      BY <3>1, Parts, AnswersStep DEF Turn
  <2>2. CASE UNCHANGED flowVars
    BY <1>2, <2>2, QuietServer DEF Open
  <2>3. QED
    BY <1>1, <1>3, <2>1, <2>2
<1>5. job' = [job EXCEPT ![c] = NoJob] /\ job'[c] = NoJob /\ \A d \in Calls \ {c} : job'[d] = job[d]
  BY <1>1, Parts DEF Stop
<1>6. PICK f \in Flow, p \in Phases : f = shown /\ p = phase /\ Earned(Me, f) /\ EarnedPhase(p)
  BY Parts
<1>7. /\ NoJob \in Job /\ Earned(Me, NoJob.latest) /\ EarnedPhase(NoJob.phase)
      /\ NoJob.stage \notin Unsent /\ NoJob.stage = "none" /\ NoJob.name = "none"
  BY NoJobType, Parts DEF Unsent
<1>8. TypeOK' /\ ScreenOK' /\ JobsOK'
  BY <1>1, <1>4, <1>5, <1>6, <1>7, Parts, TabStep
<1>9. BusyOK'
  <2> SUFFICES ASSUME ~strayed PROVE BusyOK'
    BY <1>1 DEF BusyOK
  <2>1. name = "refresh" /\ Apart(Me)
    BY <1>1, <1>3, Parts DEF BusyOK
  <2>2. c \notin Running /\ c \notin Running' /\ ~Working(c)' /\ job'[c].stage # "lost"
    BY <1>1, <1>4, <1>5, <1>7, <2>1 DEF Running, Working
  <2>3. QED
    BY <1>1, <1>4, <1>5, <2>1, <2>2, BusyStays
<1>10. QED
  BY <1>4, <1>8, <1>9 DEF IInv

LEMMA StrangerStep ==
  ASSUME IInv, NEW s \in Sessions \ {Me}, Stranger(s)
  PROVE  IInv'
<1>1. Disturb /\ UNCHANGED <<shown, phase, busy, refreshing, job>>
  BY DEF Stranger
<1>2. left' \in 0 .. MaxDisturbances
  BY <1>1, Parts, Disturbs
<1>3. CASE Visit(s) /\ UNCHANGED strayed
  <2>1. FlowInv' /\ Grows /\ call' = call /\ (Apart(Me) => Apart(Me)')
    BY <1>3, Parts, VisitTurn
  <2>2. AnswersOK'
    <3> SUFFICES ASSUME NEW d \in Calls, call[d].pc = "done"
                 PROVE  Earned(Me, call[d].answer)'
      BY <2>1, Parts DEF AnswersOK, At
    <3>1. PICK f \in Flow : f = call[d].answer
      BY Parts DEF Call
    <3>2. Earned(Me, f)'
      BY <2>1, <3>1, Parts, EarnedGrows DEF AnswersOK, At
    <3>3. call'[d].answer = f
      BY <2>1, <3>1
    <3>4. QED
      BY <3>2, <3>3
  <2>3. \A d \in Calls : job[d].stage \in Unsent => call'[d].pc = "idle"
    BY <2>1, Parts DEF JobsOK, At
  <2>4. TypeOK' /\ ScreenOK' /\ JobsOK'
    BY <1>1, <1>2, <1>3, <2>1, <2>3, Parts, AsideStep
  <2>5. BusyOK'
    BY <1>1, <1>3, <2>1, Parts DEF BusyOK, Working, Running
  <2>6. QED
    BY <2>1, <2>2, <2>4, <2>5 DEF IInv
<1>4. CASE /\ \E c \in Calls : Free(c) /\ Bootstrap(s, c, FALSE)
           /\ strayed' = (strayed \/ Running # {})
  <2>1. PICK c \in Calls : Free(c) /\ Bootstrap(s, c, FALSE)
    BY <1>4
  <2>2. call[c].pc \notin Open /\ job[c] = NoJob
    BY <2>1 DEF Free, Vacant, Open
  <2>3. Turn(c, s, FALSE)
    BY <2>1, <2>2, Parts, BootstrapTurn
  <2>4. FlowInv' /\ Grows /\ AnswersOK' /\ \A d \in Calls \ {c} : call'[d] = call[d]
    BY <2>3, Parts, AnswersStep DEF Turn
  <2>5. \A d \in Calls : job[d].stage \in Unsent => call'[d].pc = "idle"
    BY <2>2, <2>4, NoJobType, Parts DEF JobsOK, At, Unsent
  <2>6. strayed' \in BOOLEAN
    BY <1>4, Parts
  <2>7. TypeOK' /\ ScreenOK' /\ JobsOK'
    BY <1>1, <1>2, <2>4, <2>5, <2>6, Parts, AsideStep
  <2>8. ~Working(c)'
    BY <2>3 DEF Turn, Working
  <2>9. c \notin Running /\ Running' = Running /\ job'[c].stage # "lost"
    BY <1>1, <2>2, NoJobType DEF Running
  <2>10. ~strayed' => ~strayed /\ Apart(Me)'
    <3> SUFFICES ASSUME ~strayed, Running = {} PROVE Apart(Me)'
      BY <1>4
    <3>1. Alone(c, Me) /\ Apart(Me)
      BY Parts, QuietTab
    <3>2. QED
      BY <2>3, <3>1 DEF Turn
  <2>11. BusyOK'
    BY <1>1, <2>4, <2>8, <2>9, <2>10, BusyStays
  <2>12. QED
    BY <2>4, <2>7, <2>11 DEF IInv
<1>5. QED
  BY <1>3, <1>4 DEF Stranger

LEMMA ServerStepKeeps ==
  ASSUME IInv, NEW c \in Calls, ServerStep(c)
  PROVE  IInv'
<1>1. Serve(c) /\ UNCHANGED tabVars
  BY DEF ServerStep
<1>2. PICK s, w : s = call[c].session /\ w = call[c].waited
  OBVIOUS
<1>3. call[c].pc \in Open /\ Turn(c, s, w) /\ (Apart(Me) => Apart(Me)')
  BY <1>1, <1>2, Parts, ServeTurn
<1>4. w => s = Me
  BY <1>2, <1>3, Parts DEF AnswersOK
<1>5. FlowInv' /\ Grows /\ AnswersOK' /\ \A d \in Calls \ {c} : call'[d] = call[d]
  BY <1>3, <1>4, Parts, AnswersStep DEF Turn
<1>6. \A d \in Calls : job[d].stage \in Unsent => call'[d].pc = "idle"
  BY <1>3, <1>5, Parts DEF JobsOK, At, Open
<1>7. TypeOK' /\ ScreenOK' /\ JobsOK'
  BY <1>1, <1>5, <1>6, Parts, AsideStep DEF tabVars
<1>8. Working(c)' => Working(c)
  BY <1>2, <1>3 DEF Working, Turn
<1>9. BusyOK'
  BY <1>1, <1>3, <1>5, <1>8, Parts DEF BusyOK, Running, Working, tabVars
<1>10. QED
  BY <1>5, <1>7, <1>9 DEF IInv

LEMMA PaymentContinuesStep ==
  ASSUME IInv, NEW c \in Calls, PaymentContinues(c)
  PROVE  IInv'
<1>1. /\ call[c].pc = "done" /\ job[c].name = "pay" /\ job[c].stage = "wait"
      /\ shown' = call[c].answer /\ phase' = InferPhase(call[c].answer, job[c].phase)
      /\ Start(c, "pay", "resend", call[c].answer, InferPhase(call[c].answer, job[c].phase))
      /\ call' = [call EXCEPT ![c] = Idle]
      /\ UNCHANGED <<server, busy, refreshing, left, strayed>>
  BY DEF PaymentContinues, Came, Show, Taken
<1>2. PICK f \in Flow, p \in Phases :
         f = call[c].answer /\ p = job[c].phase /\ Earned(Me, f) /\ EarnedPhase(p)
  BY <1>1, Parts DEF AnswersOK, ScreenOK, At, Call, Job
<1>3. PICK q \in Phases : q = InferPhase(f, p) /\ EarnedPhase(q)
  BY <1>2, Parts, ShownIsEarned
<1>4. /\ FlowInv' /\ Grows /\ AnswersOK' /\ (Apart(Me) <=> Apart(Me)')
      /\ \A d \in Calls \ {c} : call'[d] = call[d]
  <2>1. call[c].pc \notin Open
    BY <1>1 DEF Open
  <2>2. PICK k : k = Idle
    OBVIOUS
  <2>3. QED
    BY <1>1, <2>1, <2>2, Parts, DropStep
<1>5. call'[c].pc = "idle"
  BY <1>1, Parts DEF Idle
<1>6. PICK j \in Job : /\ job' = [job EXCEPT ![c] = j]
                       /\ j.name = "pay" /\ j.stage = "resend" /\ j.latest = f /\ j.phase = q
  BY <1>1, <1>2, <1>3, StartJob DEF Requests, Actions
<1>7. TypeOK' /\ ScreenOK' /\ JobsOK'
  BY <1>1, <1>2, <1>3, <1>4, <1>5, <1>6, Parts, TabStep
<1>8. BusyOK'
  <2>1. job'[c] = j /\ \A d \in Calls \ {c} : job'[d] = job[d]
    BY <1>6, Parts
  <2>2. c \in Running /\ c \in Running' /\ job'[c].name = job[c].name /\ job'[c].stage # "lost"
    BY <1>1, <1>6, <2>1 DEF Running
  <2>3. ~strayed' => ~strayed /\ Apart(Me)'
    BY <1>1, <1>4, Parts DEF BusyOK
  <2>4. QED
    BY <1>1, <1>4, <2>1, <2>2, <2>3, BusyStays
<1>9. QED
  BY <1>4, <1>7, <1>8 DEF IInv

\* A function ends: its slot is free again, its request answered or given up.
LEMMA FunctionEnds ==
  ASSUME IInv, NEW c \in Calls, UNCHANGED server, NEW k, call' = [call EXCEPT ![c] = k],
         \/ call[c].pc \notin Open /\ k = Idle
         \/ k = [call[c] EXCEPT !.waited = FALSE],
         Stop(c),
         NEW g \in Flow, shown' = g, Earned(Me, g), NEW q \in Phases, phase' = q, EarnedPhase(q),
         busy' \in BOOLEAN, refreshing' \in BOOLEAN, strayed' \in BOOLEAN,
         UNCHANGED left \/ Disturb,
         IF job[c].name = "refresh" THEN busy' = busy ELSE job[c].stage \notin {"none", "lost"},
         ~strayed' => ~strayed /\ call[c].pc \notin Open
  PROVE  IInv'
<1>1. /\ FlowInv' /\ Grows /\ AnswersOK' /\ (Apart(Me) <=> Apart(Me)')
      /\ \A d \in Calls \ {c} : call'[d] = call[d]
      /\ call'[c].pc \in Open => call[c].pc \in Open
  BY Parts, DropStep
<1>2. job'[c] = NoJob /\ \A d \in Calls \ {c} : job'[d] = job[d]
  BY Parts DEF Stop
<1>3. TypeOK' /\ ScreenOK' /\ JobsOK'
  <2>1. /\ NoJob \in Job /\ job' = [job EXCEPT ![c] = NoJob]
        /\ Earned(Me, NoJob.latest) /\ EarnedPhase(NoJob.phase)
        /\ NoJob.stage \notin Unsent /\ NoJob.stage # "resend"
        /\ (NoJob.stage = "none" <=> NoJob.name = "none")
    BY NoJobType, Parts DEF Stop, Unsent
  <2>2. left' \in 0 .. MaxDisturbances
    BY Parts, Disturbs
  <2>3. QED
    BY <1>1, <2>1, <2>2, Parts, TabStep
<1>4. BusyOK'
  <2> SUFFICES ASSUME ~strayed, ~strayed', call[c].pc \notin Open PROVE BusyOK'
    BY DEF BusyOK
  <2>1. call'[c].pc \notin Open /\ (Apart(Me) => Apart(Me)')
    BY <1>1
  <2>2. CASE job[c].name = "refresh"
    <3>1. /\ c \notin Running /\ c \notin Running' /\ busy' = busy /\ ~Working(c)'
          /\ job'[c].stage # "lost"
      BY <1>2, <2>1, <2>2, NoJobType DEF Running, Working
    <3>2. Apart(Me)'
      BY <2>1, Parts DEF BusyOK
    <3>3. QED
      BY <1>1, <1>2, <3>1, <3>2, BusyStays
  <2>3. CASE job[c].name # "refresh"
    <3>1. c \in Running
      BY <2>3 DEF Running
    <3>2. QED
      BY <1>1, <1>2, <2>1, <3>1, BusyEnded
  <2>4. QED
    BY <2>2, <2>3
<1>5. QED
  BY <1>1, <1>3, <1>4 DEF IInv

\* What the running function of slot c remembers, and what it may be told.
LEMMA Remembered ==
  ASSUME IInv, NEW c \in Calls
  PROVE  /\ job[c].latest \in Flow /\ Earned(Me, job[c].latest)
         /\ job[c].phase \in Phases /\ EarnedPhase(job[c].phase)
         /\ call[c].answer \in Flow /\ (call[c].pc = "done" => Earned(Me, call[c].answer))
BY Parts DEF ScreenOK, AnswersOK, At, Job, Call

LEMMA ActionAnsweredStep ==
  ASSUME IInv, NEW c \in Calls, ActionAnswered(c)
  PROVE  IInv'
<1>1. /\ call[c].pc = "done" /\ job[c].name \in Actions /\ busy' = FALSE /\ Stop(c)
      /\ job[c].stage \notin {"none", "lost"}
      /\ call' = [call EXCEPT ![c] = Idle]
      /\ UNCHANGED <<server, refreshing, left, strayed>>
      /\ \E f \in {call[c].answer, FlowOf(Me)} :
            Show(f, InferPhase(call[c].answer, job[c].phase))
  BY DEF ActionAnswered, Came, Taken
<1>2. PICK a \in Flow, p \in Phases :
         a = call[c].answer /\ p = job[c].phase /\ Earned(Me, a) /\ EarnedPhase(p)
  BY <1>1, Remembered
<1>3. PICK q \in Phases : q = InferPhase(a, p) /\ EarnedPhase(q)
  BY <1>2, Parts, ShownIsEarned
<1>4. PICK f \in Flow : f \in {a, FlowOf(Me)} /\ Earned(Me, f) /\ Show(f, q)
  BY <1>1, <1>2, <1>3, Parts, FlowOfIsSafe DEF Earned
<1>5. PICK r \in Phases : r = InferPhase(f, q) /\ EarnedPhase(r)
  BY <1>3, <1>4, Parts, ShownIsEarned
<1>6. shown' = f /\ phase' = r
  BY <1>4, <1>5 DEF Show
<1>7. busy' \in BOOLEAN /\ refreshing' \in BOOLEAN /\ strayed' \in BOOLEAN
      /\ job[c].name # "refresh" /\ call[c].pc \notin Open
  BY <1>1, Parts DEF Actions, Open
<1>8. PICK k : k = Idle
  OBVIOUS
<1>9. QED
  BY <1>1, <1>4, <1>5, <1>6, <1>7, <1>8, FunctionEnds

LEMMA FailShows ==
  ASSUME IInv, NEW c \in Calls, Fail(c)
  PROVE  /\ \E f \in Flow, q \in Phases :
               shown' = f /\ phase' = q /\ Earned(Me, f) /\ EarnedPhase(q)
         /\ busy' = FALSE /\ refreshing' = refreshing
<1>1. PICK f \in Flow, p \in Phases :
         f = job[c].latest /\ p = job[c].phase /\ Earned(Me, f) /\ EarnedPhase(p)
  BY Remembered
<1>2. PICK q \in Phases : q = InferPhase(f, p) /\ EarnedPhase(q)
  BY <1>1, Parts, ShownIsEarned
<1>3. QED
  BY <1>1, <1>2 DEF Fail, Show

LEMMA ActionFailedStep ==
  ASSUME IInv, NEW c \in Calls, ActionFailed(c)
  PROVE  IInv'
<1>1. /\ call[c].pc = "done" /\ job[c].name \in Actions /\ Fail(c) /\ Stop(c)
      /\ job[c].stage \notin {"none", "lost"}
      /\ call' = [call EXCEPT ![c] = Idle]
      /\ UNCHANGED <<server, left, strayed>>
  BY DEF ActionFailed, Came, Taken
<1>2. PICK f \in Flow, q \in Phases :
         shown' = f /\ phase' = q /\ Earned(Me, f) /\ EarnedPhase(q)
  BY <1>1, FailShows
<1>3. busy' \in BOOLEAN /\ refreshing' \in BOOLEAN /\ strayed' \in BOOLEAN
      /\ job[c].name # "refresh" /\ call[c].pc \notin Open
  BY <1>1, Parts, FailShows DEF Actions, Open
<1>4. PICK k : k = Idle
  OBVIOUS
<1>5. QED
  BY <1>1, <1>2, <1>3, <1>4, FunctionEnds

LEMMA ResetShows ==
  ASSUME NEW c \in Calls, NEW answered, NEW f, ResetEnds(c, answered, f)
  PROVE  /\ shown' \in {f, shown} /\ phase' \in {"idle", phase}
         /\ busy' = (busy /\ job[c].name = "select") /\ refreshing' = refreshing
<1>1. CASE job[c].name = "clear"
  BY <1>1 DEF ResetEnds
<1>2. CASE job[c].name = "select"
  BY <1>2 DEF ResetEnds
<1>3. CASE job[c].name \notin {"clear", "select"}
  BY <1>3 DEF ResetEnds
<1>4. QED
  BY <1>1, <1>2, <1>3

LEMMA ResetAnsweredStep ==
  ASSUME IInv, NEW c \in Calls, ResetAnswered(c)
  PROVE  IInv'
<1>1. /\ call[c].pc = "done" /\ job[c].name \in {"clear", "select", "apply"}
      /\ job[c].stage \notin {"none", "lost"}
      /\ ResetEnds(c, call[c].ok, call[c].answer) /\ Stop(c)
      /\ call' = [call EXCEPT ![c] = Idle]
      /\ UNCHANGED <<server, left, strayed>>
  BY DEF ResetAnswered, Came, Taken
<1>2. PICK a \in Flow : a = call[c].answer /\ Earned(Me, a)
  BY <1>1, Remembered
<1>3. /\ shown' \in {a, shown} /\ phase' \in {"idle", phase}
      /\ busy' = (busy /\ job[c].name = "select") /\ refreshing' = refreshing
  <2>1. PICK ok : ok = call[c].ok
    OBVIOUS
  <2>2. ResetEnds(c, ok, a)
    BY <1>1, <1>2, <2>1
  <2>3. QED
    BY <2>2, ResetShows
<1>4. PICK f \in Flow, q \in Phases :
         shown' = f /\ phase' = q /\ Earned(Me, f) /\ EarnedPhase(q)
  BY <1>2, <1>3, Parts
<1>5. busy' \in BOOLEAN /\ refreshing' \in BOOLEAN /\ strayed' \in BOOLEAN
      /\ job[c].name # "refresh" /\ call[c].pc \notin Open
  BY <1>1, <1>3, Parts DEF Open
<1>6. PICK k : k = Idle
  OBVIOUS
<1>7. QED
  BY <1>1, <1>3, <1>4, <1>5, <1>6, FunctionEnds

LEMMA RefreshAnsweredStep ==
  ASSUME IInv, NEW c \in Calls, RefreshAnswered(c)
  PROVE  IInv'
<1>1. /\ call[c].pc = "done" /\ job[c].name = "refresh" /\ Stop(c) /\ refreshing' = FALSE
      /\ shown' = call[c].answer /\ phase' = InferPhase(call[c].answer, job[c].phase)
      /\ call' = [call EXCEPT ![c] = Idle]
      /\ UNCHANGED <<server, busy, left, strayed>>
  BY DEF RefreshAnswered, Came, Taken, Show
<1>2. PICK f \in Flow, p \in Phases :
         f = call[c].answer /\ p = job[c].phase /\ Earned(Me, f) /\ EarnedPhase(p)
  BY <1>1, Remembered
<1>3. PICK q \in Phases : q = InferPhase(f, p) /\ EarnedPhase(q)
  BY <1>2, Parts, ShownIsEarned
<1>4. busy' \in BOOLEAN /\ refreshing' \in BOOLEAN /\ strayed' \in BOOLEAN /\ call[c].pc \notin Open
  BY <1>1, Parts DEF Open
<1>5. PICK k : k = Idle
  OBVIOUS
<1>6. QED
  BY <1>1, <1>2, <1>3, <1>4, <1>5, FunctionEnds

LEMMA TimeoutShows ==
  ASSUME IInv, NEW c \in Calls, Timeout(c)
  PROVE  /\ \E f \in Flow, q \in Phases :
               shown' = f /\ phase' = q /\ Earned(Me, f) /\ EarnedPhase(q)
         /\ busy' \in BOOLEAN /\ refreshing' \in BOOLEAN
         /\ job[c].name = "refresh" => busy' = busy
<1>1. CASE job[c].name \in Actions
  <2>1. Fail(c) /\ job[c].name # "refresh"
    BY <1>1 DEF Actions, Timeout
  <2>2. QED
    BY <2>1, FailShows, Parts
<1>2. CASE job[c].name = "refresh"
  <2>1. refreshing' = FALSE /\ UNCHANGED <<shown, phase, busy>>
    BY <1>2 DEF Actions, Timeout
  <2>2. QED
    BY <2>1, Parts
<1>3. CASE job[c].name \notin Actions /\ job[c].name # "refresh"
  <2>1. ResetEnds(c, FALSE, EmptyFlow)
    BY <1>3 DEF Timeout
  <2>2. /\ shown' \in {EmptyFlow, shown} /\ phase' \in {"idle", phase}
        /\ busy' = (busy /\ job[c].name = "select") /\ refreshing' = refreshing
    BY <2>1, ResetShows
  <2>3. QED
    BY <1>3, <2>2, Parts
<1>4. QED
  BY <1>1, <1>2, <1>3

LEMMA TimeoutStep ==
  ASSUME IInv, NEW c \in Calls, Timeout(c)
  PROVE  IInv'
<1>1. /\ job[c].stage \notin {"none", "lost"} /\ Disturb /\ UNCHANGED server
      /\ strayed' = \/ strayed \/ call[c].pc \in Open
                    \/ (job[c].stage \in Unsent /\ job[c].name # "refresh")
  BY DEF Timeout
<1>2. PICK f \in Flow, q \in Phases :
         shown' = f /\ phase' = q /\ Earned(Me, f) /\ EarnedPhase(q)
  BY TimeoutShows
<1>3. busy' \in BOOLEAN /\ refreshing' \in BOOLEAN /\ (job[c].name = "refresh" => busy' = busy)
  BY TimeoutShows
<1>4. strayed' \in BOOLEAN /\ left' \in 0 .. MaxDisturbances
  BY <1>1, Parts, Disturbs
<1>5. CASE job[c].stage \in Unsent
  <2>1. /\ job' = [job EXCEPT ![c] = [NoJob EXCEPT !.name = Sent(job[c]), !.stage = "lost"]]
        /\ UNCHANGED call
    BY <1>5 DEF Timeout
  <2>2. UNCHANGED flowVars
    BY <1>1, <2>1 DEF server, ledger, flowVars
  <2>3. FlowInv' /\ AnswersOK' /\ Grows /\ call' = call /\ (Apart(Me) <=> Apart(Me)')
    BY <2>2, QuietServer
  <2>4. PICK name \in Requests : name = Sent(job[c]) /\ (job[c].name = "refresh" /\ job[c].stage = "send" => name = "refresh")
    BY <1>1, Parts DEF JobsOK, Sent, Job, Requests, Actions
  <2>5. PICK j \in Job : j = [NoJob EXCEPT !.name = name, !.stage = "lost"]
    BY NoJobType DEF Job, Requests, Actions
  <2>6. /\ job' = [job EXCEPT ![c] = j] /\ j.name = name /\ j.stage = "lost"
        /\ j.latest = NoJob.latest /\ j.phase = NoJob.phase
    BY <2>1, <2>4, <2>5, NoJobType DEF Job
  <2>7. /\ Earned(Me, j.latest) /\ EarnedPhase(j.phase) /\ j.name # "none" /\ j.stage # "none"
        /\ call[c].pc = "idle"
    BY <1>5, <2>6, NoJobType, Parts DEF Requests, Actions, JobsOK, At
  <2>8. TypeOK' /\ ScreenOK' /\ JobsOK'
    BY <1>2, <1>3, <1>4, <2>3, <2>6, <2>7, Parts, TabStep
  <2>9. BusyOK'
    <3> SUFFICES ASSUME ~strayed' PROVE BusyOK'
      BY DEF BusyOK
    <3>1. ~strayed /\ job[c].name = "refresh" /\ busy' = busy /\ Apart(Me)'
      BY <1>1, <1>3, <1>5, <2>3, Parts DEF BusyOK
    <3>2. job[c].stage = "send" \/ job[c].stage = "resend"
      BY <1>1, <1>5 DEF Unsent
    <3>3. job'[c] = j /\ \A d \in Calls \ {c} : job'[d] = job[d] /\ call'[d] = call[d]
      BY <2>3, <2>6, Parts
    <3>4. name = "refresh"
      BY <2>4, <3>1, <3>2, Parts DEF JobsOK
    <3>5. c \notin Running /\ c \notin Running' /\ ~Working(c)'
      BY <2>3, <2>6, <2>7, <3>1, <3>3 DEF Running, Working, Open
    <3>6. QED
      BY <2>6, <3>1, <3>3, <3>4, <3>5, BusyStays
  <2>10. QED
    BY <2>3, <2>8, <2>9 DEF IInv
<1>6. CASE job[c].stage \notin Unsent
  <2>1. PICK k : k = IF call[c].pc = "done" THEN Idle ELSE [call[c] EXCEPT !.waited = FALSE]
    OBVIOUS
  <2>2. /\ Stop(c) /\ call' = [call EXCEPT ![c] = k]
        /\ (call[c].pc \notin Open /\ k = Idle) \/ k = [call[c] EXCEPT !.waited = FALSE]
    BY <1>6, <2>1, Parts DEF Open, Timeout
  <2>3. ~strayed' => ~strayed /\ call[c].pc \notin Open
    BY <1>1, Parts
  <2>4. QED
    BY <1>1, <1>2, <1>3, <1>4, <2>2, <2>3, FunctionEnds
<1>7. QED
  BY <1>5, <1>6

LEMMA StartsSafe == ASSUME Init PROVE IInv
<1>1. /\ flows = << >> /\ flow = [f \in Fids |-> EmptyFlow] /\ issued = << >>
      /\ runtime \in [no : {1}, secret : Secrets \cup {None}]
      /\ paid = {} /\ served = {} /\ overlap = {} /\ call = [c \in Calls |-> Idle]
  BY DEF Init, FlowInit
<1>2. /\ \A c \in Calls : call[c] = Idle
      /\ Idle.pc = "idle" /\ Idle.fid = 0 /\ Idle.session = None /\ Idle \in Call
  BY <1>1, IdleType DEF Idle
<1>3. Types
  <2>1. Pending = {}
    BY <1>2 DEF Pending, At
  <2>2. Len(issued) + Cardinality(Pending) <= MaxChallenges
    BY <1>1, <2>1, FS_EmptySet, BoundsAssumption
  <2>3. flow \in [Fids -> Flow] /\ call \in [Calls -> Call] /\ runtime \in Runtimes
    BY <1>1, <1>2, FlowTypes, BoundsAssumption DEF Runtimes
  <2>4. QED
    BY <1>1, <2>2, <2>3, BoundsAssumption DEF Types, FlowTypeOK
<1>4. \A f \in Fids : flow[f] = EmptyFlow
  BY <1>1
<1>5. OwnersOK
  <2>1. \A s, f : f \in Fids => ~Owns(flows, call, s, f)
    BY <1>1, <1>2 DEF Owns, Fids
  <2>2. QED
    BY <1>1, <1>2, <1>4, <2>1 DEF OwnersOK, Holds, Open
<1>6. ObjectsOK /\ TruthOK
  BY <1>3, <1>4, EmptyIsSafe DEF ObjectsOK, TruthOK
<1>7. CallsOK /\ CoherenceOK
  BY <1>1, <1>2 DEF CallsOK, Sound, CoherenceOK
<1>8. FlowInv
  BY <1>3, <1>5, <1>6, <1>7 DEF FlowInv, SafeInv
<1>9. Earned(Me, EmptyFlow) /\ EarnedPhase("idle")
  BY <1>8, EmptyIsEarned
<1>10. /\ shown = EmptyFlow /\ phase = "idle" /\ busy = FALSE /\ refreshing = FALSE
       /\ strayed = FALSE /\ left = MaxDisturbances /\ \A c \in Calls : job[c] = NoJob
       /\ job \in [Calls -> Job]
  BY NoJobType DEF Init
<1>11. TypeOK
  <2>1. EmptyFlow \in Flow /\ FlowTypeOK
    BY <1>3, FlowTypes DEF Types
  <2>2. "idle" \in Phases
    BY DEF Phases
  <2>3. left \in 0 .. MaxDisturbances
    BY <1>10, ConsoleAssumption
  <2>4. QED
    BY <1>10, <2>1, <2>2, <2>3 DEF TypeOK
<1>12. AnswersOK
  BY <1>2 DEF AnswersOK, At, Open
<1>13. ScreenOK /\ JobsOK
  BY <1>9, <1>10, NoJobType DEF ScreenOK, JobsOK, Unsent
<1>14. BusyOK
  BY <1>1, <1>2, <1>10, NoJobType DEF BusyOK, Working, Running, Apart, Mine, Open
<1>15. QED
  BY <1>8, <1>11, <1>12, <1>13, <1>14 DEF IInv

LEMMA StepKeeps == ASSUME IInv, [Next]_vars PROVE IInv'
<1>1. CASE UNCHANGED vars
  <2>1. /\ UNCHANGED <<flows, flow, runtime, issued, paid, served, call, overlap>>
        /\ UNCHANGED <<shown, phase, busy, refreshing, job, left, strayed>>
    BY <1>1 DEF vars, flowVars, tabVars
  <2>2. FlowInv'
    BY <2>1, Parts DEF FlowInv, SafeInv, Types, FlowTypeOK, OwnersOK, ObjectsOK, CallsOK, TruthOK,
          CoherenceOK, Pending, At, Kept, Owns, Own, Truthful, Sound, CoherentAt, Coherent, InStep, OpenAt
  <2>3. AnswersOK' /\ ScreenOK' /\ JobsOK' /\ BusyOK'
    BY <2>1, Parts DEF AnswersOK, ScreenOK, JobsOK, BusyOK, Earned, Own, Truthful, EarnedPhase, At,
          Working, Running, Apart, Mine
  <2>4. TypeOK'
    BY <2>1, <2>2, Parts DEF TypeOK, FlowInv, SafeInv, Types
  <2>5. QED
    BY <2>2, <2>3, <2>4 DEF IInv
<1>2. CASE \E c \in Calls : \E a \in Actions : Press(c, a)
  BY <1>2, PressStep
<1>3. CASE \E c \in Calls : Clear(c) \/ Select(c) \/ Apply(c) \/ Refresh(c)
  BY <1>3, ClearStep, SelectStep, ApplyStep, RefreshStep
<1>4. CASE \E c \in Calls : Tab(c)
  BY <1>4, ArriveStep, ArriveLateStep, PaymentContinuesStep, ActionAnsweredStep, ActionFailedStep,
     ResetAnsweredStep, RefreshAnsweredStep DEF Tab
<1>5. CASE \E c \in Calls : ServerStep(c) \/ Timeout(c)
  BY <1>5, ServerStepKeeps, TimeoutStep
<1>6. CASE \E s \in Sessions \ {Me} : Stranger(s)
  BY <1>6, StrangerStep
<1>7. QED
  BY <1>1, <1>2, <1>3, <1>4, <1>5, <1>6 DEF Next

THEOREM Invariance == Spec => []IInv
<1>1. Init => IInv
  BY StartsSafe
<1>2. IInv /\ [Next]_vars => IInv'
  BY StepKeeps
<1>3. QED
  BY <1>1, <1>2, PTL DEF Spec

\* Every variable of the flow layer and the tab has its type: one entry a
\* session in a map of at most FlowLimit, a new object for every new entry.
THEOREM TypeCorrectness == Spec => []TypeOK
<1>1. IInv => TypeOK
  BY DEF IInv
<1>2. QED
  BY <1>1, Invariance, PTL

\* A flow claims a receipt only of a committed redemption and a credential only
\* of a paid challenge, for every interleaving of the routes' stretches.
THEOREM FlowsTellTheTruth == Spec => []FlowTellsTheTruth
<1>1. IInv => FlowTellsTheTruth
  BY DEF IInv, FlowInv, SafeInv, TruthOK, Truthful, FlowTellsTheTruth
<1>2. QED
  BY <1>1, Invariance, PTL

\* No session ever sees what was issued to another, evicted objects and late
\* answers included.
THEOREM FlowsBelongToOne == Spec => []SessionsApart
<1>1. ASSUME IInv PROVE SessionsApart
  <2> SUFFICES ASSUME NEW i \in DOMAIN flows
               PROVE  \A n \in Held(flow[flows[i].fid]) : issued[n].session = flows[i].session
    BY DEF SessionsApart, Held
  <2>1. flows[i].session \in Sessions /\ flows[i].fid \in Fids
    BY <1>1, Parts DEF Types, FlowTypeOK
  <2>2. Owns(flows, call, flows[i].session, flows[i].fid)
    BY DEF Owns
  <2>3. QED
    BY <1>1, <2>1, <2>2, Parts DEF SafeInv, ObjectsOK, Own
<1>2. QED
  BY <1>1, Invariance, PTL

\* Only two requests open at once on one object can mix its exchanges.
THEOREM OneAtATimeIsCoherent == Spec => []SequentialFlowIsCoherent
<1>1. IInv => SequentialFlowIsCoherent
  BY DEF IInv, FlowInv, CoherenceOK, CoherentAt, Coherent, SequentialFlowIsCoherent
<1>2. QED
  BY <1>1, Invariance, PTL

\* The busy flag keeps the tab's requests apart as long as nothing strayed.
THEOREM BusyFlagSuffices == Spec => []BusyKeepsRequestsApart
<1>1. IInv => BusyKeepsRequestsApart
  BY DEF IInv, BusyOK, Apart, BusyKeepsRequestsApart
<1>2. QED
  BY <1>1, Invariance, PTL

\* The screen claims no payment and no delivery its session did not earn.
THEOREM ScreenIsEarned == Spec => []PhaseIsEarned
<1>1. ASSUME IInv PROVE PhaseIsEarned
  <2>1. paid \subseteq DOMAIN issued /\ served \subseteq DOMAIN issued /\ EarnedPhase(phase)
    BY <1>1, Parts DEF Types, FlowTypeOK
  <2>2. QED
    BY <2>1 DEF PhaseIsEarned, EarnedPhase
<1>2. QED
  BY <1>1, Invariance, PTL

=============================================================================
