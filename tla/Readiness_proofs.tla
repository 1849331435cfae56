-------------------------- MODULE Readiness_proofs --------------------------
(***************************************************************************)
(* Proofs about Readiness, for any nodes, environments, reports, slots and *)
(* life of the cache: the cached promise is of the present session, nobody *)
(* is answered from an older one, and an answer no replacement overtook    *)
(* speaks of one deployment.                                               *)
(***************************************************************************)
EXTENDS Readiness, TLAPS

ConfirmedBy(b, s) == b.env = EffectiveEnv(s) /\ b.source = Source(s)

\* What a build in progress knows: whether its environment is live, and, if it was begun
\* under the present session, the environment of that session.
BuildsOK ==
    \A b \in Builds : build[b].stage # "idle" =>
        /\ build[b].live <=> LiveReady(build[b].env)
        /\ build[b].era <= era
        /\ build[b].era = era => ConfirmedBy(build[b], session)

\* A call waits for a build that is under way, of the session the call was made under.
Waits(q) ==
    /\ q.build \in Builds
    /\ build[q.build].stage # "idle"
    /\ build[q.build].era = q.era
    /\ q.stale < TTL
CallsOK == \A c \in Calls : call[c] = NoCall \/ Waits(call[c])

\* A promise is cached for as long as it has to live.
CacheOK ==
    /\ cache.left = 0 <=> cache.build = None
    /\ cache.build # None =>
          /\ build[cache.build].stage # "idle"
          /\ build[cache.build].era = era
          /\ build[cache.build].age + cache.left = TTL

\* The runtime is that of the session, unless it could not be made.
RuntimeOK == torn \/ runtime = RuntimeOf(EffectiveEnv(session))

\* There is a disturbance left for every replacement still to come.
ErasOK == era + left <= MaxDisturbances

IInv == TypeOK /\ BuildsOK /\ CallsOK /\ CacheOK /\ RuntimeOK /\ ErasOK
          /\ AnswerIsFresh /\ AnswerIsWhole

-----------------------------------------------------------------------------
(* What the operators give *)

\* An environment is live or not, and stays one under a session.
LEMMA EnvFacts ==
  ASSUME NEW s \in Env \cup {None}
  PROVE  /\ EffectiveEnv(s) \in Env
         /\ LiveReady(EffectiveEnv(s)) \in BOOLEAN
         /\ Source(s) \in {"env", "runtime"}
         /\ RuntimeOf(EffectiveEnv(s)) \in Env \cup {None}
<1>1. EffectiveEnv(s) \in Env
  BY EnvAssumption DEF EffectiveEnv, Env
<1>2. QED
  BY <1>1 DEF LiveReady, Source, RuntimeOf

\* The record of a build in progress, and of none.
LEMMA NoBuildFacts ==
  /\ NoBuild \in Build /\ NoBuild.stage = "idle"
  /\ NoCall \in Call /\ NoCall.build = None
  /\ NoAnswer \in Answer /\ ~NoAnswer.given
  /\ NoCache.build = None /\ NoCache.left = 0 /\ NoCache \in [build : Builds \cup {None}, left : 0 .. TTL]
<1>1. (CHOOSE p \in ReportSets : TRUE) \in ReportSets
  BY ReportsAssumption
<1>2. 0 \in 0 .. TTL /\ 0 \in 0 .. MaxDisturbances
  BY TTLAssumption, BoundAssumption
<1>3. NoBuild \in Build /\ NoBuild.stage = "idle"
  BY <1>1, <1>2, EnvAssumption DEF NoBuild, Build, Roles
<1>4. QED
  BY <1>2, <1>3 DEF NoCall, Call, NoAnswer, Answer, NoCache, Roles

\* A new build is of the session it is begun under.
LEMMA NewBuildFacts ==
  ASSUME NEW s \in Env \cup {None}, NEW n \in 0 .. MaxDisturbances
  PROVE  /\ NewBuild(s, n) \in Build
         /\ NewBuild(s, n).stage = "reports"
         /\ NewBuild(s, n).live <=> LiveReady(NewBuild(s, n).env)
         /\ NewBuild(s, n).era = n
         /\ NewBuild(s, n).age = 0
         /\ ConfirmedBy(NewBuild(s, n), s)
<1>1. NoBuild \in Build
  BY NoBuildFacts
<1>2. NoBuild.age = 0
  BY DEF NoBuild
<1>3. QED
  BY <1>1, <1>2, EnvFacts DEF NewBuild, Build, ConfirmedBy

\* A build that a call or the cache waits for is not collected; one that is, is idle.
LEMMA CollectFacts ==
  ASSUME NEW bs, NEW cs, NEW k, NEW b \in Builds
  PROVE  /\ Collect(bs, cs, k)[b] = bs[b] \/ Collect(bs, cs, k)[b] = NoBuild
         /\ b = k.build => Collect(bs, cs, k)[b] = bs[b]
         /\ (\E c \in Calls : cs[c].build = b) => Collect(bs, cs, k)[b] = bs[b]
BY DEF Collect, Kept

LEMMA CollectTyped ==
  ASSUME NEW bs \in [Builds -> Build], NEW cs, NEW k
  PROVE  Collect(bs, cs, k) \in [Builds -> Build]
BY NoBuildFacts DEF Collect

LEMMA IdleFacts ==
  ASSUME NEW bs, Idle(bs) # {}
  PROVE  AnyOf(Idle(bs)) \in Builds /\ bs[AnyOf(Idle(bs))].stage = "idle"
<1>1. AnyOf(Idle(bs)) \in Idle(bs)
  BY DEF AnyOf
<1>2. QED
  BY <1>1 DEF Idle

-----------------------------------------------------------------------------
(* The cached promise *)

\* k is a promise that a call under session s, the n-th, may be given.
Good(k, n) ==
    /\ k \in [build : Builds \cup {None}, left : 0 .. TTL]
    /\ k.left = 0 <=> k.build = None
    /\ k.build # None =>
          /\ build[k.build].stage # "idle"
          /\ build[k.build].era = n
          /\ build[k.build].age + k.left = TTL

\* A call is given the cached promise, or a new one that is cached in its place; either
\* is of the session it was made under.
LEMMA CachedKeeps ==
  ASSUME build \in [Builds -> Build], call \in [Calls -> Call], BuildsOK, CallsOK,
         NEW c \in Calls, NEW s \in Env \cup {None}, NEW n \in 0 .. MaxDisturbances,
         era \in Nat, era <= n, n = era => s = session,
         NEW k, Good(k, n), Cached(c, s, n, k, build), session' = s, era' = n
  PROVE  /\ build' \in [Builds -> Build] /\ call' \in [Calls -> Call]
         /\ cache' \in [build : Builds \cup {None}, left : 0 .. TTL]
         /\ BuildsOK' /\ CallsOK' /\ CacheOK'
<1> DEFINE b == IF k.left > 0 THEN k.build ELSE AnyOf(Idle(build))
           bs == IF k.left > 0 THEN build ELSE [build EXCEPT ![b] = NewBuild(s, n)]
<1>0. TTL \in Nat /\ TTL > 0 /\ MaxDisturbances \in Nat /\ None \notin Builds
  BY TTLAssumption, BoundAssumption, SlotsAssumption
<1>1. /\ call' = [call EXCEPT ![c] = [build |-> b, era |-> n, stale |-> Age(b, k, build)]]
      /\ cache' = IF k.left > 0 THEN k ELSE [build |-> b, left |-> TTL]
      /\ \A a \in Builds : build'[a] = IF Kept(a, call', cache') THEN bs[a] ELSE NoBuild
      /\ build' = Collect(bs, call', cache')
  BY DEF Cached, Collect
<1>2. k.left \in 0 .. TTL /\ k.build \in Builds \cup {None}
  BY DEF Good
<1>3. b \in Builds /\ (k.left = 0 => build[b].stage = "idle")
  <2>1. CASE k.left > 0
    BY <2>1, <1>2 DEF Good
  <2>2. CASE k.left = 0
    <3>1. Idle(build) # {}
      BY <2>2 DEF Cached
    <3>2. QED
      BY <3>1, <2>2, IdleFacts
  <2>3. QED
    BY <2>1, <2>2, <1>2
<1>4. bs \in [Builds -> Build]
  BY NewBuildFacts
<1>5. /\ bs[b].stage # "idle" /\ bs[b].era = n
      /\ k.left > 0 => bs[b].age + k.left = TTL
      /\ k.left = 0 => bs[b].age = 0
  <2>1. CASE k.left > 0
    BY <2>1, <1>2, <1>0 DEF Good
  <2>2. CASE k.left = 0
    <3>1. bs[b] = NewBuild(s, n)
      BY <2>2, <1>3
    <3>2. QED
      BY <3>1, <2>2, NewBuildFacts
  <2>3. QED
    BY <2>1, <2>2, <1>2
<1>6. Age(b, k, build) \in 0 .. TTL /\ Age(b, k, build) < TTL
  <2>1. CASE k.left > 0
    <3>1. build[b].age \in 0 .. TTL
      BY <1>3 DEF Build
    <3>2. build[b].age + k.left = TTL
      BY <2>1, <1>5
    <3>3. QED
      BY <3>1, <3>2, <2>1, <1>0, <1>2 DEF Age
  <2>2. CASE k.left = 0
    BY <2>2, <1>0 DEF Age
  <2>3. QED
    BY <2>1, <2>2, <1>2
<1>7. call' \in [Calls -> Call]
  BY <1>1, <1>3, <1>6 DEF Call
<1>8. cache' \in [build : Builds \cup {None}, left : 0 .. TTL]
  BY <1>1, <1>3, <1>0 DEF Good
<1>9. build' \in [Builds -> Build]
  BY <1>1, <1>4, CollectTyped
\* Whoever is waited for is where it was.
<1>10. cache'.build = b /\ build'[b] = bs[b]
  <2>1. cache'.build = b
    BY <1>1
  <2>2. QED
    BY <2>1, <1>1, <1>3 DEF Kept
<1>11. ASSUME NEW d \in Calls, d # c, call[d] # NoCall
       PROVE  Waits(call[d]) /\ call'[d] = call[d] /\ build'[call[d].build] = build[call[d].build]
  <2>1. Waits(call[d]) /\ call'[d] = call[d]
    BY <1>1, <1>11 DEF CallsOK
  <2>2. call[d].build \in Builds /\ build[call[d].build].stage # "idle"
    BY <2>1 DEF Waits
  <2>3. bs[call[d].build] = build[call[d].build]
    <3>1. CASE k.left > 0
      BY <3>1
    <3>2. CASE k.left = 0
      BY <3>2, <2>2, <1>3
    <3>3. QED
      BY <3>1, <3>2, <1>2
  <2>4. \E e \in Calls : call'[e].build = call[d].build
    BY <2>1
  <2>5. build'[call[d].build] = bs[call[d].build]
    BY <1>1, <2>2, <2>4 DEF Kept
  <2>6. QED
    BY <2>1, <2>3, <2>5
<1>12. CallsOK'
  <2> SUFFICES ASSUME NEW d \in Calls PROVE (call[d] = NoCall \/ Waits(call[d]))'
    BY DEF CallsOK
  <2>1. CASE d = c
    <3>1. call'[c] = [build |-> b, era |-> n, stale |-> Age(b, k, build)]
      BY <1>1
    <3>2. QED
      BY <2>1, <3>1, <1>3, <1>5, <1>6, <1>10 DEF Waits
  <2>2. CASE d # c /\ call[d] # NoCall
    <3>1. Waits(call[d]) /\ call'[d] = call[d] /\ build'[call[d].build] = build[call[d].build]
      BY <2>2, <1>11
    <3>2. QED
      BY <3>1 DEF Waits
  <2>3. CASE d # c /\ call[d] = NoCall
    BY <2>3, <1>1
  <2>4. QED
    BY <2>1, <2>2, <2>3
<1>13. CacheOK'
  <2>1. CASE k.left > 0
    <3>1. cache' = k
      BY <2>1, <1>1
    <3>2. QED
      BY <2>1, <3>1, <1>2, <1>3, <1>5, <1>10, <1>0 DEF CacheOK
  <2>2. CASE k.left = 0
    <3>1. cache' = [build |-> b, left |-> TTL]
      BY <2>2, <1>1
    <3>2. QED
      BY <2>2, <3>1, <1>3, <1>5, <1>10, <1>0 DEF CacheOK
  <2>3. QED
    BY <2>1, <2>2, <1>2
<1>14. BuildsOK'
  <2> SUFFICES ASSUME NEW a \in Builds, build'[a].stage # "idle"
               PROVE  /\ build'[a].live <=> LiveReady(build'[a].env)
                      /\ build'[a].era <= n
                      /\ build'[a].era = n => ConfirmedBy(build'[a], s)
    BY DEF BuildsOK, ConfirmedBy
  <2>1. build'[a] = bs[a]
    BY <1>1, NoBuildFacts
  <2>2. CASE k.left = 0 /\ a = b
    <3>1. build'[a] = NewBuild(s, n)
      BY <2>1, <2>2, <1>3
    <3>2. QED
      BY <3>1, NewBuildFacts
  <2>3. CASE k.left > 0 \/ a # b
    <3>1. build'[a] = build[a]
      BY <2>1, <2>3, <1>2
    <3>2. build[a].era \in Nat
      BY DEF Build
    <3>3. /\ build[a].live <=> LiveReady(build[a].env)
          /\ build[a].era <= era
          /\ build[a].era = era => ConfirmedBy(build[a], session)
      BY <3>1 DEF BuildsOK
    <3>4. QED
      BY <3>1, <3>2, <3>3
  <2>4. QED
    BY <2>2, <2>3, <1>2
<1>15. QED
  BY <1>7, <1>8, <1>9, <1>12, <1>13, <1>14

\* Without a cached promise nothing is wrong with the cache.
LEMMA NoCacheGood == ASSUME NEW n PROVE Good(NoCache, n)
BY NoBuildFacts DEF Good

-----------------------------------------------------------------------------
(* A build goes on, and what is waited for is not collected *)

\* The same build, further on.
Same(x, y) == x.env = y.env /\ x.source = y.source /\ x.live = y.live /\ x.era = y.era

\* No build is begun, and none that a call waits for is dropped.
LEMMA BuildsFollow ==
  ASSUME BuildsOK, CallsOK, UNCHANGED <<session, era>>,
         \A b \in Builds : build'[b].stage = "idle"
                             \/ (build[b].stage # "idle" /\ Same(build'[b], build[b])),
         \A c \in Calls : call'[c] = NoCall
                             \/ (call'[c] = call[c] /\ (Waits(call[c]) => build'[call[c].build].stage # "idle"))
  PROVE  BuildsOK' /\ CallsOK'
<1>1. BuildsOK'
  <2> SUFFICES ASSUME NEW b \in Builds, build'[b].stage # "idle"
               PROVE  /\ build'[b].live <=> LiveReady(build'[b].env)
                      /\ build'[b].era <= era
                      /\ build'[b].era = era => ConfirmedBy(build'[b], session)
    BY DEF BuildsOK, ConfirmedBy
  <2>1. build[b].stage # "idle" /\ Same(build'[b], build[b])
    OBVIOUS
  <2>2. /\ build[b].live <=> LiveReady(build[b].env)
        /\ build[b].era <= era
        /\ build[b].era = era => ConfirmedBy(build[b], session)
    BY <2>1 DEF BuildsOK
  <2>3. QED
    BY <2>1, <2>2 DEF Same, ConfirmedBy
<1>2. CallsOK'
  <2> SUFFICES ASSUME NEW c \in Calls, call'[c] # NoCall PROVE Waits(call[c])'
    BY DEF CallsOK
  <2>1. call'[c] = call[c] /\ Waits(call[c])
    BY DEF CallsOK
  <2>2. call[c].build \in Builds /\ build'[call[c].build].stage # "idle"
    BY <2>1 DEF Waits
  <2>3. build'[call[c].build].era = build[call[c].build].era
    BY <2>2 DEF Same
  <2>4. QED
    BY <2>1, <2>2, <2>3 DEF Waits
<1>3. QED
  BY <1>1, <1>2

\* One build goes on and keeps what it is of.
LEMMA AdvanceKeeps ==
  ASSUME TypeOK, BuildsOK, CallsOK, CacheOK, NEW b \in Builds, build[b].stage # "idle",
         NEW x \in Build, x.stage # "idle", Same(x, build[b]), x.age = build[b].age,
         build' = [build EXCEPT ![b] = x], UNCHANGED <<session, cache, call, era>>
  PROVE  build' \in [Builds -> Build] /\ BuildsOK' /\ CallsOK' /\ CacheOK'
<1>1. build \in [Builds -> Build] /\ build' \in [Builds -> Build]
  BY DEF TypeOK
<1>2. build'[b] = x /\ \A a \in Builds : a # b => build'[a] = build[a]
  BY <1>1
<1>3. \A a \in Builds : build'[a].stage = "idle"
                           \/ (build[a].stage # "idle" /\ Same(build'[a], build[a]))
  BY <1>2 DEF Same
<1>4. \A c \in Calls : call'[c] = call[c] /\ (Waits(call[c]) => build'[call[c].build].stage # "idle")
  BY <1>2 DEF Waits
<1>5. BuildsOK' /\ CallsOK'
  BY <1>3, <1>4, BuildsFollow
<1>6. CacheOK'
  <2>1. cache.build \in Builds \cup {None}
    BY DEF TypeOK
  <2>2. QED
    BY <1>2, <2>1 DEF CacheOK, Same
<1>7. QED
  BY <1>1, <1>5, <1>6

LEMMA Stages ==
  /\ Probes[1] = "info" /\ Probes[2] = "peers" /\ Probes[3] = "channels"
  /\ \A i \in 1 .. 3 : Probes[i] \in {"info", "peers", "channels"}
BY DEF Probes

\* What a probe's end makes of a build.
LEMMA Next1Facts ==
  ASSUME NEW x \in Build, NEW r \in Roles
  PROVE  /\ Next1(x, r) \in Build /\ Next1(x, r).stage # "idle"
         /\ Same(Next1(x, r), x) /\ Next1(x, r).age = x.age
<1>1. ASSUME NEW st \in {"info", "done"}, NEW q \in Roles, NEW y, y = [[x EXCEPT !.stage = st] EXCEPT !.role = q]
      PROVE  y \in Build /\ y.stage # "idle" /\ Same(y, x) /\ y.age = x.age
  <2>1. st \in {Probes[i] : i \in 1 .. 3} \cup {"done"}
    BY Stages
  <2>2. QED
    BY <1>1, <2>1 DEF Build, Same
<1>2. CASE r = "payer" /\ Probed(x.env, "payee")
  <2>1. Next1(x, r) = [[x EXCEPT !.stage = "info"] EXCEPT !.role = "payee"]
    BY <1>2 DEF Next1, Build
  <2>2. "payee" \in Roles
    BY DEF Roles
  <2>3. QED
    BY <2>1, <2>2, <1>1
<1>3. CASE ~(r = "payer" /\ Probed(x.env, "payee"))
  <2>1. Next1(x, r) = [[x EXCEPT !.stage = "done"] EXCEPT !.role = x.role]
    BY <1>3 DEF Next1, Build
  <2>2. x.role \in Roles
    BY DEF Build
  <2>3. QED
    BY <2>1, <2>2, <1>1
<1>4. QED
  BY <1>2, <1>3

\* The reports are read.
LEMMA ReadReportsKeeps ==
  ASSUME TypeOK, BuildsOK, CallsOK, CacheOK, NEW b \in Builds, ReadReports(b)
  PROVE  build' \in [Builds -> Build] /\ BuildsOK' /\ CallsOK' /\ CacheOK'
<1> DEFINE e == build[b].env
           known == [build[b] EXCEPT !.reports = reports, !.blocked = {r \in Roles : RoleBlocked(e, r)}]
           x == IF Probed(e, "payer") THEN [known EXCEPT !.stage = "info"] ELSE Next1(known, "payer")
<1>1. build[b] \in Build /\ reports \in ReportSets
  BY DEF TypeOK
<1>2. known \in Build /\ Same(known, build[b]) /\ known.age = build[b].age
  <2>1. {r \in Roles : RoleBlocked(e, r)} \in SUBSET Roles
    OBVIOUS
  <2>2. QED
    BY <1>1, <2>1 DEF Build, Same
<1> HIDE DEF known
<1>3. x \in Build /\ x.stage # "idle" /\ Same(x, build[b]) /\ x.age = build[b].age
  <2>1. CASE Probed(e, "payer")
    BY <2>1, <1>2, Stages DEF Build, Same
  <2>2. CASE ~Probed(e, "payer")
    <3>1. "payer" \in Roles
      BY DEF Roles
    <3>2. QED
      BY <2>2, <3>1, <1>2, Next1Facts DEF Same
  <2>3. QED
    BY <2>1, <2>2
<1>4. build' = [build EXCEPT ![b] = x] /\ build[b].stage # "idle"
  BY DEF ReadReports, known
<1>5. UNCHANGED <<session, cache, call, era>>
  BY DEF ReadReports
<1>6. QED
  BY <1>3, <1>4, <1>5, AdvanceKeeps

\* An RPC of the probe answers, or does not.
LEMMA ProbeKeeps ==
  ASSUME TypeOK, BuildsOK, CallsOK, CacheOK, NEW b \in Builds, NEW i \in 1 .. 3, Probe(b, i)
  PROVE  build' \in [Builds -> Build] /\ BuildsOK' /\ CallsOK' /\ CacheOK'
<1> DEFINE r == build[b].role
           n == RpcUrl(build[b].env, r)
           bad == ~Fit(node[n], Probes[i])
           seen == Block(build[b], r, bad)
           x == IF i = 3 \/ (i = 1 /\ bad) THEN Next1(seen, r) ELSE [seen EXCEPT !.stage = Probes[i + 1]]
<1>1. build[b] \in Build /\ r \in Roles
  BY DEF TypeOK, Build
<1>2. seen \in Build /\ Same(seen, build[b]) /\ seen.age = build[b].age
  BY <1>1 DEF Block, Build, Same
<1> HIDE DEF seen
<1>3. x \in Build /\ x.stage # "idle" /\ Same(x, build[b]) /\ x.age = build[b].age
  <2>1. CASE i = 3 \/ (i = 1 /\ bad)
    BY <2>1, <1>1, <1>2, Next1Facts DEF Same
  <2>2. CASE ~(i = 3 \/ (i = 1 /\ bad))
    <3>1. i + 1 \in 1 .. 3 /\ Probes[i + 1] \in {"info", "peers", "channels"}
      BY <2>2, Stages
    <3>2. x = [seen EXCEPT !.stage = Probes[i + 1]]
      BY <2>2
    <3>3. \E j \in 1 .. 3 : Probes[i + 1] = Probes[j]
      BY <3>1
    <3>4. QED
      BY <3>1, <3>2, <3>3, <1>2 DEF Build, Same
  <2>3. QED
    BY <2>1, <2>2
<1>4. build' = [build EXCEPT ![b] = x] /\ build[b].stage # "idle"
  BY Stages DEF Probe, seen
<1>5. UNCHANGED <<session, cache, call, era>>
  BY DEF Probe
<1>6. QED
  BY <1>3, <1>4, <1>5, AdvanceKeeps

\* A call that was answered waits no longer; the others' builds stay.
LEMMA RespondKeeps ==
  ASSUME TypeOK, BuildsOK, CallsOK, CacheOK, NEW c \in Calls, Respond(c)
  PROVE  /\ build' \in [Builds -> Build] /\ call' \in [Calls -> Call]
         /\ BuildsOK' /\ CallsOK' /\ CacheOK'
<1>1. /\ call' = [call EXCEPT ![c] = NoCall] /\ build' = Collect(build, call', cache)
      /\ UNCHANGED <<session, cache, era>>
  BY DEF Respond
<1>2. \A b \in Builds : build'[b] = IF Kept(b, call', cache) THEN build[b] ELSE NoBuild
  BY <1>1 DEF Collect
<1>3. /\ build \in [Builds -> Build] /\ call \in [Calls -> Call]
      /\ cache.build \in Builds \cup {None}
  BY DEF TypeOK
<1>4. build' \in [Builds -> Build] /\ call' \in [Calls -> Call]
  BY <1>1, <1>3, CollectTyped, NoBuildFacts
<1>5. \A b \in Builds : build'[b].stage = "idle"
                           \/ (build[b].stage # "idle" /\ Same(build'[b], build[b]))
  BY <1>2, NoBuildFacts DEF Same
<1>6. ASSUME NEW d \in Calls, call'[d] # NoCall
      PROVE  call'[d] = call[d] /\ (Waits(call[d]) => build'[call[d].build].stage # "idle")
  <2>1. call'[d] = call[d]
    BY <1>1, <1>3, <1>6
  <2>2. ASSUME Waits(call[d]) PROVE build'[call[d].build].stage # "idle"
    BY <2>1, <2>2, <1>2 DEF Waits, Kept
  <2>3. QED
    BY <2>1, <2>2
<1>7. BuildsOK' /\ CallsOK'
  BY <1>1, <1>5, <1>6, BuildsFollow
<1>8. CacheOK'
  <2>1. cache.build # None => build'[cache.build] = build[cache.build]
    BY <1>2, <1>3 DEF Kept
  <2>2. QED
    BY <1>1, <2>1 DEF CacheOK
<1>9. QED
  BY <1>4, <1>7, <1>8

\* The cached promise grows older.
LEMMA TickKeeps ==
  ASSUME TypeOK, BuildsOK, CallsOK, CacheOK, Tick
  PROVE  /\ build' \in [Builds -> Build]
         /\ cache' \in [build : Builds \cup {None}, left : 0 .. TTL]
         /\ BuildsOK' /\ CallsOK' /\ CacheOK'
<1> DEFINE k == cache.build
           older == [build EXCEPT ![k].age = IF @ < TTL THEN @ + 1 ELSE @]
<1>1. /\ cache.left > 0
      /\ cache' = IF cache.left = 1 THEN NoCache ELSE [cache EXCEPT !.left = @ - 1]
      /\ build' = Collect(older, call, cache')
      /\ UNCHANGED <<session, call, era>>
  BY DEF Tick
<1>2. /\ build \in [Builds -> Build] /\ call \in [Calls -> Call]
      /\ cache \in [build : Builds \cup {None}, left : 0 .. TTL]
      /\ TTL \in Nat
  BY TTLAssumption DEF TypeOK
<1>3. /\ k \in Builds /\ build[k] \in Build /\ build[k].stage # "idle" /\ build[k].era = era
      /\ build[k].age + cache.left = TTL /\ build[k].age \in 0 .. TTL
  <2>1. k # None /\ k \in Builds
    BY <1>1, <1>2 DEF CacheOK
  <2>2. build[k] \in Build
    BY <2>1, <1>2
  <2>3. QED
    BY <2>1, <2>2 DEF CacheOK, Build
<1>4. older = [build EXCEPT ![k] = [build[k] EXCEPT !.age = build[k].age + 1]]
  <2>1. build[k].age < TTL
    BY <1>1, <1>2, <1>3
  <2>2. older = [build EXCEPT ![k] = [build[k] EXCEPT !.age = IF build[k].age < TTL THEN build[k].age + 1 ELSE build[k].age]]
    OBVIOUS
  <2>3. QED
    BY <2>1, <2>2
<1>5. [build[k] EXCEPT !.age = build[k].age + 1] \in Build
  <2>1. build[k].age + 1 \in 0 .. TTL
    BY <1>1, <1>2, <1>3
  <2>2. QED
    BY <2>1, <1>3 DEF Build
<1>6. older \in [Builds -> Build]
  BY <1>2, <1>4, <1>5
<1>7. /\ older[k].age = build[k].age + 1 /\ older[k].stage = build[k].stage /\ Same(older[k], build[k])
      /\ \A b \in Builds : b # k => older[b] = build[b]
  <2>1. older[k] = [build[k] EXCEPT !.age = build[k].age + 1]
    BY <1>2, <1>3, <1>4
  <2>2. QED
    BY <2>1, <1>2, <1>3, <1>4 DEF Build, Same
<1> HIDE DEF older
<1>8. \A b \in Builds : build'[b] = IF Kept(b, call, cache') THEN older[b] ELSE NoBuild
  BY <1>1 DEF Collect
<1>9. build' \in [Builds -> Build]
  BY <1>1, <1>6, CollectTyped
<1>10. \A b \in Builds : build'[b].stage = "idle"
                            \/ (build[b].stage # "idle" /\ Same(build'[b], build[b]))
  BY <1>3, <1>7, <1>8, NoBuildFacts DEF Same
<1>11. ASSUME NEW c \in Calls, Waits(call[c]) PROVE build'[call[c].build].stage # "idle"
  <2>1. call[c].build \in Builds /\ build[call[c].build].stage # "idle"
    BY <1>11 DEF Waits
  <2>2. build'[call[c].build] = older[call[c].build]
    BY <2>1, <1>8 DEF Kept
  <2>3. QED
    BY <2>1, <2>2, <1>7
<1>12. BuildsOK' /\ CallsOK'
  BY <1>1, <1>10, <1>11, BuildsFollow
<1>13. CASE cache.left = 1
  BY <1>13, <1>1, <1>9, <1>12, NoBuildFacts DEF CacheOK
<1>14. CASE cache.left # 1
  <2>1. cache' = [cache EXCEPT !.left = cache.left - 1]
    BY <1>14, <1>1
  <2>2. cache'.build = k /\ cache'.left = cache.left - 1
    BY <2>1, <1>2
  <2>3. cache' \in [build : Builds \cup {None}, left : 0 .. TTL] /\ cache'.left # 0
    BY <2>1, <2>2, <1>14, <1>1, <1>2
  <2>4. build'[k] = older[k]
    BY <2>2, <1>3, <1>8 DEF Kept
  <2>5. k # None
    BY <1>3, SlotsAssumption
  <2>6. build'[k].age + cache'.left = TTL
    BY <2>2, <2>4, <1>1, <1>2, <1>3, <1>7
  <2>7. build'[k].stage # "idle" /\ build'[k].era = era
    BY <2>4, <1>3, <1>7 DEF Same
  <2>8. QED
    BY <2>2, <2>3, <2>5, <2>6, <2>7, <1>1, <1>9, <1>12 DEF CacheOK
<1>15. QED
  BY <1>13, <1>14

-----------------------------------------------------------------------------
(* The session is replaced *)

\* Whatever becomes of the runtime, the builds of the old session are of an earlier one,
\* and nothing is cached but a build of the new session.
LEMMA SwapKeeps ==
  ASSUME TypeOK, BuildsOK, CallsOK, ErasOK, NEW c \in Calls, NEW s \in Env \cup {None},
         NEW opens \in BOOLEAN, Disturb, Swap(c, s, opens)
  PROVE  /\ session' \in Env \cup {None} /\ runtime' \in Env \cup {None}
         /\ cache' \in [build : Builds \cup {None}, left : 0 .. TTL]
         /\ build' \in [Builds -> Build] /\ call' \in [Calls -> Call]
         /\ left' \in 0 .. MaxDisturbances /\ era' \in 0 .. MaxDisturbances /\ torn' \in BOOLEAN
         /\ BuildsOK' /\ CallsOK' /\ CacheOK' /\ RuntimeOK' /\ ErasOK'
<1>1. /\ build \in [Builds -> Build] /\ call \in [Calls -> Call]
      /\ era \in Nat /\ left \in Nat /\ MaxDisturbances \in Nat /\ runtime \in Env \cup {None}
  BY BoundAssumption DEF TypeOK
<1>2. session' = s /\ era' = era + 1 /\ torn' = ~opens /\ left' = left - 1 /\ left > 0
  BY DEF Swap, Disturb
<1>3. /\ session' \in Env \cup {None} /\ torn' \in BOOLEAN
      /\ left' \in 0 .. MaxDisturbances /\ era' \in 0 .. MaxDisturbances /\ ErasOK'
  BY <1>1, <1>2 DEF ErasOK
<1>4. CASE opens
  <2>1. runtime' = RuntimeOf(EffectiveEnv(s)) /\ Cached(c, s, era + 1, NoCache, build)
    BY <1>4 DEF Swap
  <2>2. era + 1 \in 0 .. MaxDisturbances /\ era <= era + 1 /\ (era + 1 = era => s = session)
    BY <1>1, <1>2, <1>3
  <2>3. /\ build' \in [Builds -> Build] /\ call' \in [Calls -> Call]
        /\ cache' \in [build : Builds \cup {None}, left : 0 .. TTL]
        /\ BuildsOK' /\ CallsOK' /\ CacheOK'
    BY <2>1, <2>2, <1>1, <1>2, CachedKeeps, NoCacheGood
  <2>4. runtime' \in Env \cup {None} /\ RuntimeOK'
    BY <2>1, <1>2, EnvFacts DEF RuntimeOK
  <2>5. QED
    BY <2>3, <2>4, <1>3
<1>5. CASE ~opens
  <2>1. /\ UNCHANGED <<runtime, call>> /\ cache' = NoCache
        /\ build' = Collect(build, call, NoCache) /\ torn'
    BY <1>2, <1>5 DEF Swap
  <2>2. build' \in [Builds -> Build] /\ CacheOK' /\ cache' \in [build : Builds \cup {None}, left : 0 .. TTL]
    BY <2>1, <1>1, CollectTyped, NoBuildFacts DEF CacheOK
  <2>3. \A b \in Builds : build'[b] = IF Kept(b, call, NoCache) THEN build[b] ELSE NoBuild
    BY <2>1 DEF Collect
  <2>4. BuildsOK'
    <3> SUFFICES ASSUME NEW b \in Builds, build'[b].stage # "idle"
                 PROVE  /\ build'[b].live <=> LiveReady(build'[b].env)
                        /\ build'[b].era <= era + 1
                        /\ build'[b].era # era + 1
      BY <1>2 DEF BuildsOK
    <3>1. build'[b] = build[b]
      BY <2>3, NoBuildFacts
    <3>2. build[b].era \in Nat
      BY <1>1 DEF Build
    <3>3. build[b].era <= era /\ (build[b].live <=> LiveReady(build[b].env))
      BY <3>1 DEF BuildsOK
    <3>4. QED
      BY <3>1, <3>2, <3>3, <1>1
  <2>5. CallsOK'
    <3> SUFFICES ASSUME NEW d \in Calls, call[d] # NoCall PROVE Waits(call[d])'
      BY <2>1 DEF CallsOK
    <3>1. Waits(call[d])
      BY DEF CallsOK
    <3>2. build'[call[d].build] = build[call[d].build]
      BY <3>1, <2>3 DEF Waits, Kept
    <3>3. QED
      BY <3>1, <3>2, <2>1 DEF Waits
  <2>6. RuntimeOK'
    BY <2>1 DEF RuntimeOK
  <2>7. QED
    BY <2>1, <2>2, <2>4, <2>5, <2>6, <1>1, <1>3
<1>6. QED
  BY <1>4, <1>5

\* What a body of a bootstrap makes is an environment.
LEMMA SessionTyped ==
  ASSUME NEW i \in Inputs
  PROVE  SessionOf(i) \in Env
<1>1. i \in Input
  BY EnvAssumption
<1>2. QED
  BY <1>1 DEF Input, SessionOf, Env

LEMMA OpensTyped == ASSUME NEW s PROVE Opens(s) \subseteq BOOLEAN
BY DEF Opens

-----------------------------------------------------------------------------
(* Answers *)

\* The gateway is ready only under a live environment.
LEMMA GatewayNeedsLive ==
  ASSUME NEW b, AllReady(b) PROVE b.live
<1>1. RoleReady(b, "gateway")
  BY DEF AllReady
<1>2. QED
  BY <1>1 DEF RoleReady, GatewayBlocked

\* Without injected adapters a role can act exactly when it is ready: evidence is never
\* taken for the profile of a source.
LEMMA CapableIsReady ==
  ASSUME ~Injected, NEW b, b.source \in {"env", "runtime"}
  PROVE  Capable(b) = Roles \cup {"gateway"} <=> AllReady(b)
<1>1. ASSUME NEW r \in Roles \cup {"gateway"}
      PROVE  r \in Capable(b) <=> RoleReady(b, r)
  <2>1. Status(b, r) = "ready" <=> RoleReady(b, r)
    BY DEF Status
  <2>2. (\E p \in Profiles(b, r) : p.id = b.source /\ p.status = "ready") <=> Status(b, r) = "ready"
    <3> DEFINE own == [id |-> b.source, status |-> Status(b, r)]
    <3>1. own \in Profiles(b, r)
      BY DEF Profiles
    <3>2. \A p \in Profiles(b, r) : p = own \/ p.id = "evidence"
      BY DEF Profiles
    <3>3. own.id = b.source /\ own.status = Status(b, r) /\ b.source # "evidence"
      OBVIOUS
    <3> HIDE DEF own
    <3>4. QED
      BY <3>1, <3>2, <3>3
  <2>3. r \in Capable(b) <=> \E p \in Profiles(b, r) : p.id = b.source /\ p.status = "ready"
    BY DEF Capable
  <2>4. QED
    BY <2>1, <2>2, <2>3
<1>2. Capable(b) \subseteq Roles \cup {"gateway"}
  BY DEF Capable
<1>3. QED
  BY <1>1, <1>2 DEF AllReady

\* An answer is as fresh as the promise, and of one deployment unless it was overtaken.
LEMMA RespondAnswers ==
  ASSUME TypeOK, BuildsOK, CallsOK, RuntimeOK, NEW c \in Calls, Respond(c)
  PROVE  answer' \in Answer /\ AnswerIsFresh' /\ AnswerIsWhole'
<1> DEFINE q == call[c]
           b == build[q.build]
<1>1. Waits(q) /\ q \in Call /\ b \in Build
  BY DEF CallsOK, Respond, TypeOK, Waits
<1>2. /\ answer'.given /\ answer' \in Answer
      /\ answer'.ok = (b.live /\ AllReady(b))
      /\ answer'.blockers = (~AllReady(b) \/ ~LiveReady(EffectiveEnv(session)))
      /\ answer'.source = Source(session) /\ answer'.roles = b.source
      /\ answer'.can = Capable(b) /\ answer'.summary = Summary(session)
      /\ answer'.runs = (runtime # None /\ runtime = EffectiveEnv(session))
      /\ answer'.swapped = (q.era # era) /\ answer'.foreign = (b.era # q.era)
      /\ answer'.stale = q.stale
  <2> DEFINE a == [given |-> TRUE, ok |-> b.live /\ AllReady(b),
                   blockers |-> ~AllReady(b) \/ ~LiveReady(EffectiveEnv(session)),
                   source |-> Source(session), roles |-> b.source, can |-> Capable(b),
                   summary |-> Summary(session),
                   runs |-> runtime # None /\ runtime = EffectiveEnv(session),
                   swapped |-> q.era # era, foreign |-> b.era # q.era, stale |-> q.stale]
  <2>1. answer' = a
    BY DEF Respond, Configuration
  <2>2. /\ Capable(b) \subseteq Roles \cup {"gateway"} /\ Source(session) \in {"env", "runtime"}
        /\ b.source \in {"env", "runtime"} /\ Summary(session) \in {"env", "runtime", "unconfigured"}
        /\ q.stale \in 0 .. TTL
    BY <1>1 DEF Capable, Source, Summary, Build, Call
  <2> HIDE DEF b, q
  <2>3. a \in Answer
    BY <2>2 DEF Answer
  <2>4. QED
    BY <2>1, <2>3
<1>3. AnswerIsFresh'
  BY <1>1, <1>2 DEF AnswerIsFresh, Waits
<1>4. UNCHANGED torn
  BY DEF Respond
<1>5. ASSUME ~answer'.swapped
      PROVE  /\ answer'.source = answer'.roles
             /\ answer'.ok <=> ~answer'.blockers
             /\ Injected \/ (answer'.ok <=> answer'.can = Roles \cup {"gateway"})
             /\ answer'.ok => answer'.summary = answer'.source /\ (answer'.runs \/ torn')
  <2>1. b.era = era /\ b.stage # "idle" /\ q.build \in Builds
    BY <1>1, <1>2, <1>5 DEF Waits
  <2>2. /\ b.live <=> LiveReady(b.env)
        /\ b.env = EffectiveEnv(session) /\ b.source = Source(session)
    BY <2>1 DEF BuildsOK, ConfirmedBy
  <2>3. answer'.ok <=> ~answer'.blockers
    BY <1>2, <2>2
  <2>4. Injected \/ (answer'.ok <=> answer'.can = Roles \cup {"gateway"})
    <3>1. b.source \in {"env", "runtime"}
      BY <1>1 DEF Build
    <3>2. answer'.ok <=> AllReady(b)
      BY <1>2, GatewayNeedsLive
    <3>3. ~Injected => (Capable(b) = Roles \cup {"gateway"} <=> AllReady(b))
      BY <3>1, CapableIsReady
    <3>4. answer'.can = Capable(b)
      BY <1>2
    <3>5. QED
      BY <3>2, <3>3, <3>4
  <2>5. ASSUME answer'.ok
        PROVE  answer'.summary = answer'.source /\ (answer'.runs \/ torn')
    <3>1. LiveReady(EffectiveEnv(session)) /\ session \in Env \cup {None}
      BY <2>5, <2>2, <1>2 DEF TypeOK
    <3>2. Summary(session) = Source(session)
      BY <3>1 DEF Summary, Source, EffectiveEnv
    <3>3. RuntimeOf(EffectiveEnv(session)) = EffectiveEnv(session) /\ EffectiveEnv(session) # None
      BY <3>1, EnvFacts, EnvAssumption DEF RuntimeOf
    <3>4. QED
      BY <3>2, <3>3, <1>2, <1>4 DEF RuntimeOK
  <2>6. QED
    BY <1>2, <2>2, <2>3, <2>4, <2>5
<1>6. AnswerIsWhole'
  BY <1>5 DEF AnswerIsWhole
<1>7. QED
  BY <1>2, <1>3, <1>6

\* Between answers there is none.
LEMMA SilentAnswers ==
  ASSUME answer' = NoAnswer
  PROVE  answer' \in Answer /\ AnswerIsFresh' /\ AnswerIsWhole'
BY NoBuildFacts DEF AnswerIsFresh, AnswerIsWhole

-----------------------------------------------------------------------------
(* The theorems *)

LEMMA StartsSafe == Init => IInv
<1> SUFFICES ASSUME Init PROVE IInv
  OBVIOUS
<1>1. RuntimeOf(ProcessEnv) \in Env \cup {None} /\ EffectiveEnv(None) = ProcessEnv
  BY EnvAssumption DEF RuntimeOf, EffectiveEnv
<1>2. 0 \in 0 .. MaxDisturbances /\ MaxDisturbances \in 0 .. MaxDisturbances /\ MaxDisturbances \in Nat
  BY BoundAssumption
<1>3. TypeOK
  BY <1>1, <1>2, NoBuildFacts, HealthsAssumption DEF Init, TypeOK
<1>4. BuildsOK /\ CallsOK /\ CacheOK /\ RuntimeOK /\ ErasOK
  BY <1>1, <1>2, NoBuildFacts DEF Init, BuildsOK, CallsOK, CacheOK, RuntimeOK, ErasOK
<1>5. AnswerIsFresh /\ AnswerIsWhole
  BY NoBuildFacts DEF Init, AnswerIsFresh, AnswerIsWhole
<1>6. QED
  BY <1>3, <1>4, <1>5 DEF IInv

LEMMA StepKeeps == IInv /\ [Next]_vars => IInv'
<1> SUFFICES ASSUME IInv, [Next]_vars PROVE IInv'
  OBVIOUS
<1>0. /\ TypeOK /\ BuildsOK /\ CallsOK /\ CacheOK /\ RuntimeOK /\ ErasOK
      /\ AnswerIsFresh /\ AnswerIsWhole
  BY DEF IInv
<1>1. ASSUME NEW c \in Calls, Ask(c), answer' = NoAnswer PROVE IInv'
  <2>1. /\ Cached(c, session, era, cache, build)
        /\ UNCHANGED <<session, runtime, node, reports, left, era, torn>>
    BY <1>1 DEF Ask
  <2>2. Good(cache, era)
    BY <1>0 DEF Good, CacheOK, TypeOK
  <2>3. /\ build' \in [Builds -> Build] /\ call' \in [Calls -> Call]
        /\ cache' \in [build : Builds \cup {None}, left : 0 .. TTL]
        /\ BuildsOK' /\ CallsOK' /\ CacheOK'
    <3>1. /\ session \in Env \cup {None} /\ era \in 0 .. MaxDisturbances /\ era \in Nat /\ era <= era
          /\ build \in [Builds -> Build] /\ call \in [Calls -> Call]
      BY <1>0, BoundAssumption DEF TypeOK
    <3>2. QED
      BY <3>1, <2>1, <2>2, <1>0, CachedKeeps
  <2>4. TypeOK'
    BY <2>1, <2>3, <1>0, <1>1, SilentAnswers DEF TypeOK
  <2>5. RuntimeOK' /\ ErasOK'
    BY <2>1, <1>0 DEF RuntimeOK, ErasOK
  <2>6. QED
    BY <2>3, <2>4, <2>5, <1>1, SilentAnswers DEF IInv
<1>2. ASSUME NEW c \in Calls, NEW s \in Env \cup {None}, NEW opens \in Opens(s), Disturb,
             Swap(c, s, opens), UNCHANGED <<node, reports>>, answer' = NoAnswer
      PROVE  IInv'
  <2>1. opens \in BOOLEAN
    BY OpensTyped
  <2>2. /\ session' \in Env \cup {None} /\ runtime' \in Env \cup {None}
        /\ cache' \in [build : Builds \cup {None}, left : 0 .. TTL]
        /\ build' \in [Builds -> Build] /\ call' \in [Calls -> Call]
        /\ left' \in 0 .. MaxDisturbances /\ era' \in 0 .. MaxDisturbances /\ torn' \in BOOLEAN
        /\ BuildsOK' /\ CallsOK' /\ CacheOK' /\ RuntimeOK' /\ ErasOK'
    BY <2>1, <1>0, <1>2, SwapKeeps
  <2>3. TypeOK'
    BY <2>2, <1>0, <1>2, SilentAnswers DEF TypeOK
  <2>4. QED
    BY <2>2, <2>3, <1>2, SilentAnswers DEF IInv
<1>3. ASSUME NEW c \in Calls, Reset(c), answer' = NoAnswer PROVE IInv'
  BY <1>2, <1>3 DEF Reset
<1>4. ASSUME NEW c \in Calls, NEW i \in Inputs, Apply(c, i), answer' = NoAnswer PROVE IInv'
  BY <1>2, <1>4, SessionTyped DEF Apply
<1>5. ASSUME build' \in [Builds -> Build] /\ BuildsOK' /\ CallsOK' /\ CacheOK',
             UNCHANGED <<session, runtime, cache, call, node, reports, left, era, torn>>,
             answer' = NoAnswer
      PROVE  IInv'
  <2>1. TypeOK'
    BY <1>0, <1>5, SilentAnswers DEF TypeOK
  <2>2. RuntimeOK' /\ ErasOK'
    BY <1>0, <1>5 DEF RuntimeOK, ErasOK
  <2>3. QED
    BY <2>1, <2>2, <1>5, SilentAnswers DEF IInv
<1>6. ASSUME NEW b \in Builds, ReadReports(b), answer' = NoAnswer PROVE IInv'
  <2>1. build' \in [Builds -> Build] /\ BuildsOK' /\ CallsOK' /\ CacheOK'
    BY <1>0, <1>6, ReadReportsKeeps
  <2>2. UNCHANGED <<session, runtime, cache, call, node, reports, left, era, torn>>
    BY <1>6 DEF ReadReports
  <2>3. QED
    BY <2>1, <2>2, <1>5, <1>6
<1>7. ASSUME NEW b \in Builds, NEW i \in 1 .. 3, Probe(b, i), answer' = NoAnswer PROVE IInv'
  <2>1. build' \in [Builds -> Build] /\ BuildsOK' /\ CallsOK' /\ CacheOK'
    BY <1>0, <1>7, ProbeKeeps
  <2>2. UNCHANGED <<session, runtime, cache, call, node, reports, left, era, torn>>
    BY <1>7 DEF Probe
  <2>3. QED
    BY <2>1, <2>2, <1>5, <1>7
<1>8. ASSUME Disturb, UNCHANGED <<session, runtime, cache, build, call, era, torn>>,
             node' \in [Nodes -> Healths], reports' \in ReportSets, answer' = NoAnswer
      PROVE  IInv'
  <2>1. left' \in 0 .. MaxDisturbances /\ ErasOK'
    BY <1>0, <1>8, BoundAssumption DEF Disturb, TypeOK, ErasOK
  <2>2. TypeOK'
    BY <2>1, <1>0, <1>8, SilentAnswers DEF TypeOK
  <2>3. BuildsOK' /\ CallsOK' /\ CacheOK' /\ RuntimeOK'
    BY <1>0, <1>8 DEF BuildsOK, CallsOK, CacheOK, RuntimeOK, Waits, ConfirmedBy
  <2>4. QED
    BY <2>1, <2>2, <2>3, <1>8, SilentAnswers DEF IInv
<1>9. ASSUME NEW n \in Nodes, NodeChanges(n), answer' = NoAnswer PROVE IInv'
  <2>1. node' \in [Nodes -> Healths]
    BY <1>0, <1>9 DEF NodeChanges, TypeOK
  <2>2. reports' \in ReportSets /\ Disturb /\ UNCHANGED <<session, runtime, cache, build, call, era, torn>>
    BY <1>0, <1>9 DEF NodeChanges, TypeOK
  <2>3. QED
    BY <2>1, <2>2, <1>8, <1>9
<1>10. ASSUME ReportsChange, answer' = NoAnswer PROVE IInv'
  <2>1. /\ reports' \in ReportSets /\ node' \in [Nodes -> Healths] /\ Disturb
        /\ UNCHANGED <<session, runtime, cache, build, call, era, torn>>
    BY <1>0, <1>10 DEF ReportsChange, TypeOK
  <2>2. QED
    BY <2>1, <1>8, <1>10
<1>11. ASSUME Tick, answer' = NoAnswer PROVE IInv'
  <2>1. /\ build' \in [Builds -> Build]
        /\ cache' \in [build : Builds \cup {None}, left : 0 .. TTL]
        /\ BuildsOK' /\ CallsOK' /\ CacheOK'
    BY <1>0, <1>11, TickKeeps
  <2>2. UNCHANGED <<session, runtime, call, node, reports, left, era, torn>>
    BY <1>11 DEF Tick
  <2>3. TypeOK'
    BY <2>1, <2>2, <1>0, <1>11, SilentAnswers DEF TypeOK
  <2>4. RuntimeOK' /\ ErasOK'
    BY <2>2, <1>0 DEF RuntimeOK, ErasOK
  <2>5. QED
    BY <2>1, <2>3, <2>4, <1>11, SilentAnswers DEF IInv
<1>12. ASSUME NEW c \in Calls, Respond(c) PROVE IInv'
  <2>1. /\ build' \in [Builds -> Build] /\ call' \in [Calls -> Call]
        /\ BuildsOK' /\ CallsOK' /\ CacheOK'
    BY <1>0, <1>12, RespondKeeps
  <2>2. answer' \in Answer /\ AnswerIsFresh' /\ AnswerIsWhole'
    BY <1>0, <1>12, RespondAnswers
  <2>3. UNCHANGED <<session, runtime, cache, node, reports, left, era, torn>>
    BY <1>12 DEF Respond
  <2>4. TypeOK'
    BY <2>1, <2>2, <2>3, <1>0 DEF TypeOK
  <2>5. RuntimeOK' /\ ErasOK'
    BY <2>3, <1>0 DEF RuntimeOK, ErasOK
  <2>6. QED
    BY <2>1, <2>2, <2>4, <2>5 DEF IInv
<1>13. CASE UNCHANGED vars
  BY <1>0, <1>13 DEF vars, IInv, TypeOK, BuildsOK, CallsOK, CacheOK, RuntimeOK, ErasOK,
                     AnswerIsFresh, AnswerIsWhole, Waits, ConfirmedBy
<1>14. CASE Silent /\ answer' = NoAnswer
  BY <1>14, <1>1, <1>3, <1>4, <1>6, <1>7, <1>9, <1>10, <1>11 DEF Silent
<1>15. QED
  BY <1>12, <1>13, <1>14 DEF Next

\* The inductive invariant of the evidence API's readiness.
THEOREM Invariance == Spec => []IInv
BY StartsSafe, StepKeeps, PTL DEF Spec

\* The cached promise is of a build under the present session, and is kept for the rest
\* of its life (cachedProductionBootstrap and both bootstrap routes).
THEOREM CacheIsOfTheSession == Spec => []CacheHolds
<1>1. ASSUME IInv PROVE CacheHolds
  <2>1. TypeOK /\ BuildsOK /\ CacheOK
    BY <1>1 DEF IInv
  <2>2. ASSUME cache.build # None
        PROVE  LET b == build[cache.build] IN
               b.stage # "idle" /\ b.era = era /\ b.source = Source(session) /\ b.age + cache.left = TTL
    <3>1. cache.build \in Builds
      BY <2>1, <2>2 DEF TypeOK
    <3>2. QED
      BY <3>1, <2>1, <2>2 DEF CacheOK, BuildsOK, ConfirmedBy
  <2>3. QED
    BY <2>1, <2>2 DEF CacheHolds
<1>2. QED
  BY <1>1, Invariance, PTL

\* Nobody is answered from a build begun before the session he asked under.
THEOREM AnswersAreFresh == Spec => []AnswerIsFresh
<1>1. IInv => AnswerIsFresh
  BY DEF IInv
<1>2. QED
  BY <1>1, Invariance, PTL

\* An answer that no replacement overtook speaks of one deployment.
THEOREM AnswersAreWhole == Spec => []AnswerIsWhole
<1>1. IInv => AnswerIsWhole
  BY DEF IInv
<1>2. QED
  BY <1>1, Invariance, PTL
=============================================================================
