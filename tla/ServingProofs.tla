--------------------------- MODULE ServingProofs ---------------------------
(***************************************************************************)
(* Proofs about the parts of the serving process that share no state, each *)
(* for every value of its constants: the circuit breaker in front of an    *)
(* endpoint (CircuitBreaker), for any number of callers and pages, any     *)
(* threshold and any cooldown, 0 included; the admin views; the hedged     *)
(* calls and streams; and the key pool.                                    *)
(***************************************************************************)
EXTENDS CircuitBreaker, HedgedStream, HedgedCall, AdminViews, KeyPool, TLAPS

\* A leaf that names no prover is tried with SMT, then with Zenon.
USE SMTT(30), ZenonT(30)

-----------------------------------------------------------------------------
(* CircuitBreaker *)

\* Why a new probe finds no other within its cooldown: in a half-open circuit
\* the running probe is the one the slot records, with the same deadline; in an
\* open one the cooldown started after every probe did, so it outlasts them.
ProbesTimed ==
    /\ SingleProbe
    /\ state = "open" => \A c \in Callers : life[c] <= cooling
    /\ state = "half_open" => \A c \in Callers : life[c] > 0 => holder = c /\ probe = life[c]

\* An auth page is throttled only within a run of rejections.
ThrottledInRun == throttled => rejected

IInv ==
    /\ TypeOK
    /\ ProbesTimed
    /\ RecoveryIsClean
    /\ GuardedWhileSending
    /\ PagedWhileRejected
    /\ ThrottledInRun

\* A timer that has run a tick is still a timer, and two timers keep their order.
LEMMA LessFacts ==
    ASSUME NEW N \in Nat, NEW m \in 0 .. N, NEW n \in 0 .. N
    PROVE  /\ Less(m) \in 0 .. N
           /\ m <= n => Less(m) <= Less(n)
           /\ Less(m) > 0 => m > 0
           /\ m = 0 => Less(m) = 0
BY DEF Less

\* A new breaker satisfies the invariant.
LEMMA InitIInv == Init => IInv
<1> SUFFICES ASSUME Init PROVE IInv
  OBVIOUS
<1> USE BreakerAssumption DEF Init
<1>1. TypeOK
  <2>1. call \in [Callers -> {"idle", "pinned", "free", "probe"}] /\ life \in [Callers -> 0 .. Cooldown]
    OBVIOUS
  <2>2. page \in [Pages -> {"none", "current", "old"}]
    OBVIOUS
  <2>3. muted \in BOOLEAN /\ recent \in BOOLEAN /\ guarding \in BOOLEAN
        /\ rejected \in BOOLEAN /\ throttled \in BOOLEAN /\ paged \in BOOLEAN
    BY Zenon
  <2>4. failures \in 0 .. Threshold /\ cooling \in 0 .. Cooldown /\ probe \in 0 .. Cooldown
    OBVIOUS
  <2> QED
    BY <2>1, <2>2, <2>3, <2>4 DEF TypeOK
<1>2. ProbesTimed
  BY DEF ProbesTimed, SingleProbe
<1>3. RecoveryIsClean
  BY DEF RecoveryIsClean
<1>4. GuardedWhileSending /\ PagedWhileRejected /\ ThrottledInRun
  BY Zenon DEF GuardedWhileSending, PagedWhileRejected, ThrottledInRun
<1> QED
  BY <1>1, <1>2, <1>3, <1>4 DEF IInv

\* Every step keeps the types.
LEMMA TypeStep == TypeOK /\ [Next]_vars => TypeOK'
<1> SUFFICES ASSUME TypeOK, [Next]_vars PROVE TypeOK'
  OBVIOUS
<1> USE BreakerAssumption DEF TypeOK, breaker, alerts, auth
<1>1. ASSUME NEW c \in Callers, BeginFree(c) \/ Pin(c) \/ Vanish(c) \/ End(c) PROVE TypeOK'
  BY <1>1 DEF BeginFree, Pin, Vanish, End
<1>2. ASSUME NEW c \in Callers, BeginProbe(c) PROVE TypeOK'
  BY <1>2 DEF BeginProbe
<1>3. ASSUME NEW c \in Callers, Success(c) PROVE TypeOK'
  <2>1. page' \in [Pages -> {"none", "current", "old"}]
    BY <1>3 DEF Success
  <2>2. muted' \in BOOLEAN /\ guarding' \in BOOLEAN
        /\ rejected' \in BOOLEAN /\ throttled' \in BOOLEAN /\ paged' \in BOOLEAN
    BY <1>3, Zenon DEF Success, AuthRecovers
  <2> QED
    BY <1>3, <2>1, <2>2 DEF Success
<1>4. ASSUME NEW c \in Callers, Fail(c) PROVE TypeOK'
  <2>1. PICK below \in BOOLEAN, misconfig \in BOOLEAN, usage \in BOOLEAN, enabled \in BOOLEAN,
             usagePages \in BOOLEAN : Failure(c, below, misconfig, usage, enabled, usagePages)
    BY <1>4, ZenonT(40) DEF Fail
  <2>2. muted' \in BOOLEAN /\ recent' \in BOOLEAN /\ guarding' \in BOOLEAN
        /\ page' \in [Pages -> {"none", "current", "old"}]
    BY <2>1, Zenon DEF Failure, Alert
  <2> QED
    BY <2>1, <2>2 DEF Failure, AuthFails
<1>5. ASSUME NEW p \in Pages, NEW delivered \in BOOLEAN, PageEnds(p, delivered) PROVE TypeOK'
  BY <1>5 DEF PageEnds
<1>6. CASE Tick
  BY <1>6, LessFacts DEF Tick
<1>7. CASE MuteEnds \/ GapEnds \/ IntervalEnds
  BY <1>7, ZenonT(40) DEF MuteEnds, GapEnds, IntervalEnds
<1>8. CASE UNCHANGED vars
  BY <1>8 DEF vars
<1> QED
  BY <1>1, <1>2, <1>3, <1>4, <1>5, <1>6, <1>7, <1>8 DEF Next

\* Every step keeps the probes apart.
LEMMA ProbeStep == TypeOK /\ ProbesTimed /\ [Next]_vars => ProbesTimed'
<1> SUFFICES ASSUME TypeOK, ProbesTimed, [Next]_vars PROVE ProbesTimed'
  OBVIOUS
<1> USE BreakerAssumption DEF TypeOK, ProbesTimed, SingleProbe, breaker, alerts, auth
<1>1. ASSUME NEW c \in Callers, BeginFree(c) \/ Pin(c) PROVE ProbesTimed'
  BY <1>1 DEF BeginFree, Pin
<1>2. ASSUME NEW c \in Callers, BeginProbe(c) PROVE ProbesTimed'
  <2>1. \A d \in Callers : life[d] = 0
    BY <1>2 DEF BeginProbe, Admits, ProbeLive
  <2> QED
    BY <1>2, <2>1 DEF BeginProbe
<1>3. ASSUME NEW c \in Callers, End(c) PROVE ProbesTimed'
  BY <1>3 DEF End, Owns
<1>4. ASSUME NEW c \in Callers, Vanish(c) PROVE ProbesTimed'
  BY <1>4 DEF Vanish
<1>5. ASSUME NEW c \in Callers, Success(c) PROVE ProbesTimed'
  BY <1>5 DEF Success
<1>6. ASSUME NEW c \in Callers, Fail(c) PROVE ProbesTimed'
  BY <1>6 DEF Fail, Failure
<1>7. CASE Tick
  <2>1. \A c \in Callers : /\ life'[c] = Less(life[c])
                           /\ life'[c] > 0 => life[c] > 0
                           /\ life[c] <= cooling => life'[c] <= cooling'
    BY <1>7, LessFacts DEF Tick
  <2> QED
    BY <1>7, <2>1 DEF Tick
<1>8. CASE \E p \in Pages, delivered \in BOOLEAN : PageEnds(p, delivered)
  BY <1>8 DEF PageEnds
<1>9. CASE MuteEnds \/ GapEnds \/ IntervalEnds \/ UNCHANGED vars
  BY <1>9, ZenonT(40) DEF MuteEnds, GapEnds, IntervalEnds, vars
<1> QED
  BY <1>1, <1>2, <1>3, <1>4, <1>5, <1>6, <1>7, <1>8, <1>9 DEF Next

\* Every step keeps a closed circuit clean, and the guard with its page.
LEMMA AlertStep ==
    TypeOK /\ RecoveryIsClean /\ GuardedWhileSending /\ [Next]_vars
        => RecoveryIsClean' /\ GuardedWhileSending'
<1> SUFFICES ASSUME TypeOK, RecoveryIsClean, GuardedWhileSending, [Next]_vars
             PROVE  RecoveryIsClean' /\ GuardedWhileSending'
  OBVIOUS
<1> USE BreakerAssumption DEF TypeOK, RecoveryIsClean, GuardedWhileSending, breaker, alerts, auth
<1>1. ASSUME NEW c \in Callers, BeginFree(c) \/ Pin(c) \/ Vanish(c)
      PROVE  RecoveryIsClean' /\ GuardedWhileSending'
  BY <1>1 DEF BeginFree, Pin, Vanish
<1>2. ASSUME NEW c \in Callers, BeginProbe(c) PROVE RecoveryIsClean' /\ GuardedWhileSending'
  BY <1>2 DEF BeginProbe
<1>3. ASSUME NEW c \in Callers, End(c) PROVE RecoveryIsClean' /\ GuardedWhileSending'
  BY <1>3 DEF End
<1>4. ASSUME NEW c \in Callers, Success(c) PROVE RecoveryIsClean' /\ GuardedWhileSending'
  <2>1. RecoveryIsClean'
    BY <1>4 DEF Success
  <2>2. GuardedWhileSending'
    BY <1>4 DEF Success
  <2> QED
    BY <2>1, <2>2
<1>5. ASSUME NEW c \in Callers, Fail(c) PROVE RecoveryIsClean' /\ GuardedWhileSending'
  <2>1. PICK below \in BOOLEAN, misconfig \in BOOLEAN, usage \in BOOLEAN, enabled \in BOOLEAN,
             usagePages \in BOOLEAN : Failure(c, below, misconfig, usage, enabled, usagePages)
    BY <1>5, ZenonT(40) DEF Fail
  <2>2. CASE UNCHANGED alerts
    BY <2>1, <2>2 DEF Failure, Trips
  <2>3. CASE Trips(below) /\ Alert(usage, enabled, usagePages)
    <3>1. RecoveryIsClean'
      BY <2>1, <2>3 DEF Failure
    <3>2. GuardedWhileSending'
      BY <2>3 DEF Alert
    <3> QED
      BY <3>1, <3>2
  <2> QED
    BY <2>1, <2>2, <2>3 DEF Failure
<1>6. ASSUME NEW p \in Pages, NEW delivered \in BOOLEAN, PageEnds(p, delivered)
      PROVE  RecoveryIsClean' /\ GuardedWhileSending'
  <2>1. RecoveryIsClean'
    BY <1>6 DEF PageEnds, Mutes
  <2>2. GuardedWhileSending'
    BY <1>6, Zenon DEF PageEnds, FreesGuard
  <2> QED
    BY <2>1, <2>2
<1>7. CASE Tick
  BY <1>7 DEF Tick, Less
<1>8. CASE MuteEnds \/ GapEnds \/ IntervalEnds \/ UNCHANGED vars
  BY <1>8 DEF MuteEnds, GapEnds, IntervalEnds, vars
<1> QED
  BY <1>1, <1>2, <1>3, <1>4, <1>5, <1>6, <1>7, <1>8 DEF Next

\* Every step keeps the credential page with its run of rejections.
LEMMA AuthStep ==
    PagedWhileRejected /\ ThrottledInRun /\ [Next]_vars => PagedWhileRejected' /\ ThrottledInRun'
<1> SUFFICES ASSUME PagedWhileRejected, ThrottledInRun, [Next]_vars
             PROVE  PagedWhileRejected' /\ ThrottledInRun'
  OBVIOUS
<1> USE DEF PagedWhileRejected, ThrottledInRun
<1>1. CASE UNCHANGED auth
  BY <1>1, Zenon DEF auth
<1>2. ASSUME NEW c \in Callers, Success(c) PROVE PagedWhileRejected' /\ ThrottledInRun'
  BY <1>2, Zenon DEF Success, AuthRecovers
<1>3. ASSUME NEW c \in Callers, Fail(c) PROVE PagedWhileRejected' /\ ThrottledInRun'
  <2>1. PICK below \in BOOLEAN, misconfig \in BOOLEAN, usage \in BOOLEAN, enabled \in BOOLEAN,
             usagePages \in BOOLEAN : Failure(c, below, misconfig, usage, enabled, usagePages)
    BY <1>3 DEF Fail
  <2>2. AuthFails(misconfig)
    BY <2>1 DEF Failure
  <2> QED
    BY <2>2, Zenon DEF AuthFails
<1>4. CASE IntervalEnds
  BY <1>4, Zenon DEF IntervalEnds
<1>5. ASSUME Next
      PROVE  \/ UNCHANGED auth
             \/ \E c \in Callers : Success(c) \/ Fail(c)
             \/ IntervalEnds
  BY <1>5 DEF Next, BeginFree, BeginProbe, Pin, End, Vanish, PageEnds, Tick, MuteEnds, GapEnds
<1>6. UNCHANGED vars => UNCHANGED auth
  BY DEF vars, auth
<1> QED
  BY <1>1, <1>2, <1>3, <1>4, <1>5, <1>6

\* The invariant holds in every reachable state.
LEMMA Invariance == Spec => []IInv
<1>1. IInv /\ [Next]_vars => IInv'
  BY TypeStep, ProbeStep, AlertStep, AuthStep DEF IInv
<1> QED
  BY InitIInv, <1>1, PTL DEF Spec

-----------------------------------------------------------------------------
\* The breaker's state keeps its types.
THEOREM BreakerTypeCorrect == Spec => []TypeOK
BY Invariance, PTL DEF IInv

\* begin_dispatch and end_dispatch never put two probes on the wire within one
\* cooldown, whatever else closes and reopens the circuit meanwhile.
THEOREM BreakerSingleProbe == Spec => []SingleProbe
BY Invariance, PTL DEF IInv, ProbesTimed

\* on_success leaves nothing of an outage behind, and no page delivered late by
\* _send_circuit_alert restores its mute.
THEOREM BreakerRecoveryIsClean == Spec => []RecoveryIsClean
BY Invariance, PTL DEF IInv

\* The in-flight guard and the one current plan-usage page come and go together.
THEOREM BreakerGuardsItsPage == Spec => []GuardedWhileSending
BY Invariance, PTL DEF IInv

\* The credential incident is paged with the first rejection and resolved with
\* the first accepted request.
THEOREM BreakerPagesRejections == Spec => []PagedWhileRejected
BY Invariance, PTL DEF IInv

-----------------------------------------------------------------------------
(* AdminViews *)

Result == [epoch : Nat, generation : Nat]

Memory == [value : Result, seen : Nat, restored : BOOLEAN, error : BOOLEAN]

Computation ==
    [at : {"idle", "started", "loading", "loaded", "written", "unsure"}, result : Result, left : Int]

Request ==
    [server : Servers,
     at : {"idle", "asked", "restoring", "read", "checked", "waiting", "done", "failed", "served"},
     saw : Nat, result : Result, left : Int]

ViewsTypeOK ==
    /\ gen \in Nat
    /\ stored \in Result
    /\ mem \in [Servers -> Memory]
    /\ job \in [Servers -> Computation]
    /\ view \in [Viewers -> Request]

\* A result is without the rows of every delete up to its generation: the
\* generation is read before the rows are.
Sound(r) == r.epoch >= r.generation

\* A computation is not ahead of the deletes, and what it computed is sound.
Honest(j) ==
    /\ j.at = "loading" => j.result.generation <= gen
    /\ j.at \in {"loaded", "written", "unsure"} => Sound(j.result)

\* Every result, wherever it is kept, is sound.
ResultsSound ==
    /\ Sound(stored)
    /\ \A s \in Servers : Sound(mem[s].value) /\ Honest(job[s])
    /\ \A v \in Viewers : Sound(view[v].result)

\* What a request saw its server has seen, once _check went on.
SeenByServer ==
    \A v \in Viewers :
        view[v].at \notin {"idle", "asked"} => view[v].saw <= mem[view[v].server].seen

ViewsIInv == ViewsTypeOK /\ ResultsSound /\ SeenByServer /\ NothingErasedServed

\* The absence of a result shows nobody who was erased.
LEMMA NoResultSound == NoResult \in Result /\ Sound(NoResult)
BY DEF NoResult, Result, Sound

\* _drop_if_superseded changes neither what was seen nor the soundness of the
\* result, and leaves none that is older than what was seen.
LEMMA DroppedResult ==
    ASSUME NEW m \in Memory, Sound(m.value)
    PROVE  /\ Dropped(m) \in Memory
           /\ Dropped(m).seen = m.seen
           /\ Sound(Dropped(m).value)
           /\ Dropped(m).value # NoResult => Dropped(m).value.generation >= m.seen
<1>1. CASE m.value = NoResult \/ m.value.generation >= m.seen
  BY <1>1 DEF Dropped
<1>2. CASE ~(m.value = NoResult \/ m.value.generation >= m.seen)
  <2> DEFINE n == [m EXCEPT !.value = NoResult, !.restored = FALSE]
  <2>1. Dropped(m) = n
    BY <1>2 DEF Dropped
  <2>2. n \in Memory /\ n.seen = m.seen /\ n.value = NoResult
    BY NoResultSound, Zenon DEF Memory
  <2> QED
    BY <2>1, <2>2, NoResultSound
<1> QED
  BY <1>1, <1>2

\* A step of a computation, which may have stored its result.
LEMMA ComputationMoves ==
    ASSUME ViewsIInv, NEW s \in Servers, NEW j \in Computation, Honest(j),
           job' = [job EXCEPT ![s] = j],
           stored' \in Result, Sound(stored'),
           UNCHANGED <<gen, mem, view>>
    PROVE  ViewsIInv'
<1>1. ViewsTypeOK'
  BY DEF ViewsIInv, ViewsTypeOK
<1>2. ResultsSound'
  BY DEF ViewsIInv, ViewsTypeOK, ResultsSound, Honest, Sound
<1> QED
  BY <1>1, <1>2 DEF ViewsIInv, SeenByServer, NothingErasedServed

\* A computation that ends wakes those who wait; the server has seen no less.
LEMMA ComputationEnds ==
    ASSUME ViewsIInv, NEW s \in Servers, NEW m \in Memory, NEW outcome \in {"done", "failed"},
           mem' = [mem EXCEPT ![s] = m], m.seen = mem[s].seen, Sound(m.value),
           Ends(s, outcome),
           UNCHANGED <<gen, stored>>
    PROVE  ViewsIInv'
<1> DEFINE woken(v) == [view[v] EXCEPT !.at = outcome]
<1>1. \A v \in Viewers :
         /\ view[v] \in Request
         /\ woken(v) \in Request
         /\ woken(v).at = outcome /\ woken(v).server = view[v].server
         /\ woken(v).saw = view[v].saw /\ woken(v).result = view[v].result
  BY DEF ViewsIInv, ViewsTypeOK, Request
<1>2. \A v \in Viewers : view'[v] = view[v] \/ (v \in Waiting(s) /\ view'[v] = woken(v))
  BY DEF Ends
<1> HIDE DEF woken
<1>3. NoJob \in Computation /\ NoJob.at = "idle"
  BY NoResultSound DEF NoJob, Computation
<1>4. job' = [job EXCEPT ![s] = NoJob]
  BY DEF Ends
<1>5. ViewsTypeOK'
  <2>1. view' \in [Viewers -> Request]
    BY <1>1, <1>2 DEF Ends
  <2> QED
    BY <1>3, <1>4, <2>1 DEF ViewsIInv, ViewsTypeOK
<1>6. ResultsSound'
  <2>1. \A v \in Viewers : Sound(view'[v].result)
    BY <1>1, <1>2 DEF ViewsIInv, ResultsSound
  <2>2. \A x \in Servers : Sound(mem'[x].value) /\ Honest(job'[x])
    BY <1>3, <1>4 DEF ViewsIInv, ViewsTypeOK, ResultsSound, Honest
  <2> QED
    BY <2>1, <2>2 DEF ViewsIInv, ResultsSound, Honest, Sound
<1>7. SeenByServer'
  BY <1>1, <1>2 DEF ViewsIInv, ViewsTypeOK, SeenByServer, Waiting, Request
<1>8. NothingErasedServed'
  BY <1>1, <1>2 DEF ViewsIInv, NothingErasedServed
<1> QED
  BY <1>5, <1>6, <1>7, <1>8 DEF ViewsIInv

\* Starting a computation leaves every one honest.
LEMMA StartedHonest ==
    ASSUME ViewsIInv, NEW s \in Servers
    PROVE  /\ Started(s) \in [Servers -> Computation]
           /\ \A t \in Servers : Honest(Started(s)[t])
<1> DEFINE j == [NoJob EXCEPT !.at = "started", !.left = MaxAttempts]
<1>1. j \in Computation /\ j.at = "started"
  <2>1. NoJob \in Computation
    BY NoResultSound DEF NoJob, Computation
  <2>2. MaxAttempts \in Int
    BY ViewsAssumption
  <2>3. j \in Computation
    BY <2>1, <2>2, Zenon DEF Computation
  <2>4. j.at = "started"
    BY <2>1 DEF Computation
  <2> QED
    BY <2>3, <2>4
<1>2. Started(s) = job \/ Started(s) = [job EXCEPT ![s] = j]
  BY DEF Started
<1> HIDE DEF j
<1> QED
  BY <1>1, <1>2 DEF ViewsIInv, ViewsTypeOK, ResultsSound, Honest

\* What a request does: its server learns no less than it knew, and what the
\* request is served has none of the rows it saw deleted.
LEMMA RequestMoves ==
    ASSUME ViewsIInv, NEW v \in Viewers, NEW x \in Request, view' = [view EXCEPT ![v] = x],
           mem' \in [Servers -> Memory],
           \A t \in Servers : mem'[t].seen >= mem[t].seen /\ Sound(mem'[t].value),
           job' = job \/ \E t \in Servers : job' = Started(t),
           Sound(x.result),
           x.at \notin {"idle", "asked"} => x.saw <= mem'[x.server].seen,
           x.at = "served" /\ x.result # NoResult => x.result.epoch >= x.saw,
           UNCHANGED <<gen, stored>>
    PROVE  ViewsIInv'
<1>1. job' \in [Servers -> Computation] /\ \A t \in Servers : Honest(job'[t])
  BY StartedHonest DEF ViewsIInv, ViewsTypeOK, ResultsSound
<1>2. ViewsTypeOK'
  BY <1>1, ZenonT(40) DEF ViewsIInv, ViewsTypeOK
<1>3. ResultsSound'
  BY <1>1 DEF ViewsIInv, ViewsTypeOK, ResultsSound, Honest, Sound
<1>4. SeenByServer'
  <2> SUFFICES ASSUME NEW w \in Viewers, view'[w].at \notin {"idle", "asked"}
               PROVE  view'[w].saw <= mem'[view'[w].server].seen
    BY DEF SeenByServer
  <2>1. CASE w = v
    BY <2>1 DEF ViewsIInv, ViewsTypeOK
  <2>2. CASE w # v
    <3>1. view'[w] = view[w] /\ view[w].server \in Servers /\ view[w].saw \in Nat
      BY <2>2 DEF ViewsIInv, ViewsTypeOK, Request
    <3>2. view[w].saw <= mem[view[w].server].seen
      BY <3>1 DEF ViewsIInv, SeenByServer
    <3>3. mem[view[w].server].seen \in Nat /\ mem'[view[w].server].seen \in Nat
      BY <3>1 DEF ViewsIInv, ViewsTypeOK, Memory
    <3> QED
      BY <3>1, <3>2, <3>3
  <2> QED
    BY <2>1, <2>2
<1>5. NothingErasedServed'
  BY DEF ViewsIInv, ViewsTypeOK, NothingErasedServed
<1> QED
  BY <1>2, <1>3, <1>4, <1>5 DEF ViewsIInv

\* A request that is served what is left after _drop_if_superseded.
LEMMA ServedSound ==
    ASSUME ViewsIInv, NEW v \in Viewers, view[v].at \notin {"idle", "asked"},
           mem' = [mem EXCEPT ![view[v].server] = Dropped(mem[view[v].server])],
           Serve(v, Dropped(mem[view[v].server])),
           job' = job \/ \E t \in Servers : job' = Started(t),
           UNCHANGED <<gen, stored>>
    PROVE  ViewsIInv'
<1> DEFINE s == view[v].server
           m == Dropped(mem[s])
           r == Dropped(m).value
           x == [view[v] EXCEPT !.at = "served", !.result = r, !.left = 0]
<1>1. /\ s \in Servers /\ mem[s] \in Memory /\ Sound(mem[s].value)
      /\ view[v] \in Request /\ view[v].saw \in Nat /\ mem[s].seen \in Nat
  BY ZenonT(40) DEF ViewsIInv, ViewsTypeOK, ResultsSound, Request, Memory
<1>2. m \in Memory /\ m.seen = mem[s].seen /\ Sound(m.value)
  BY <1>1, DroppedResult
<1> HIDE DEF m
<1>3. /\ Dropped(m) \in Memory /\ Sound(Dropped(m).value)
      /\ Dropped(m).value # NoResult => Dropped(m).value.generation >= m.seen
  BY <1>2, DroppedResult
<1>4. r \in Result
  BY <1>3 DEF Memory
<1>5. view' = [view EXCEPT ![v] = x]
  BY Zenon DEF Serve, m
<1> HIDE DEF r
<1>6. /\ x \in Request /\ x.at = "served" /\ x.result = r
      /\ x.saw = view[v].saw /\ x.server = s
  <2>1. x \in Request
    <3>1. 0 \in Int
      OBVIOUS
    <3> QED
      BY <1>1, <1>4, <3>1, Zenon DEF Request
  <2>2. /\ x.at = "served" /\ x.result = r
        /\ x.saw = view[v].saw /\ x.server = s
    BY <1>1 DEF Request
  <2> QED
    BY <2>1, <2>2
<1> HIDE DEF x, s
<1>7. view[v].saw <= mem[s].seen
  BY ZenonT(40) DEF ViewsIInv, SeenByServer, s
<1>8. x.result # NoResult => x.result.epoch >= x.saw
  BY <1>1, <1>2, <1>3, <1>4, <1>6, <1>7 DEF Sound, Result, r
<1>9. /\ mem' \in [Servers -> Memory]
      /\ \A t \in Servers : mem'[t].seen >= mem[t].seen /\ Sound(mem'[t].value)
  BY <1>1, <1>2 DEF ViewsIInv, ViewsTypeOK, ResultsSound, Memory, m, s
<1>10. x.saw <= mem'[x.server].seen
  BY <1>1, <1>2, <1>6, <1>7 DEF ViewsIInv, ViewsTypeOK, m, s
<1> QED
  BY <1>3, <1>5, <1>6, <1>8, <1>9, <1>10, RequestMoves, Zenon DEF r

\* The steps of _run and _publish.
LEMMA ComputationKeeps ==
    ASSUME ViewsIInv, NEW s \in Servers, JobStep(s) PROVE ViewsIInv'
<1> DEFINE j == job[s]
<1>1. /\ j \in Computation /\ Honest(j) /\ j.result \in Result /\ j.left \in Int
      /\ mem[s] \in Memory /\ Sound(mem[s].value) /\ mem[s].value \in Result
      /\ gen \in Nat /\ stored \in Result /\ Sound(stored)
  BY DEF ViewsIInv, ViewsTypeOK, ResultsSound, Computation, Memory
<1>2. ASSUME NEW at \in {"written", "unsure"}, j.at \in {"loaded", "unsure"},
             job' = [job EXCEPT ![s].at = at],
             stored' = stored \/ stored' = j.result,
             UNCHANGED <<gen, mem, view>>
      PROVE  ViewsIInv'
  <2> DEFINE k == [j EXCEPT !.at = at]
  <2>1. k \in Computation /\ k.at = at /\ k.result = j.result
    BY <1>1, <1>2 DEF Computation
  <2>2. job' = [job EXCEPT ![s] = k]
    BY <1>2
  <2> HIDE DEF k
  <2>3. Sound(j.result)
    BY <1>1, <1>2 DEF Honest
  <2>4. Honest(k)
    BY <1>2, <2>1, <2>3 DEF Honest
  <2>5. stored' \in Result /\ Sound(stored')
    BY <1>1, <1>2, <2>3
  <2> QED
    BY <1>2, <2>1, <2>2, <2>4, <2>5, ComputationMoves, Zenon
<1>3. ASSUME Fails(s), UNCHANGED <<gen, stored>>
      PROVE  ViewsIInv'
  <2> DEFINE m == [mem[s] EXCEPT !.error = TRUE]
  <2>1. m \in Memory /\ m.seen = mem[s].seen /\ m.value = mem[s].value
    BY <1>1, Zenon DEF Memory
  <2>2. mem' = [mem EXCEPT ![s] = m]
    BY <1>3 DEF Fails
  <2> HIDE DEF m
  <2> QED
    BY <1>1, <1>3, <2>1, <2>2, ComputationEnds, Zenon DEF Fails
<1>4. ASSUME Superseded(s), UNCHANGED <<gen, stored>>
      PROVE  ViewsIInv'
  <2>1. CASE j.left = 1
    BY <1>3, <1>4, <2>1 DEF Superseded
  <2>2. CASE j.left # 1
    <3> DEFINE k == [j EXCEPT !.at = "started", !.left = j.left - 1]
    <3>1. j.left - 1 \in Int
      BY <1>1
    <3>2. k \in Computation /\ k.at = "started"
      BY <1>1, <3>1, Zenon DEF Computation
    <3>3. job' = [job EXCEPT ![s] = k]
      BY <1>4, <2>2, Zenon DEF Superseded
    <3> HIDE DEF k
    <3> QED
      BY <1>1, <1>4, <2>2, <3>2, <3>3, ComputationMoves, Zenon DEF Honest, Superseded
  <2> QED
    BY <2>1, <2>2
<1>5. CASE ReadGeneration(s)
  <2> DEFINE r == [epoch |-> 0, generation |-> gen]
             k == [j EXCEPT !.at = "loading", !.result = r]
  <2>1. r \in Result /\ r.generation = gen
    BY <1>1 DEF Result
  <2>2. job' = [job EXCEPT ![s] = k]
    BY <1>5, Zenon DEF ReadGeneration
  <2> HIDE DEF r
  <2>3. k \in Computation /\ k.at = "loading" /\ k.result = r
    BY <1>1, <2>1, Zenon DEF Computation
  <2> HIDE DEF k
  <2>4. Honest(k)
    BY <1>1, <2>1, <2>3 DEF Honest
  <2> QED
    BY <1>1, <1>5, <2>2, <2>3, <2>4, ComputationMoves, Zenon DEF ReadGeneration
<1>6. CASE Load(s)
  <2> DEFINE r == [j.result EXCEPT !.epoch = gen]
             k == [j EXCEPT !.at = "loaded", !.result = r]
  <2>1. r \in Result /\ r.epoch = gen /\ r.generation = j.result.generation
    BY <1>1 DEF Result
  <2>2. job' = [job EXCEPT ![s] = k]
    BY <1>6, Zenon DEF Load
  <2> HIDE DEF r
  <2>3. k \in Computation /\ k.at = "loaded" /\ k.result = r
    BY <1>1, <2>1, Zenon DEF Computation
  <2> HIDE DEF k
  <2>4. Honest(k)
    BY <1>1, <1>6, <2>1, <2>3 DEF Honest, Sound, Load, Result
  <2> QED
    BY <1>1, <1>6, <2>2, <2>3, <2>4, ComputationMoves, Zenon DEF Load
<1>7. ASSUME NEW newer \in BOOLEAN, Write(s, newer) PROVE ViewsIInv'
  BY <1>2, <1>4, <1>7 DEF Write
<1>8. ASSUME NEW committed \in BOOLEAN, WriteFails(s, committed) PROVE ViewsIInv'
  BY <1>2, <1>8 DEF WriteFails
<1>9. CASE Recheck(s)
  BY <1>2, <1>4, <1>9 DEF Recheck
<1>10. CASE Publish(s)
  <2> DEFINE kept == IF Keeps(mem[s], j.result) THEN j.result ELSE mem[s].value
             m == [mem[s] EXCEPT !.value = kept, !.error = FALSE]
  <2>1. kept \in Result /\ Sound(kept)
    BY <1>1, <1>10 DEF Publish, Honest
  <2>2. mem' = [mem EXCEPT ![s] = m]
    BY <1>10, Zenon DEF Publish
  <2> HIDE DEF kept
  <2>3. m \in Memory /\ m.seen = mem[s].seen /\ m.value = kept
    BY <1>1, <2>1, Zenon DEF Memory
  <2> HIDE DEF m
  <2> QED
    BY <1>10, <2>1, <2>2, <2>3, ComputationEnds, Zenon DEF Publish
<1>11. CASE JobFails(s)
  BY <1>3, <1>11 DEF JobFails
<1> QED
  BY <1>5, <1>6, <1>7, <1>8, <1>9, <1>10, <1>11, ZenonT(40) DEF JobStep

\* The steps of get and warm.
LEMMA RequestKeeps ==
    ASSUME ViewsIInv, NEW v \in Viewers, ViewStep(v) PROVE ViewsIInv'
<1> DEFINE q == view[v]
           s == q.server
           d == Dropped(mem[s])
<1>1. /\ q \in Request /\ s \in Servers /\ q.saw \in Nat /\ q.left \in Int
      /\ q.result \in Result /\ Sound(q.result)
      /\ mem[s] \in Memory /\ Sound(mem[s].value) /\ mem[s].seen \in Nat
      /\ gen \in Nat /\ stored \in Result /\ Sound(stored)
      /\ mem \in [Servers -> Memory]
      /\ \A t \in Servers : mem[t].seen \in Nat /\ Sound(mem[t].value)
  BY ZenonT(40) DEF ViewsIInv, ViewsTypeOK, ResultsSound, Request, Memory
<1>2. d \in Memory /\ d.seen = mem[s].seen /\ Sound(d.value)
  BY <1>1, DroppedResult
<1>3. q.at \notin {"idle", "asked"} => q.saw <= mem[s].seen
  BY ZenonT(40) DEF ViewsIInv, SeenByServer
<1>4. ASSUME NEW m \in Memory, m.seen >= mem[s].seen, Sound(m.value), mem' = [mem EXCEPT ![s] = m]
      PROVE  /\ mem' \in [Servers -> Memory]
             /\ \A t \in Servers : mem'[t].seen >= mem[t].seen /\ Sound(mem'[t].value)
             /\ mem'[s].seen = m.seen
  BY <1>1, <1>4
<1>5. ASSUME NEW x \in Request, view' = [view EXCEPT ![v] = x], x.result = NoResult,
             x.at \in {"idle", "asked"} \/ (x.at = "checked" /\ x.saw = 0),
             mem' \in [Servers -> Memory],
             \A u \in Servers : mem'[u].seen >= mem[u].seen /\ Sound(mem'[u].value),
             job' = job \/ \E u \in Servers : job' = Started(u),
             UNCHANGED <<gen, stored>>
      PROVE  ViewsIInv'
  <2>1. x.server \in Servers
    BY <1>5, ZenonT(40) DEF Request
  <2>2. x.at = "checked" => x.saw <= mem'[x.server].seen
    BY <1>1, <1>5, <2>1 DEF Memory
  <2> QED
    BY <1>5, <2>2, NoResultSound, RequestMoves, Zenon
<1>6. ASSUME mem' = mem
  PROVE  /\ mem' \in [Servers -> Memory]
         /\ \A u \in Servers : mem'[u].seen >= mem[u].seen /\ Sound(mem'[u].value)
  BY <1>1, <1>6
<1>7. \A t \in Servers : NoView(t) \in Request /\ NoView(t).result = NoResult /\ NoView(t).at = "idle"
                         /\ NoView(t).saw = 0
  BY NoResultSound DEF NoView, Request
<1>8. ASSUME NEW x \in Request, view' = [view EXCEPT ![v] = x],
             x.at # "served", x.saw = q.saw, x.server = s, Sound(x.result),
             NEW m \in Memory, m.seen >= mem[s].seen, Sound(m.value),
             mem' = [mem EXCEPT ![s] = m], q.saw <= m.seen,
             job' = job \/ job' = Started(s),
             UNCHANGED <<gen, stored>>
      PROVE  ViewsIInv'
  <2> HIDE DEF q, s
  <2> QED
    BY <1>1, <1>4, <1>8, RequestMoves, Zenon
<1>9. ASSUME NEW t \in Servers, Ask(v, t) PROVE ViewsIInv'
  <2> DEFINE x == [NoView(t) EXCEPT !.at = "asked", !.saw = gen]
  <2>1. x \in Request /\ x.at = "asked" /\ x.result = NoResult
    BY <1>1, <1>7, Zenon DEF Request
  <2>2. view' = [view EXCEPT ![v] = x]
    BY <1>9 DEF Ask
  <2>3. UNCHANGED <<gen, stored, mem, job>>
    BY <1>9 DEF Ask
  <2> HIDE DEF x
  <2> QED
    BY <1>5, <1>6, <2>1, <2>2, <2>3, Zenon
<1>10. ASSUME NEW t \in Servers, AskFails(v, t) PROVE ViewsIInv'
  <2> DEFINE x == [NoView(t) EXCEPT !.at = "checked"]
  <2>1. x \in Request /\ x.at = "checked" /\ x.result = NoResult /\ x.saw = 0
    BY <1>1, <1>7 DEF Request
  <2>2. view' = [view EXCEPT ![v] = x]
    BY <1>10 DEF AskFails
  <2>3. UNCHANGED <<gen, stored, mem, job>>
    BY <1>10 DEF AskFails
  <2> HIDE DEF x
  <2> QED
    BY <1>5, <1>6, <2>1, <2>2, <2>3, Zenon
<1>11. CASE Learn(v)
  <2> DEFINE told == [mem[s] EXCEPT !.seen = IF @ < q.saw THEN q.saw ELSE @]
             m == Dropped(told)
             restore == ~m.restored /\ m.value = NoResult
             n == IF restore THEN [m EXCEPT !.restored = TRUE] ELSE m
             x == [q EXCEPT !.at = IF restore THEN "restoring" ELSE "checked"]
  <2>1. /\ mem' = [mem EXCEPT ![s] = n]
        /\ view' = [view EXCEPT ![v] = x]
        /\ UNCHANGED <<gen, stored, job>>
    BY <1>11 DEF Learn
  <2>2. /\ told \in Memory /\ told.value = mem[s].value
        /\ told.seen >= mem[s].seen /\ told.seen >= q.saw
    BY <1>1 DEF Memory
  <2> HIDE DEF told
  <2>3. m \in Memory /\ m.seen = told.seen /\ Sound(m.value)
    BY <1>1, <2>2, DroppedResult
  <2> HIDE DEF m
  <2>4. n \in Memory /\ n.seen = m.seen /\ n.value = m.value
    BY <2>3, Zenon DEF Memory
  <2> HIDE DEF n, restore
  <2>5. x \in Request /\ x.at # "served" /\ x.saw = q.saw /\ x.server = s /\ x.result = q.result
    BY <1>1 DEF Request
  <2> HIDE DEF x
  <2> QED
    BY <1>1, <1>8, <2>1, <2>2, <2>3, <2>4, <2>5, Zenon
<1>12. CASE ReadStored(v)
  <2> DEFINE x == [q EXCEPT !.at = "read", !.result = stored]
  <2>1. x \in Request /\ x.at # "served" /\ x.saw = q.saw /\ x.server = s /\ x.result = stored
    BY <1>1, Zenon DEF Request
  <2>2. view' = [view EXCEPT ![v] = x] /\ mem' = [mem EXCEPT ![s] = mem[s]]
    BY <1>1, <1>12, Zenon DEF ReadStored
  <2>3. q.at = "restoring" /\ UNCHANGED <<gen, stored, job>>
    BY <1>12, ZenonT(40) DEF ReadStored
  <2>4. q.saw <= mem[s].seen /\ mem[s].seen >= mem[s].seen
    BY <1>1, <1>3, <2>3
  <2> HIDE DEF x, q, s
  <2> QED
    BY <1>1, <1>8, <2>1, <2>2, <2>3, <2>4, Zenon
<1>13. CASE ReadStoredFails(v)
  <2> DEFINE x == [q EXCEPT !.at = "checked"]
  <2>1. x \in Request /\ x.at # "served" /\ x.saw = q.saw /\ x.server = s /\ x.result = q.result
    BY <1>1 DEF Request
  <2>2. view' = [view EXCEPT ![v] = x] /\ mem' = [mem EXCEPT ![s] = mem[s]]
    BY <1>1, <1>13 DEF ReadStoredFails
  <2>3. q.at = "restoring" /\ UNCHANGED <<gen, stored, job>>
    BY <1>13 DEF ReadStoredFails
  <2>4. q.saw <= mem[s].seen /\ mem[s].seen >= mem[s].seen
    BY <1>1, <1>3, <2>3
  <2> HIDE DEF x, q, s
  <2> QED
    BY <1>1, <1>8, <2>1, <2>2, <2>3, <2>4, Zenon
<1>14. CASE Adopt(v)
  <2> DEFINE adopts == /\ q.result # NoResult /\ mem[s].value = NoResult
                       /\ q.result.generation >= mem[s].seen
             m == IF adopts THEN [mem[s] EXCEPT !.value = q.result] ELSE mem[s]
             x == [q EXCEPT !.at = "checked", !.result = NoResult]
  <2>1. x \in Request /\ x.at # "served" /\ x.saw = q.saw /\ x.server = s /\ x.result = NoResult
    BY <1>1, NoResultSound, Zenon DEF Request
  <2>2. view' = [view EXCEPT ![v] = x] /\ mem' = [mem EXCEPT ![s] = m]
    BY <1>1, <1>14, Zenon DEF Adopt
  <2>3. m \in Memory /\ m.seen = mem[s].seen /\ Sound(m.value)
    BY <1>1 DEF Memory
  <2>4. q.at = "read" /\ UNCHANGED <<gen, stored, job>>
    BY <1>14, ZenonT(40) DEF Adopt
  <2>5. q.saw <= m.seen /\ m.seen >= mem[s].seen
    BY <1>1, <1>3, <2>3, <2>4
  <2> HIDE DEF x, m, q, s
  <2> QED
    BY <1>8, <2>1, <2>2, <2>3, <2>4, <2>5, NoResultSound, Zenon
<1>15. ASSUME NEW left \in Int, q.at \notin {"idle", "asked"},
              view' = [view EXCEPT ![v].at = "waiting", ![v].left = left],
              mem' = [mem EXCEPT ![s] = d],
              job' = Started(s),
              UNCHANGED <<gen, stored>>
       PROVE  ViewsIInv'
  <2> DEFINE x == [q EXCEPT !.at = "waiting", !.left = left]
  <2>1. x \in Request /\ x.at # "served" /\ x.saw = q.saw /\ x.server = s /\ x.result = q.result
    BY <1>1, <1>15, Zenon DEF Request
  <2>2. view' = [view EXCEPT ![v] = x]
    BY <1>15, Zenon
  <2>3. q.saw <= d.seen /\ d.seen >= mem[s].seen
    BY <1>1, <1>2, <1>3, <1>15
  <2> HIDE DEF x, q, s, d
  <2> QED
    BY <1>1, <1>2, <1>8, <1>15, <2>1, <2>2, <2>3, Zenon
<1>16. ASSUME NEW refresh \in BOOLEAN, NEW fresh \in BOOLEAN, AwaitFirst(v, refresh, fresh)
       PROVE  ViewsIInv'
  <2>1. /\ q.at = "checked" /\ mem' = [mem EXCEPT ![s] = d] /\ UNCHANGED <<gen, stored>>
        /\ \/ view' = [view EXCEPT ![v] = NoView(s)] /\ UNCHANGED job
           \/ /\ job' = Started(s)
              /\ view' = [view EXCEPT ![v].at = "waiting", ![v].left = MaxAttempts - 1]
    BY <1>16, ZenonT(40) DEF AwaitFirst
  <2>2. MaxAttempts - 1 \in Int /\ d.seen >= mem[s].seen
    BY <1>1, <1>2, ViewsAssumption
  <2> HIDE DEF q, s, d
  <2>3. /\ mem' \in [Servers -> Memory]
        /\ \A t \in Servers : mem'[t].seen >= mem[t].seen /\ Sound(mem'[t].value)
    BY <1>2, <1>4, <2>1, <2>2, Zenon
  <2>4. CASE view' = [view EXCEPT ![v] = NoView(s)] /\ UNCHANGED job
    BY <1>1, <1>5, <1>7, <2>1, <2>3, <2>4, Zenon
  <2> QED
    BY <1>15, <2>1, <2>2, <2>4 DEF q
<1>17. ASSUME NEW refresh \in BOOLEAN, ServeKept(v, refresh) PROVE ViewsIInv'
  BY <1>1, <1>17, ServedSound, Zenon DEF ServeKept
<1>18. CASE Warm(v)
  <2>1. view' = [view EXCEPT ![v] = NoView(s)] /\ job' = Started(s) /\ UNCHANGED <<gen, stored, mem>>
    BY <1>18 DEF Warm
  <2> HIDE DEF q, s
  <2> QED
    BY <1>1, <1>5, <1>6, <1>7, <2>1, Zenon
<1>19. CASE WaitOver(v)
  <2>1. CASE d.value = NoResult /\ q.left > 0
    <3>1. q.left - 1 \in Int
      BY <1>1
    <3>2. /\ q.at = "done" /\ mem' = [mem EXCEPT ![s] = d] /\ UNCHANGED <<gen, stored>>
          /\ job' = Started(s)
          /\ view' = [view EXCEPT ![v].at = "waiting", ![v].left = q.left - 1]
      BY <1>19, <2>1 DEF WaitOver
    <3> QED
      BY <1>15, <3>1, <3>2, Zenon
  <2>2. CASE ~(d.value = NoResult /\ q.left > 0)
    BY <1>19, <2>2, ServedSound, Zenon DEF WaitOver
  <2> QED
    BY <2>1, <2>2
<1>20. CASE WaitFailed(v)
  <2>1. view' = [view EXCEPT ![v] = NoView(s)] /\ UNCHANGED <<gen, stored, mem, job>>
    BY <1>20 DEF WaitFailed
  <2> HIDE DEF q, s
  <2> QED
    BY <1>1, <1>5, <1>6, <1>7, <2>1, Zenon
<1>21. CASE WaitTimesOut(v)
  BY <1>21, ServedSound, Zenon DEF WaitTimesOut
<1> QED
  BY <1>9, <1>10, <1>11, <1>12, <1>13, <1>14, <1>16, <1>17, <1>18, <1>19, <1>20, <1>21 DEF ViewStep

\* A delete, and a server that is replaced with the requests it had.
LEMMA ServerReplaced ==
    ASSUME ViewsIInv, DeleteUser \/ \E s \in Servers : Restart(s) PROVE ViewsIInv'
<1>1. CASE DeleteUser
  <2>1. gen' = gen + 1 /\ stored' = NoResult /\ UNCHANGED <<mem, job, view>>
    BY <1>1 DEF DeleteUser
  <2>2. \A s \in Servers : job[s].result.generation \in Nat
    BY ZenonT(40) DEF ViewsIInv, ViewsTypeOK, Computation, Result
  <2>3. \A s \in Servers : Sound(mem'[s].value) /\ Honest(job[s])'
    BY <2>1, <2>2 DEF ViewsIInv, ViewsTypeOK, ResultsSound, Honest, Sound
  <2> QED
    BY <2>1, <2>3, NoResultSound
       DEF ViewsIInv, ViewsTypeOK, ResultsSound, SeenByServer, NothingErasedServed, Sound
<1>2. ASSUME NEW s \in Servers, Restart(s) PROVE ViewsIInv'
  <2>1. /\ NoState \in Memory /\ NoState.value = NoResult
        /\ NoJob \in Computation /\ NoJob.at = "idle"
        /\ NoView(s) \in Request /\ NoView(s).at = "idle" /\ NoView(s).result = NoResult
    BY NoResultSound DEF NoState, NoJob, NoView, Memory, Computation, Request
  <2>2. /\ mem' = [mem EXCEPT ![s] = NoState]
        /\ job' = [job EXCEPT ![s] = NoJob]
        /\ view' = [v \in Viewers |-> IF view[v].server = s THEN NoView(s) ELSE view[v]]
        /\ UNCHANGED <<gen, stored>>
    BY <1>2 DEF Restart
  <2>3. ViewsTypeOK'
    BY <2>1, <2>2, ZenonT(40) DEF ViewsIInv, ViewsTypeOK
  <2>4. ResultsSound'
    BY <2>1, <2>2, NoResultSound DEF ViewsIInv, ViewsTypeOK, ResultsSound, Honest, Sound
  <2>5. SeenByServer'
    BY <2>1, <2>2 DEF ViewsIInv, ViewsTypeOK, SeenByServer, Request
  <2>6. NothingErasedServed'
    BY <2>1, <2>2 DEF ViewsIInv, NothingErasedServed
  <2> QED
    BY <2>3, <2>4, <2>5, <2>6 DEF ViewsIInv
<1> QED
  BY <1>1, <1>2, ZenonT(40)

\* "no request returns a result older than the generation it saw when it
\* began": get of _refreshing_cache.py serves nothing with rows of an account
\* whose hard delete the request saw, on any number of servers, with any
\* number of deletes, failed writes and restarts in between.
THEOREM ServedWithoutErased == ViewsSpec => []NothingErasedServed
<1>1. ViewsInit => ViewsIInv
  <2> SUFFICES ASSUME ViewsInit PROVE ViewsIInv
    OBVIOUS
  <2>1. PICK s \in Servers : view = [v \in Viewers |-> NoView(s)]
    BY DEF ViewsInit
  <2>2. /\ NoState \in Memory /\ NoState.value = NoResult
        /\ NoJob \in Computation /\ NoJob.at = "idle"
        /\ NoView(s) \in Request /\ NoView(s).at = "idle" /\ NoView(s).result = NoResult
    BY NoResultSound DEF NoState, NoJob, NoView, Memory, Computation, Request
  <2> QED
    BY <2>1, <2>2, NoResultSound
       DEF ViewsInit, ViewsIInv, ViewsTypeOK, ResultsSound, Honest, SeenByServer,
           NothingErasedServed
<1>2. ViewsIInv /\ [ViewsNext]_viewVars => ViewsIInv'
  <2>1. ViewsIInv /\ ViewsNext => ViewsIInv'
    BY ComputationKeeps, RequestKeeps, ServerReplaced, ZenonT(40) DEF ViewsNext
  <2>2. ViewsIInv /\ UNCHANGED viewVars => ViewsIInv'
    BY DEF viewVars, ViewsIInv, ViewsTypeOK, ResultsSound, Honest, Sound, SeenByServer,
           NothingErasedServed
  <2> QED
    BY <2>1, <2>2
<1>3. ViewsIInv => NothingErasedServed
  BY DEF ViewsIInv
<1> QED
  BY <1>1, <1>2, <1>3, PTL DEF ViewsSpec

-----------------------------------------------------------------------------
(* HedgedStream *)

\* What the proof needs to know of the shape of the request's state.
StreamShape(s) ==
    /\ {"at", "started", "stream", "freed", "cleanup", "toClose", "cut"} \subseteq DOMAIN s
    /\ s.started \in BOOLEAN /\ s.cut \in BOOLEAN
    /\ s.freed \in Nat
    /\ s.toClose \in Seq(Legs)

\* The capacity of a backup is held while its generator is open; a backup
\* that was never dispatched holds none; and while the request closes what
\* it opened, an open generator nobody else cleans up is still to be closed.
StreamInv(s) ==
    /\ StreamShape(s)
    /\ s.stream = "open" /\ ~s.cut => s.freed = 0
    /\ ~s.started => s.stream # "open" /\ s.freed = 0 /\ s.cleanup = "none"
    /\ s.at = "closing" /\ s.stream = "open" /\ s.cleanup = "none" /\ ~s.cut
          => s.toClose \in {<<"backup">>, <<"primary", "backup">>}

\* A part of a round that leaves the backup and its capacity alone.
SameBackup(s, t) ==
    /\ StreamShape(t)
    /\ t.at = s.at /\ t.started = s.started /\ t.stream = s.stream
    /\ t.freed = s.freed /\ t.cut = s.cut /\ t.cleanup = s.cleanup

\* A part that dispatches the backup.
Opened(s, t) ==
    /\ StreamShape(t)
    /\ ~s.started /\ t.started /\ t.stream = "open"
    /\ t.at = s.at /\ t.freed = s.freed /\ t.cut = s.cut /\ t.cleanup = s.cleanup

\* The records, the timers and the primary's part of a round leave the backup
\* alone.
LEMMA RoundParts ==
    ASSUME NEW s, StreamShape(s), NEW l \in Legs
    PROVE  /\ SameBackup(s, CountFailure(s, l)) /\ SameBackup(s, CountSuccess(s, l))
           /\ SameBackup(s, NextCheckpoint(s)) /\ SameBackup(s, AfterPrimary(s))
           /\ SameBackup(s, PullOn(s))
           /\ Opened(s, StartStreamBackup(s)) \/ s.started
<1>1. SameBackup(s, CountFailure(s, l)) /\ SameBackup(s, CountSuccess(s, l))
  BY DEF SameBackup, StreamShape, CountFailure, CountSuccess
<1>2. SameBackup(s, NextCheckpoint(s))
  BY DEF SameBackup, StreamShape, NextCheckpoint
<1>3. SameBackup(s, AfterPrimary(s))
  BY DEF SameBackup, StreamShape, AfterPrimary
<1>4. SameBackup(s, PullOn(s))
  BY DEF SameBackup, StreamShape, PullOn
<1>5. Opened(s, StartStreamBackup(s)) \/ s.started
  BY DEF Opened, StreamShape, StartStreamBackup
<1> QED
  BY <1>1, <1>2, <1>3, <1>4, <1>5

\* Two parts in a row that leave the backup alone.
LEMMA SameSame ==
    ASSUME NEW s, NEW t, NEW u, SameBackup(s, t), SameBackup(t, u)
    PROVE  SameBackup(s, u)
BY DEF SameBackup

\* The hedge timer's part of a round leaves the backup alone or dispatches it.
LEMMA TimerPart ==
    ASSUME NEW s, StreamShape(s), NEW there \in BOOLEAN
    PROVE  SameBackup(s, AfterTimer(s, there)) \/ Opened(s, AfterTimer(s, there))
<1> DEFINE t == [s EXCEPT !.timer = "none"]
<1>1. SameBackup(s, t) /\ StreamShape(t)
  BY DEF SameBackup, StreamShape
<1>2. SameBackup(s, s)
  BY DEF SameBackup
<1>3. \/ AfterTimer(s, there) = s
      \/ AfterTimer(s, there) = t
      \/ AfterTimer(s, there) = StartStreamBackup(t) /\ ~s.started
      \/ AfterTimer(s, there) = NextCheckpoint(s)
  BY ZenonT(40) DEF AfterTimer
<1> HIDE DEF t
<1>4. ~s.started => Opened(s, StartStreamBackup(t))
  BY <1>1, RoundParts DEF SameBackup, Opened, Legs
<1> QED
  BY <1>1, <1>2, <1>3, <1>4, RoundParts DEF Legs

\* So does a primary's error.
LEMMA ErrorPart ==
    ASSUME NEW s, StreamShape(s), NEW there \in BOOLEAN
    PROVE  SameBackup(s, AfterPrimaryError(s, there)) \/ Opened(s, AfterPrimaryError(s, there))
<1> DEFINE r == [s EXCEPT !.ended = TRUE, !.failed = TRUE, !.pull["primary"] = "none"]
           t == CountFailure(r, "primary")
           u == [t EXCEPT !.timer = "none"]
<1>1. SameBackup(s, r) /\ StreamShape(r)
  BY DEF SameBackup, StreamShape
<1>2. \/ AfterPrimaryError(s, there) = t
      \/ AfterPrimaryError(s, there) = StartStreamBackup(u) /\ ~t.started
      \/ AfterPrimaryError(s, there) = u
  BY ZenonT(40) DEF AfterPrimaryError
<1> HIDE DEF r
<1>3. SameBackup(r, t) /\ StreamShape(t)
  BY <1>1, RoundParts DEF SameBackup, Legs
<1> HIDE DEF t
<1>4. SameBackup(t, u) /\ StreamShape(u)
  BY <1>3 DEF SameBackup, StreamShape
<1> HIDE DEF u
<1>5. SameBackup(s, t) /\ SameBackup(s, u)
  BY <1>1, <1>3, <1>4, SameSame, ZenonT(40)
<1>6. ~t.started => Opened(s, StartStreamBackup(u))
  BY <1>4, <1>5, RoundParts, ZenonT(40) DEF SameBackup, Opened, Legs
<1> QED
  BY <1>2, <1>5, <1>6

\* What a decided round, or a race that raises, is for the invariant.
LEMMA Elsewhere ==
    ASSUME NEW s, StreamInv(s), NEW t, StreamShape(t), t.at # "closing",
           t.started = s.started, t.stream = s.stream, t.freed = s.freed, t.cut = s.cut,
           t.cleanup = s.cleanup \/ t.started
    PROVE  StreamInv(t)
BY DEF StreamInv

\* A backup that is dispatched held nothing before.
LEMMA OpenedKeeps ==
    ASSUME NEW s, StreamInv(s), s.at # "closing", NEW t, Opened(s, t)
    PROVE  StreamInv(t) /\ t.at = s.at
BY DEF StreamInv, Opened

\* The end of a round decides nothing about the backup's capacity.
LEMMA DecideKeeps ==
    ASSUME NEW s, StreamInv(s), s.at # "closing"
    PROVE  StreamInv(Decide(s)) /\ StreamInv(Raise(s))
<1>1. ASSUME NEW t, StreamInv(t) PROVE StreamInv(Raise(t))
  <2>1. /\ StreamShape(Raise(t)) /\ Raise(t).at = "unwinding" /\ Raise(t).started = t.started
        /\ Raise(t).stream = t.stream /\ Raise(t).freed = t.freed /\ Raise(t).cut = t.cut
        /\ Raise(t).cleanup = t.cleanup
    BY <1>1 DEF StreamInv, StreamShape, Raise
  <2> QED
    BY <1>1, <2>1, Elsewhere
<1>2. ASSUME NEW l \in Legs PROVE StreamInv(Win(s, l))
  <2> DEFINE r == [s EXCEPT !.at = "streaming", !.winner = l, !.timer = "none",
                            !.deadline = "none", !.pull = [x \in Legs |-> "none"]]
             t == CountSuccess(r, l)
             u == [t EXCEPT !.cleanup = "scheduled"]
  <2>1. /\ StreamShape(r) /\ r.at = "streaming" /\ r.started = s.started
        /\ r.stream = s.stream /\ r.freed = s.freed /\ r.cut = s.cut /\ r.cleanup = s.cleanup
    BY DEF StreamInv, StreamShape
  <2>2. Win(s, l) = t \/ (Win(s, l) = u /\ t.started)
    BY ZenonT(40) DEF Win
  <2> HIDE DEF r
  <2>3. SameBackup(r, t)
    BY <2>1, RoundParts
  <2> HIDE DEF t
  <2>4. /\ StreamShape(u) /\ u.at = t.at /\ u.started = t.started
        /\ u.stream = t.stream /\ u.freed = t.freed /\ u.cut = t.cut
    BY <2>3 DEF SameBackup, StreamShape
  <2> HIDE DEF u
  <2> QED
    BY <2>1, <2>2, <2>3, <2>4, Elsewhere DEF SameBackup
<1>3. StreamInv(Blame(s))
  <2> DEFINE t == IF s.ended THEN s ELSE CountFailure(s, "primary")
  <2>1. SameBackup(s, t)
    BY RoundParts, ZenonT(40) DEF SameBackup, Legs, StreamInv
  <2>2. Blame(s) = t \/ Blame(s) = CountFailure(t, "backup")
    BY ZenonT(40) DEF Blame
  <2> HIDE DEF t
  <2>3. SameBackup(t, CountFailure(t, "backup"))
    BY <2>1, RoundParts, ZenonT(40) DEF SameBackup, Legs
  <2> QED
    BY <2>1, <2>2, <2>3, Elsewhere, ZenonT(40) DEF SameBackup
<1>4. StreamInv(PullOn([s EXCEPT !.at = "racing"]))
  <2> DEFINE r == [s EXCEPT !.at = "racing"]
  <2>1. /\ StreamShape(r) /\ r.at = "racing" /\ r.started = s.started
        /\ r.stream = s.stream /\ r.freed = s.freed /\ r.cut = s.cut /\ r.cleanup = s.cleanup
    BY DEF StreamInv, StreamShape
  <2> HIDE DEF r
  <2>2. SameBackup(r, PullOn(r))
    BY <2>1, RoundParts, ZenonT(40) DEF Legs
  <2>3. StreamInv(PullOn(r))
    BY <2>1, <2>2, Elsewhere, ZenonT(40) DEF SameBackup
  <2> QED
    BY <2>3 DEF r
<1> QED
  BY <1>1, <1>2, <1>3, <1>4 DEF Decide, Legs

\* _finish_stream_backup is called only when the generator is not open; it
\* changes nothing else.
LEMMA FinishKeeps ==
    ASSUME NEW s, StreamInv(s), s.stream # "open" \/ s.cut
    PROVE  /\ StreamInv(FinishStreamBackup(s))
           /\ FinishStreamBackup(s).at = s.at
           /\ FinishStreamBackup(s).stream = s.stream
           /\ FinishStreamBackup(s).started = s.started
           /\ FinishStreamBackup(s).cut = s.cut
<1> DEFINE t == [s EXCEPT !.freed = @ + 1]
<1>1. FinishStreamBackup(s) = s \/ (FinishStreamBackup(s) = t /\ s.started)
  BY DEF FinishStreamBackup, StreamInv, StreamShape
<1>2. /\ StreamShape(t) /\ t.at = s.at /\ t.stream = s.stream /\ t.started = s.started
      /\ t.cut = s.cut /\ t.cleanup = s.cleanup
  BY DEF StreamInv, StreamShape
<1> HIDE DEF t
<1> QED
  BY <1>1, <1>2 DEF StreamInv

\* Closing the backup's generator keeps the invariant.
LEMMA ClosedKeeps ==
    ASSUME NEW s, StreamInv(s)
    PROVE  LET t == [s EXCEPT !.stream = "closed"]
           IN  StreamInv(t) /\ t.at = s.at /\ t.started = s.started /\ t.stream = "closed"
<1> DEFINE t == [s EXCEPT !.stream = "closed"]
<1>1. /\ StreamShape(t) /\ t.at = s.at /\ t.started = s.started /\ t.stream = "closed"
      /\ t.freed = s.freed /\ t.cleanup = s.cleanup
  BY DEF StreamInv, StreamShape
<1> HIDE DEF t
<1>2. StreamInv(t)
  BY <1>1 DEF StreamInv
<1> QED
  BY <1>1, <1>2 DEF t

\* What the request is to close includes an open backup nobody cleans up.
LEMMA ToClosingKeeps ==
    ASSUME NEW s, StreamInv(s) PROVE StreamInv(ToClosing(s))
<1> DEFINE c == IF s.started /\ s.cleanup = "none" THEN <<"primary", "backup">> ELSE <<"primary">>
           t == [s EXCEPT !.at = "closing", !.pull = [l \in Legs |-> "none"], !.timer = "none",
                          !.deadline = "none", !.toClose = c]
<1>1. c \in Seq(Legs)
  <2>1. <<"primary", "backup">> \in Seq(Legs) /\ <<"primary">> \in Seq(Legs)
    BY DEF Legs
  <2> QED
    BY <2>1
<1>2. ToClosing(s) = t
  BY DEF ToClosing
<1> HIDE DEF c
<1>3. /\ StreamShape(t) /\ t.started = s.started /\ t.stream = s.stream /\ t.freed = s.freed
      /\ t.cut = s.cut /\ t.cleanup = s.cleanup /\ t.toClose = c
  BY <1>1 DEF StreamInv, StreamShape
<1> HIDE DEF t
<1>4. s.stream = "open" /\ s.cleanup = "none" => c = <<"primary", "backup">>
  BY DEF c, StreamInv
<1>5. StreamInv(t)
  BY <1>3, <1>4 DEF StreamInv
<1> QED
  BY <1>2, <1>5

\* A round of the race.
LEMMA RoundKeeps == ASSUME StreamInv(hs), Round PROVE StreamInv(hs')
<1>1. PICK atTimer \in BOOLEAN, atError \in BOOLEAN :
         LET s == AfterTimer([hs EXCEPT !.late = hs.deadline = "fired"], atTimer)
         IN  hs' = CASE s.pull["primary"] = "error" -> AfterPrimaryError(s, atError)
                     [] s.pull["primary"] # "error" /\ s.pull["backup"] \in {"end", "error"} ->
                           [AfterPrimary(s) EXCEPT !.at = "settling"]
                     [] OTHER -> Decide(AfterPrimary(s))
  BY DEF Round
<1> DEFINE r == [hs EXCEPT !.late = hs.deadline = "fired"]
           s == AfterTimer(r, atTimer)
           t == AfterPrimary(s)
           u == [t EXCEPT !.at = "settling"]
<1>2. \/ hs' = AfterPrimaryError(s, atError)
      \/ hs' = u
      \/ hs' = Decide(t)
  BY <1>1
<1>3. SameBackup(hs, r) /\ hs.at = "racing"
  BY DEF SameBackup, StreamInv, StreamShape, Round, RoundReady
<1> HIDE DEF r
<1>4. StreamInv(r) /\ r.at = "racing"
  BY <1>3, Elsewhere, ZenonT(40) DEF SameBackup
<1>5. SameBackup(r, s) \/ Opened(r, s)
  BY <1>4, TimerPart DEF StreamInv
<1> HIDE DEF s
<1>6. StreamInv(s) /\ s.at = "racing"
  BY <1>4, <1>5, Elsewhere, OpenedKeeps, ZenonT(40) DEF SameBackup
<1>7. SameBackup(s, t)
  BY <1>6, RoundParts, ZenonT(40) DEF StreamInv, Legs
<1>8. StreamInv(t) /\ t.at = "racing"
  BY <1>6, <1>7, Elsewhere DEF SameBackup
<1> HIDE DEF t
<1>9. StreamInv(AfterPrimaryError(s, atError))
  <2>1. SameBackup(s, AfterPrimaryError(s, atError)) \/ Opened(s, AfterPrimaryError(s, atError))
    BY <1>6, ErrorPart DEF StreamInv
  <2> QED
    BY <1>6, <2>1, Elsewhere, OpenedKeeps, ZenonT(40) DEF SameBackup
<1>10. StreamInv(u)
  <2>1. /\ StreamShape(u) /\ u.at = "settling" /\ u.started = t.started
        /\ u.stream = t.stream /\ u.freed = t.freed /\ u.cut = t.cut /\ u.cleanup = t.cleanup
    BY <1>8 DEF StreamInv, StreamShape
  <2> QED
    BY <1>8, <2>1, Elsewhere, Zenon
<1>11. StreamInv(Decide(t))
  BY <1>8, DecideKeeps
<1> QED
  BY <1>2, <1>9, <1>10, <1>11

\* The other steps of the request's task before it closes anything.
LEMMA RaceKeeps ==
    ASSUME StreamInv(hs), SettleBackup \/ Exhausted \/ Unwind \/ StreamEnds \/ CancelRace
    PROVE  StreamInv(hs')
<1> DEFINE c == [hs EXCEPT !.stream = "closed"]
           f == FinishStreamBackup(c)
<1>1. StreamInv(c) /\ c.at = hs.at /\ c.stream = "closed"
  BY ClosedKeeps
<1> HIDE DEF c
<1>2. StreamInv(f) /\ f.at = hs.at /\ f.stream = "closed"
  BY <1>1, FinishKeeps
<1> HIDE DEF f
<1>3. CASE SettleBackup
  <2> DEFINE t == IF f.pull["backup"] = "error" THEN CountFailure(f, "backup") ELSE f
             u == [t EXCEPT !.pull["backup"] = "none"]
  <2>1. hs' = Decide(u) /\ hs.at = "settling"
    BY <1>3, ZenonT(40) DEF SettleBackup, f, c
  <2>2. SameBackup(f, t)
    BY <1>2, RoundParts, ZenonT(40) DEF SameBackup, StreamInv, Legs
  <2> HIDE DEF t
  <2>3. SameBackup(t, u)
    BY <2>2 DEF SameBackup, StreamShape
  <2> HIDE DEF u
  <2>4. StreamInv(u) /\ u.at = "settling"
    BY <1>2, <2>1, <2>2, <2>3, Elsewhere DEF SameBackup
  <2> QED
    BY <2>1, <2>4, DecideKeeps
<1>4. CASE Exhausted
  <2> DEFINE r == [hs EXCEPT !.at = "streaming", !.winner = "primary", !.deadline = "none"]
  <2>1. hs.at = "racing" /\ (hs' = Raise(hs) \/ hs' = CountSuccess(r, "primary"))
    BY <1>4 DEF Exhausted
  <2>2. /\ StreamShape(r) /\ r.at = "streaming" /\ r.started = hs.started
        /\ r.stream = hs.stream /\ r.freed = hs.freed /\ r.cut = hs.cut /\ r.cleanup = hs.cleanup
    BY ZenonT(40) DEF StreamInv, StreamShape
  <2> HIDE DEF r
  <2>3. SameBackup(r, CountSuccess(r, "primary"))
    BY <2>2, RoundParts DEF Legs
  <2>4. StreamInv(CountSuccess(r, "primary"))
    BY <2>2, <2>3, Elsewhere DEF SameBackup
  <2> QED
    BY <2>1, <2>4, DecideKeeps
<1>5. CASE Unwind
  <2>1. CASE hs.stream = "open"
    <3>1. hs' = ToClosing(f)
      BY <1>5, <2>1 DEF Unwind, f, c
    <3> QED
      BY <1>2, <3>1, ToClosingKeeps
  <2>2. CASE hs.stream # "open"
    <3>1. hs' = ToClosing(FinishStreamBackup(hs))
      BY <1>5, <2>2 DEF Unwind
    <3> QED
      BY <2>2, <3>1, FinishKeeps, ToClosingKeeps
  <2> QED
    BY <2>1, <2>2
<1>6. CASE StreamEnds
  BY <1>6, ToClosingKeeps DEF StreamEnds
<1>7. CASE CancelRace
  <2>1. hs' = Raise(f) \/ hs' = Raise(hs)
    BY <1>7 DEF CancelRace, f, c
  <2>2. hs.at \in {"racing", "settling"}
    BY <1>7 DEF CancelRace
  <2> QED
    BY <1>2, <2>1, <2>2, DecideKeeps
<1> QED
  BY <1>3, <1>4, <1>5, <1>6, <1>7

\* The finally block and the cleanup task.
LEMMA CleanupKeeps ==
    ASSUME StreamInv(hs),
           \/ \E cut \in BOOLEAN : CloseNext(cut)
           \/ EndRequest \/ BeginCleanup \/ FinishCleanup \/ CollectGenerator
    PROVE  StreamInv(hs')
<1>1. ASSUME NEW cut \in BOOLEAN, CloseNext(cut) PROVE StreamInv(hs')
  <2> DEFINE head == Head(hs.toClose)
             rest == IF cut THEN <<>> ELSE Tail(hs.toClose)
             str == IF head = "backup" THEN "closed" ELSE hs.stream
             c == hs.cut \/ cut
             t == [hs EXCEPT !.stream = str, !.toClose = rest, !.cut = c]
  <2>1. hs' = t /\ hs.at = "closing" /\ hs.toClose # <<>>
    BY <1>1, Zenon DEF CloseNext
  <2>2. rest \in Seq(Legs) /\ c \in BOOLEAN
    BY <2>1 DEF StreamInv, StreamShape
  <2>3. hs.toClose = <<"backup">> => head = "backup"
    OBVIOUS
  <2>4. hs.toClose = <<"primary", "backup">> /\ ~cut => rest = <<"backup">>
    OBVIOUS
  <2>5. str = "open" => hs.stream = "open" /\ head # "backup"
    OBVIOUS
  <2>6. c <=> hs.cut \/ cut
    OBVIOUS
  <2> HIDE DEF head, rest, str, c
  <2>7. /\ StreamShape(t) /\ t.at = hs.at /\ t.started = hs.started /\ t.freed = hs.freed
        /\ t.cleanup = hs.cleanup /\ t.stream = str /\ t.toClose = rest /\ t.cut = c
    BY <2>2 DEF StreamInv, StreamShape
  <2> HIDE DEF t
  <2> QED
    BY <2>1, <2>3, <2>4, <2>5, <2>6, <2>7 DEF StreamInv
<1>2. CASE EndRequest
  <2> DEFINE f == FinishStreamBackup(hs)
             t == [f EXCEPT !.at = "over"]
  <2>1. hs.at = "closing" /\ hs.toClose = <<>> /\ hs' = t
    BY <1>2 DEF EndRequest
  <2>2. StreamInv(f)
    <3>1. CASE hs.stream # "open" \/ hs.cut
      BY <3>1, FinishKeeps
    <3>2. CASE ~(hs.stream # "open" \/ hs.cut)
      <4>1. hs.cleanup # "none"
        <5>1. hs.toClose \notin {<<"backup">>, <<"primary", "backup">>}
          BY <2>1
        <5> QED
          BY <2>1, <3>2, <5>1 DEF StreamInv
      <4> QED
        BY <4>1 DEF FinishStreamBackup
    <3> QED
      BY <3>1, <3>2
  <2> HIDE DEF f
  <2>3. /\ StreamShape(t) /\ t.at = "over" /\ t.started = f.started
        /\ t.stream = f.stream /\ t.freed = f.freed /\ t.cut = f.cut /\ t.cleanup = f.cleanup
    BY <2>2 DEF StreamInv, StreamShape
  <2> QED
    BY <2>1, <2>2, <2>3, Elsewhere, Zenon
<1>3. CASE BeginCleanup
  <2> DEFINE t == [hs EXCEPT !.cleanup = "closing"]
  <2>1. hs' = t
    BY <1>3 DEF BeginCleanup
  <2>2. /\ StreamShape(t) /\ t.at = hs.at /\ t.started = hs.started /\ t.stream = hs.stream
        /\ t.freed = hs.freed /\ t.cut = hs.cut /\ t.cleanup = "closing"
    BY DEF StreamInv, StreamShape
  <2>3. hs.cleanup = "scheduled"
    BY <1>3 DEF BeginCleanup
  <2> HIDE DEF t
  <2> QED
    BY <2>1, <2>2, <2>3 DEF StreamInv
<1>4. CASE FinishCleanup
  <2> DEFINE t == [hs EXCEPT !.cleanup = "done", !.stream = "closed", !.freed = @ + 1]
  <2>1. hs' = t
    BY <1>4 DEF FinishCleanup
  <2>2. StreamShape(t) /\ t.stream = "closed" /\ t.started = hs.started
    BY DEF StreamInv, StreamShape
  <2>3. hs.cleanup = "closing"
    BY <1>4 DEF FinishCleanup
  <2> HIDE DEF t
  <2> QED
    BY <2>1, <2>2, <2>3 DEF StreamInv
<1>5. CASE CollectGenerator
  BY <1>5, ClosedKeeps DEF CollectGenerator
<1> QED
  BY <1>1, <1>2, <1>3, <1>4, <1>5, ZenonT(40)

\* "Provider capacity remains held until the generator/task has actually
\* stopped": in every order of the race's events, its cancellations and the
\* cleanup task, the capacity of a hedged stream's backup is not released
\* while its generator is open, but for a caller who leaves while the
\* generators are being closed.
THEOREM CapacityHeld == HedgedStreamSpec => []CapacityHeldWhileOpen
<1>1. HedgedStreamInit => StreamInv(hs)
  BY DEF HedgedStreamInit, StreamInv, StreamShape
<1>2. StreamInv(hs) /\ [HedgedStreamNext]_hs => StreamInv(hs)'
  <2> SUFFICES ASSUME StreamInv(hs), [HedgedStreamNext]_hs PROVE StreamInv(hs')
    OBVIOUS
  <2>1. ASSUME NEW l \in Legs, NEW r \in Results, LegYields(l, r) PROVE StreamInv(hs')
    <3>1. SameBackup(hs, hs') /\ hs.at # "closing"
      BY <2>1 DEF LegYields, Racing, SameBackup, StreamInv, StreamShape
    <3> QED
      BY <3>1, Elsewhere DEF SameBackup
  <2>2. CASE TimerFires \/ DeadlineFires
    <3>1. SameBackup(hs, hs') /\ hs.at # "closing"
      BY <2>2 DEF TimerFires, DeadlineFires, Racing, SameBackup, StreamInv, StreamShape
    <3> QED
      BY <3>1, Elsewhere DEF SameBackup
  <2>3. CASE CloseNext(FALSE) \/ CloseNext(TRUE)
    <3>1. \E cut \in BOOLEAN : CloseNext(cut)
      BY <2>3, Zenon
    <3> QED
      BY <3>1, CleanupKeeps
  <2> QED
    BY <2>1, <2>2, <2>3, RoundKeeps, RaceKeeps, CleanupKeeps, ZenonT(40)
       DEF HedgedStreamNext, HedgedStreamTask
<1>3. StreamInv(hs) => CapacityHeldWhileOpen
  BY DEF StreamInv, CapacityHeldWhileOpen
<1> QED
  BY <1>1, <1>2, <1>3, PTL DEF HedgedStreamSpec

-----------------------------------------------------------------------------
(* HedgedCall *)

\* What the proof needs to know of the shape of the request's state.
CallShape(s) ==
    /\ {"at", "task", "pending", "todo", "sent", "freed"} \subseteq DOMAIN s
    /\ s.task \in [Calls -> {"calling", "asleep", "starting"} \cup CallEnded]
    /\ s.pending \subseteq Calls
    /\ s.sent \in Nat /\ s.freed \in Nat

\* The backup's capacity is held exactly while it calls its provider.
CapacityCounted(s) ==
    IF s.task["backup"] = "calling" THEN s.freed + 1 = s.sent ELSE s.freed = s.sent

\* Before there is a winner, a task the request no longer waits for has ended.
NotAwaited(s) ==
    s.at \in {"waiting", "looking", "relaunching"} =>
        \A l \in Calls \ s.pending : s.task[l] \in CallEnded

CallInv(s) ==
    /\ CallShape(s)
    /\ CapacityCounted(s)
    /\ NotAwaited(s)
    /\ s.at = "relaunching" => s.task["backup"] = "cancelled"
    /\ s.at \in CallOver => \A l \in Calls : s.task[l] \in CallEnded

\* The tasks ls of the request have ended in s, and the others are as they were;
\* what a cancelled backup held is released.
Stopped(s, ls) ==
    /\ CallShape(s) /\ CapacityCounted(s)
    /\ \A l \in Calls : IF l \in ls THEN s.task[l] \in CallEnded ELSE s.task[l] = hc.task[l]

\* Cancelling stops the tasks it is for.
LEMMA CancelledEnds ==
    ASSUME CallInv(hc), NEW ls \in SUBSET Calls
    PROVE  Stopped(Cancelled(hc, ls), ls)
<1> DEFINE tk == [l \in Calls |-> IF l \in ls /\ hc.task[l] \notin CallEnded THEN "cancelled"
                                                                           ELSE hc.task[l]]
           fr == IF "backup" \in ls /\ hc.task["backup"] = "calling" THEN hc.freed + 1 ELSE hc.freed
           s  == Cancelled(hc, ls)
<1>1. s = [hc EXCEPT !.task = tk, !.freed = fr]
  BY ZenonT(40) DEF Cancelled
<1> HIDE DEF s
<1>2. /\ tk \in [Calls -> {"calling", "asleep", "starting"} \cup CallEnded]
      /\ \A l \in Calls : IF l \in ls THEN tk[l] \in CallEnded ELSE tk[l] = hc.task[l]
  BY DEF CallInv, CallShape, CallEnded
<1>3. /\ fr \in Nat
      /\ IF tk["backup"] = "calling" THEN fr + 1 = hc.sent ELSE fr = hc.sent
  BY DEF CallInv, CallShape, CapacityCounted, CallEnded, Calls
<1> HIDE DEF tk, fr
<1>4. CallShape(s) /\ s.task = tk /\ s.freed = fr /\ s.sent = hc.sent
  BY <1>1, <1>2, <1>3 DEF CallInv, CallShape
<1>5. Stopped(s, ls)
  BY <1>2, <1>3, <1>4 DEF CapacityCounted, Stopped
<1> QED
  BY <1>5, Zenon DEF s

\* A step of a task while the request awaits something.
LEMMA TaskKeeps ==
    ASSUME CallInv(hc),
           \/ \E l \in Calls, r \in {"ok", "failed"} : CallEnds(l, r)
           \/ CallCheckpoint \/ CheckpointsOver \/ BackupNow
    PROVE  CallInv(hc')
<1>1. ASSUME NEW l \in Calls, NEW r \in {"ok", "failed"}, CallEnds(l, r) PROVE CallInv(hc')
  <2>1. /\ hc'.at = hc.at /\ hc'.pending = hc.pending /\ hc'.sent = hc.sent
        /\ hc'.task = [hc.task EXCEPT ![l] = r]
        /\ hc'.freed = IF l = "backup" THEN hc.freed + 1 ELSE hc.freed
        /\ DOMAIN hc' = DOMAIN hc
    BY <1>1, Zenon DEF CallEnds, CallInv, CallShape
  <2>2. hc.at \notin CallOver /\ hc.task[l] = "calling"
    BY <1>1, Zenon DEF CallEnds, OthersRun
  <2>3. CallShape(hc')
    BY <2>1 DEF CallInv, CallShape, CallEnded
  <2> QED
    BY <2>1, <2>2, <2>3 DEF CallInv, CallShape, CapacityCounted, NotAwaited, CallEnded, Calls
<1>2. ASSUME hc' = Dispatched, OthersRun, hc.task["backup"] \in {"asleep", "starting"}
      PROVE  CallInv(hc')
  <2>1. /\ hc'.at = hc.at /\ hc'.pending = hc.pending /\ hc'.freed = hc.freed
        /\ hc'.task = [hc.task EXCEPT !["backup"] = "calling"]
        /\ hc'.sent = hc.sent + 1
        /\ DOMAIN hc' = DOMAIN hc
    BY <1>2, ZenonT(40) DEF Dispatched, CallInv, CallShape
  <2>2. CallShape(hc')
    <3>1. hc'.task \in [Calls -> {"calling", "asleep", "starting"} \cup CallEnded]
      BY <2>1, Zenon DEF CallInv, CallShape
    <3>2. hc'.sent \in Nat
      BY <2>1 DEF CallInv, CallShape
    <3> QED
      BY <2>1, <3>1, <3>2 DEF CallInv, CallShape
  <2> QED
    BY <1>2, <2>1, <2>2
       DEF CallInv, CallShape, CapacityCounted, NotAwaited, CallEnded, Calls, OthersRun
<1>3. ASSUME hc' = [hc EXCEPT !.task["backup"] = "unavailable"], OthersRun,
             hc.task["backup"] \in {"asleep", "starting"}
      PROVE  CallInv(hc')
  <2>1. /\ hc'.at = hc.at /\ hc'.pending = hc.pending /\ hc'.freed = hc.freed
        /\ hc'.task = [hc.task EXCEPT !["backup"] = "unavailable"]
        /\ hc'.sent = hc.sent
        /\ DOMAIN hc' = DOMAIN hc
    BY <1>3 DEF CallInv, CallShape
  <2>2. CallShape(hc')
    BY <2>1, ZenonT(40) DEF CallInv, CallShape, CallEnded
  <2> QED
    BY <1>3, <2>1, <2>2
       DEF CallInv, CallShape, CapacityCounted, NotAwaited, CallEnded, Calls, OthersRun
<1>4. ASSUME hc' = [hc EXCEPT !.left = @ - 1] PROVE CallInv(hc')
  BY <1>4 DEF CallInv, CallShape, CapacityCounted, NotAwaited
<1> QED
  BY <1>1, <1>2, <1>3, <1>4, ZenonT(40) DEF CallCheckpoint, CheckpointsOver, BackupNow

\* What the request itself does: it looks at the tasks that ended, launches
\* the backup anew, and ends.
LEMMA CallerKeeps ==
    ASSUME CallInv(hc),
           \/ WaitReturns \/ PrimaryFailed \/ Relaunch \/ BackupFailed
           \/ \E l \in Calls : CallWins(l)
           \/ ReturnResult \/ LookedAll \/ CancelCall
    PROVE  CallInv(hc')
<1> USE DEF CallInv, CallShape, CapacityCounted, NotAwaited
<1>1. CASE WaitReturns
  <2> DEFINE done == {l \in hc.pending : hc.task[l] \in CallEnded}
  <2>1. /\ hc'.at = "looking" /\ hc'.pending = hc.pending \ done /\ hc'.task = hc.task
        /\ hc'.sent = hc.sent /\ hc'.freed = hc.freed /\ DOMAIN hc' = DOMAIN hc
        /\ hc.at = "waiting"
    BY <1>1 DEF WaitReturns
  <2> QED
    BY <2>1 DEF CallOver
<1>2. CASE PrimaryFailed
  <2> DEFINE s == [hc EXCEPT !.todo = @ \ {"primary"}, !.bad["primary"] = @ + 1]
  <2>1. /\ s.at = hc.at /\ s.pending = hc.pending /\ s.task = hc.task
        /\ s.sent = hc.sent /\ s.freed = hc.freed /\ DOMAIN s = DOMAIN hc
        /\ hc.at = "looking"
    BY <1>2 DEF PrimaryFailed
  <2>2. \/ hc' = s
        \/ /\ hc.sent = 0 /\ "backup" \in hc.pending
           /\ hc' = [s EXCEPT !.at = "relaunching", !.pending = @ \ {"backup"},
                              !.task["backup"] = "cancelled"]
        \/ /\ hc.sent = 0 /\ "backup" \notin hc.pending
           /\ hc' = [s EXCEPT !.task["backup"] = "starting", !.pending = @ \cup {"backup"},
                              !.todo = @ \ {"backup"}]
    BY <1>2, ZenonT(40) DEF PrimaryFailed, RelaunchWanted
  <2> HIDE DEF s
  <2>3. CASE hc' = s
    BY <2>1, <2>3 DEF CallOver
  <2>4. CASE /\ hc.sent = 0
             /\ hc' = [s EXCEPT !.at = "relaunching", !.pending = @ \ {"backup"},
                                !.task["backup"] = "cancelled"]
    <3>1. /\ hc'.at = "relaunching" /\ hc'.pending = hc.pending \ {"backup"}
          /\ hc'.task = [hc.task EXCEPT !["backup"] = "cancelled"]
          /\ hc'.sent = hc.sent /\ hc'.freed = hc.freed /\ DOMAIN hc' = DOMAIN hc
      BY <2>1, <2>4
    <3> QED
      BY <2>1, <2>4, <3>1 DEF CallOver, CallEnded, Calls
  <2>5. CASE /\ "backup" \notin hc.pending
             /\ hc' = [s EXCEPT !.task["backup"] = "starting", !.pending = @ \cup {"backup"},
                                !.todo = @ \ {"backup"}]
    <3>1. /\ hc'.at = "looking" /\ hc'.pending = hc.pending \cup {"backup"}
          /\ hc'.task = [hc.task EXCEPT !["backup"] = "starting"]
          /\ hc'.sent = hc.sent /\ hc'.freed = hc.freed /\ DOMAIN hc' = DOMAIN hc
      BY <2>1, <2>5, ZenonT(40)
    <3> QED
      BY <2>1, <2>5, <3>1 DEF CallOver, CallEnded, Calls
  <2> QED
    BY <2>2, <2>3, <2>4, <2>5
<1>3. CASE Relaunch
  <2>1. /\ hc'.at = "looking" /\ hc'.pending = hc.pending \cup {"backup"}
        /\ hc'.task = [hc.task EXCEPT !["backup"] = "starting"]
        /\ hc'.sent = hc.sent /\ hc'.freed = hc.freed /\ DOMAIN hc' = DOMAIN hc
        /\ hc.at = "relaunching"
    BY <1>3, ZenonT(40) DEF Relaunch
  <2> QED
    BY <2>1 DEF CallOver, CallEnded, Calls
<1>4. CASE BackupFailed
  <2>1. /\ hc'.at = hc.at /\ hc'.pending = hc.pending /\ hc'.task = hc.task
        /\ hc'.sent = hc.sent /\ hc'.freed = hc.freed /\ DOMAIN hc' = DOMAIN hc
    BY <1>4 DEF BackupFailed
  <2> QED
    BY <2>1
<1>5. ASSUME NEW l \in Calls, CallWins(l) PROVE CallInv(hc')
  <2> DEFINE tk == [hc.task EXCEPT !["backup"] = IF @ \in {"asleep", "starting"} THEN "cancelled"
                                                                               ELSE @]
  <2>1. /\ hc'.at = "stopping" /\ hc'.pending = hc.pending /\ hc'.task = tk
        /\ hc'.sent = hc.sent /\ hc'.freed = hc.freed /\ DOMAIN hc' = DOMAIN hc
    BY <1>5, Zenon DEF CallWins
  <2>2. /\ tk \in [Calls -> {"calling", "asleep", "starting"} \cup CallEnded]
        /\ tk["backup"] = "calling" <=> hc.task["backup"] = "calling"
    BY ZenonT(40) DEF CallEnded, Calls
  <2> HIDE DEF tk
  <2> QED
    BY <2>1, <2>2 DEF CallOver
<1>6. CASE ReturnResult
  <2> DEFINE s == Cancelled(hc, Calls)
  <2>1. hc' = [s EXCEPT !.at = "returned"]
    BY <1>6, ZenonT(40) DEF ReturnResult
  <2>2. CallShape(s) /\ CapacityCounted(s) /\ \A l \in Calls : s.task[l] \in CallEnded
    <3>1. Calls \in SUBSET Calls
      BY Zenon
    <3> HIDE DEF CallInv, CallShape, CapacityCounted, NotAwaited
    <3>2. Stopped(s, Calls)
      BY <3>1, CancelledEnds, ZenonT(40)
    <3> QED BY <3>2, Zenon DEF Stopped
  <2> HIDE DEF s
  <2>3. /\ hc'.at = "returned" /\ hc'.pending = s.pending /\ hc'.task = s.task
        /\ hc'.sent = s.sent /\ hc'.freed = s.freed /\ DOMAIN hc' = DOMAIN s
    BY <2>1, <2>2, ZenonT(40)
  <2> QED
    BY <2>2, <2>3
<1>7. CASE LookedAll
  <2>1. /\ hc'.pending = hc.pending /\ hc'.task = hc.task
        /\ hc'.sent = hc.sent /\ hc'.freed = hc.freed /\ DOMAIN hc' = DOMAIN hc
        /\ hc.at = "looking"
        /\ hc'.at = IF hc.pending = {} THEN "raised" ELSE "waiting"
    BY <1>7 DEF LookedAll
  <2> QED
    BY <2>1 DEF CallOver
<1>8. CASE CancelCall
  <2> DEFINE s == Cancelled(hc, hc.pending)
  <2>1. hc' = [s EXCEPT !.at = "gone"] /\ hc.at = "waiting"
    BY <1>8, ZenonT(40) DEF CancelCall
  <2>2. /\ CallShape(s) /\ CapacityCounted(s)
        /\ \A l \in Calls : IF l \in hc.pending THEN s.task[l] \in CallEnded
                                                ELSE s.task[l] = hc.task[l]
    <3>1. hc.pending \in SUBSET Calls
      BY Zenon
    <3> HIDE DEF CallInv, CallShape, CapacityCounted, NotAwaited
    <3>2. Stopped(s, hc.pending)
      BY <3>1, CancelledEnds, ZenonT(40)
    <3> QED BY <3>2, Zenon DEF Stopped
  <2> HIDE DEF s
  <2>3. /\ hc'.at = "gone" /\ hc'.pending = s.pending /\ hc'.task = s.task
        /\ hc'.sent = s.sent /\ hc'.freed = s.freed /\ DOMAIN hc' = DOMAIN s
    BY <2>1, <2>2
  <2> QED
    BY <2>1, <2>2, <2>3
<1> QED
  BY <1>1, <1>2, <1>3, <1>4, <1>5, <1>6, <1>7, <1>8, ZenonT(40)

\* A hedged call that has returned, raised or been cancelled leaves no task
\* of it running, and the capacity of its backup has been released exactly
\* as often as it was taken (HedgedAdapter.chat_completion).
THEOREM NothingRunsOn == HedgedCallSpec => []NothingLeftRunning
<1>1. HedgedCallInit => CallInv(hc)
  <2> SUFFICES ASSUME HedgedCallInit PROVE CallInv(hc)
    BY ZenonT(40)
  <2>1. CallShape(hc) /\ CapacityCounted(hc)
    BY ZenonT(40) DEF HedgedCallInit, CallShape, CapacityCounted, Calls
  <2>2. NotAwaited(hc) /\ hc.at = "waiting"
    BY DEF HedgedCallInit, NotAwaited, Calls
  <2> QED
    BY <2>1, <2>2 DEF CallInv, CallOver
<1>2. CallInv(hc) /\ [HedgedCallNext]_hc => CallInv(hc)'
  <2>1. CallInv(hc) /\ HedgedCallNext => CallInv(hc')
    BY TaskKeeps, CallerKeeps, ZenonT(40) DEF HedgedCallNext, HedgedCallTask, ProviderAnswers
  <2> QED
    BY <2>1
<1>3. CallInv(hc) => NothingLeftRunning
  BY DEF CallInv, CapacityCounted, NothingLeftRunning, CallEnded, Calls
<1> QED
  BY <1>1, <1>2, <1>3, PTL DEF HedgedCallSpec

-----------------------------------------------------------------------------
(* KeyPool *)

KeyRow == [removed : BOOLEAN, muted : BOOLEAN, streak : Nat, tier : Ranks]

\* What the proof needs of the pool's state: rows of keys, and one record for
\* each request.
PoolShape ==
    /\ keys \in [Slots -> KeyRow]
    /\ rq = [c \in PoolClients |-> rq[c]]

\* The keys after one more failure of k.
LEMMA FailingKeys ==
    ASSUME NEW ks \in [Slots -> KeyRow], NEW k
    PROVE  /\ Failing(ks, k) \in [Slots -> KeyRow]
           /\ \A j \in Slots : /\ Failing(ks, k)[j].removed = ks[j].removed
                               /\ Failing(ks, k)[j].muted = ks[j].muted
                               /\ Failing(ks, k)[j].tier = ks[j].tier
<1> DEFINE n == IF ks[k].streak > Patience THEN ks[k].streak ELSE ks[k].streak + 1
           row == [ks[k] EXCEPT !.streak = n]
<1>1. Failing(ks, k) = [ks EXCEPT ![k] = row]
  BY DEF Failing
<1>2. CASE k \in Slots
  <2>1. ks[k] \in KeyRow
    BY <1>2
  <2>2. n \in Nat
    BY <2>1, PoolAssumption DEF KeyRow
  <2> HIDE DEF n
  <2>3. row \in KeyRow /\ row.removed = ks[k].removed /\ row.muted = ks[k].muted /\ row.tier = ks[k].tier
    BY <2>1, <2>2 DEF KeyRow
  <2> HIDE DEF row
  <2>4. QED
    BY <1>1, <1>2, <2>3
<1>3. CASE k \notin Slots
  <2> HIDE DEF row
  <2>1. [ks EXCEPT ![k] = row] = ks
    BY <1>3, ZenonT(40)
  <2>2. QED
    BY <1>1, <2>1, Zenon
<1>4. QED
  BY <1>2, <1>3

\* A key that a failure mutes is not the last one its role can use, or has
\* failed more often in a row than is free.
LEMMA MutedByFailure ==
    ASSUME NEW ks \in [Slots -> KeyRow], ks = keys, NEW k, NEW role, NEW tried, NEW specific \in BOOLEAN,
           NEW after, after = AfterFailure(k, role, tried, specific)
    PROVE  /\ after \in [Slots -> KeyRow]
           /\ \A j \in Slots : j # k => after[j].muted = ks[j].muted
           /\ k \notin Slots => after = ks
           /\ k \in Slots /\ ~ ks[k].muted /\ after[k].muted =>
                 Usable(after, role) # {} \/ after[k].streak > Patience
<1>1. PICK fs \in [Slots -> KeyRow] : fs = Failing(ks, k)
  BY FailingKeys
<1>2. \A j \in Slots : fs[j].removed = ks[j].removed /\ fs[j].muted = ks[j].muted /\ fs[j].tier = ks[j].tier
  BY <1>1, FailingKeys
<1> DEFINE out == Outcome(fs, k, role, tried, specific)
<1>3. after = IF out = "muted" THEN [fs EXCEPT ![k] = [fs[k] EXCEPT !.muted = TRUE]] ELSE fs
  BY <1>1 DEF AfterFailure
<1>4. out = "muted" => ~ IsSole(fs, k, role) \/ ~ (fs[k].streak <= Patience)
  BY DEF Outcome
<1> HIDE DEF out
<1>5. CASE k \notin Slots
  <2>1. fs = ks
    BY <1>1, <1>5 DEF Failing
  <2>2. after = fs
    BY <1>3, <1>5
  <2>3. QED
    BY <1>5, <2>1, <2>2
<1>6. CASE k \in Slots /\ out # "muted"
  BY <1>2, <1>3, <1>6, ZenonT(40)
<1>7. CASE k \in Slots /\ out = "muted"
  <2>1. fs[k] \in KeyRow
    BY <1>7
  <2> DEFINE row == [fs[k] EXCEPT !.muted = TRUE]
  <2>2. row \in KeyRow /\ row.streak = fs[k].streak
    BY <2>1, Zenon DEF KeyRow
  <2>3. after = [fs EXCEPT ![k] = row]
    BY <1>3, <1>7
  <2> HIDE DEF row
  <2>4. after \in [Slots -> KeyRow] /\ after[k] = row /\ \A j \in Slots : j # k => after[j] = fs[j]
    BY <1>7, <2>2, <2>3
  <2>5. CASE ~ IsSole(fs, k, role)
    <3>1. PICK j \in Usable(fs, role) : j # k
      BY <2>5 DEF IsSole
    <3>2. j \in Usable(after, role)
      BY <2>4, <3>1 DEF Usable, Entitled
    <3>3. QED
      BY <1>2, <1>7, <2>4, <3>2
  <2>6. CASE ~ (fs[k].streak <= Patience)
    <3>1. after[k].streak > Patience
      BY <2>1, <2>2, <2>4, <2>6, PoolAssumption DEF KeyRow
    <3>2. QED
      BY <1>2, <1>7, <2>4, <3>1
  <2>7. QED
    BY <1>4, <1>7, <2>5, <2>6
<1>8. QED
  BY <1>5, <1>6, <1>7

\* No key goes from usable to muted while the request that used it ends its
\* lease, unless LastKeyGoesLast allows it.
Spared(c) ==
    LET k == rq[c].lease
    IN  k # 0 /\ ~ keys[k].muted /\ keys'[k].muted /\ rq'[c].lease = 0 =>
            Usable(keys', rq[c].role) # {} \/ keys'[k].streak > Patience

\* A step of one request touches no other request.
LEMMA OneRequest ==
    ASSUME PoolShape, NEW c \in PoolClients, RotationStep(c)
    PROVE  /\ rq' = [d \in PoolClients |-> rq'[d]]
           /\ \A d \in PoolClients : d # c => rq'[d] = rq[d]
<1>1. \E r : rq' = [rq EXCEPT ![c] = r]
  BY Zenon DEF RotationStep, Acquire, NoKeyLeft, AllErrored, Saturated, FailsEarly, FailsLate, FirstChunk,
         Answered, EndsNeutral, Ended
<1>2. PICK r : rq' = [rq EXCEPT ![c] = r]
  BY <1>1, Zenon
<1>3. PICK g : g = rq /\ g = [d \in PoolClients |-> g[d]]
  BY DEF PoolShape
<1>4. [g EXCEPT ![c] = r] = [d \in PoolClients |-> IF d = c THEN r ELSE g[d]]
  BY <1>3
<1>5. QED
  BY <1>2, <1>3, <1>4

\* Every step spares the last key.
LEMMA PoolStep ==
    ASSUME PoolShape, [PoolNext]_poolVars
    PROVE  PoolShape' /\ \A c \in PoolClients : Spared(c)
<1>1. PICK ks \in [Slots -> KeyRow] : ks = keys
  BY DEF PoolShape
<1>2. ASSUME keys' \in [Slots -> KeyRow], UNCHANGED rq
      PROVE  PoolShape' /\ \A c \in PoolClients : Spared(c)
  BY <1>2 DEF PoolShape, Spared
<1>3. CASE AdminChanges
  <2>1. PICK k \in Slots, tier \in Ranks : RemoveKey(k) \/ AddKey(k, tier) \/ SetTier(k, tier)
    BY <1>3, PoolAssumption DEF AdminChanges
  <2>2. UNCHANGED rq
    BY <2>1 DEF RemoveKey, AddKey, SetTier
  <2>3. CASE RemoveKey(k)
    <3>1. keys' = [ks EXCEPT ![k] = [ks[k] EXCEPT !.removed = TRUE]]
      BY <1>1, <2>3 DEF RemoveKey
    <3>2. [ks[k] EXCEPT !.removed = TRUE] \in KeyRow
      BY Zenon DEF KeyRow
    <3>3. QED
      BY <1>2, <2>2, <3>1, <3>2
  <2>4. CASE AddKey(k, tier)
    <3> DEFINE one == [ks EXCEPT ![k].removed = FALSE]
    <3>1. keys' = [one EXCEPT ![k] = [one[k] EXCEPT !.tier = tier]]
      BY <1>1, <2>4 DEF AddKey
    <3>2. [ks[k] EXCEPT !.removed = FALSE] \in KeyRow
      BY Zenon DEF KeyRow
    <3>3. one \in [Slots -> KeyRow]
      BY <3>2
    <3> HIDE DEF one
    <3>4. [one[k] EXCEPT !.tier = tier] \in KeyRow
      BY <3>3 DEF KeyRow
    <3>5. QED
      BY <1>2, <2>2, <3>1, <3>3, <3>4
  <2>5. CASE SetTier(k, tier)
    <3>1. keys' = [ks EXCEPT ![k] = [ks[k] EXCEPT !.tier = tier]]
      BY <1>1, <2>5 DEF SetTier
    <3>2. [ks[k] EXCEPT !.tier = tier] \in KeyRow
      BY DEF KeyRow
    <3>3. QED
      BY <1>2, <2>2, <3>1, <3>2
  <2>6. QED
    BY <2>1, <2>3, <2>4, <2>5
<1>4. ASSUME NEW k \in Slots, CooldownEnds(k)
      PROVE  PoolShape' /\ \A c \in PoolClients : Spared(c)
  <2>1. keys' = [ks EXCEPT ![k] = [ks[k] EXCEPT !.muted = FALSE]] /\ UNCHANGED rq
    BY <1>1, <1>4 DEF CooldownEnds
  <2>2. [ks[k] EXCEPT !.muted = FALSE] \in KeyRow
    BY Zenon DEF KeyRow
  <2>3. QED
    BY <1>2, <2>1, <2>2
<1>5. CASE (\E u \in Sticky : BindingLapses(u)) \/ UNCHANGED poolVars
  BY <1>1, <1>2, <1>5 DEF BindingLapses, poolVars
<1>6. ASSUME NEW c \in PoolClients, NEW u, NEW role, StartRotation(c, u, role)
      PROVE  PoolShape' /\ \A d \in PoolClients : Spared(d)
  <2>1. PICK r : rq' = [rq EXCEPT ![c] = r]
    BY <1>6, Zenon DEF StartRotation
  <2>2. PICK g : g = rq /\ g = [d \in PoolClients |-> g[d]]
    BY DEF PoolShape
  <2>3. [g EXCEPT ![c] = r] = [d \in PoolClients |-> IF d = c THEN r ELSE g[d]]
    BY <2>2
  <2>4. rq' = [d \in PoolClients |-> rq'[d]]
    BY <2>1, <2>2, <2>3
  <2>5. keys' = keys
    BY <1>6 DEF StartRotation
  <2>6. QED
    BY <1>1, <2>4, <2>5 DEF PoolShape, Spared
<1>7. ASSUME NEW c \in PoolClients, RotationStep(c)
      PROVE  PoolShape' /\ \A d \in PoolClients : Spared(d)
  <2>1. /\ rq' = [d \in PoolClients |-> rq'[d]]
        /\ \A d \in PoolClients : d # c => rq'[d] = rq[d]
    BY <1>7, OneRequest
  <2>2. \A d \in PoolClients : d # c => Spared(d)
    BY <2>1 DEF Spared
  <2>3. SUFFICES keys' \in [Slots -> KeyRow] /\ Spared(c)
    BY <2>1, <2>2 DEF PoolShape
  <2>4. CASE keys' = keys
    BY <1>1, <2>4, ZenonT(40) DEF Spared
  <2>5. ASSUME NEW tried, NEW specific \in BOOLEAN,
               keys' = AfterFailure(rq[c].lease, rq[c].role, tried, specific)
        PROVE  keys' \in [Slots -> KeyRow] /\ Spared(c)
    <3>1. PICK k, role, after : k = rq[c].lease /\ role = rq[c].role /\ after = keys'
      OBVIOUS
    <3>2. after = AfterFailure(k, role, tried, specific)
      BY <2>5, <3>1, ZenonT(40)
    <3>3. /\ after \in [Slots -> KeyRow]
          /\ k \notin Slots => after = ks
          /\ k \in Slots /\ ~ ks[k].muted /\ after[k].muted =>
                Usable(after, role) # {} \/ after[k].streak > Patience
      BY <1>1, <3>2, MutedByFailure, ZenonT(40)
    <3>4. QED
      BY <1>1, <3>1, <3>3 DEF Spared
  <2>6. CASE Answered(c)
    <3>1. PICK k : k = rq[c].lease
      OBVIOUS
    <3>2. keys' = [ks EXCEPT ![k] = [ks[k] EXCEPT !.streak = 0]]
      BY <1>1, <2>6, <3>1, ZenonT(40) DEF Answered
    <3>3. CASE k \in Slots
      <4>1. /\ [ks[k] EXCEPT !.streak = 0] \in KeyRow
            /\ [ks[k] EXCEPT !.streak = 0].muted = ks[k].muted
        BY <3>3 DEF KeyRow
      <4>2. keys' \in [Slots -> KeyRow] /\ keys'[k].muted = ks[k].muted
        BY <3>2, <3>3, <4>1
      <4>3. QED
        BY <1>1, <3>1, <4>2 DEF Spared
    <3>4. CASE k \notin Slots
      <4>1. keys' = ks
        BY <3>2, <3>4
      <4>2. QED
        BY <1>1, <4>1 DEF Spared
    <3>5. QED
      BY <3>3, <3>4
  <2>7. ASSUME NEW specific \in BOOLEAN, FailsEarly(c, specific)
        PROVE  keys' \in [Slots -> KeyRow] /\ Spared(c)
    BY <2>5, <2>7, ZenonT(40) DEF FailsEarly
  <2>8. ASSUME NEW specific \in BOOLEAN, FailsLate(c, specific)
        PROVE  keys' \in [Slots -> KeyRow] /\ Spared(c)
    BY <2>5, <2>8 DEF FailsLate
  <2>9. CASE Acquire(c) \/ NoKeyLeft(c) \/ AllErrored(c) \/ Saturated(c) \/ FirstChunk(c) \/ EndsNeutral(c)
    BY <2>4, <2>9, Zenon DEF Acquire, NoKeyLeft, AllErrored, Saturated, FirstChunk, EndsNeutral
  <2>10. QED
    BY <1>7, <2>6, <2>7, <2>8, <2>9 DEF RotationStep
<1>8. QED
  BY <1>3, <1>4, <1>5, <1>6, <1>7 DEF PoolNext

\* A failure never takes a role's last usable key before it has failed more
\* often in a row than SOLE_KEY_BACKOFF_THRESHOLD allows, whatever other
\* requests fail, rotate and mute meanwhile and however the keys are managed.
THEOREM LastKeySpared == PoolSpec => LastKeyGoesLast
<1>1. PoolInit => PoolShape
  BY PoolAssumption, Zenon DEF PoolInit, PoolShape, KeyRow
<1>2. PoolShape /\ [PoolNext]_poolVars => PoolShape'
  BY PoolStep, ZenonT(40)
<1>3. PoolShape /\ [PoolNext]_poolVars =>
        [\A c \in PoolClients :
           LET k == rq[c].lease IN
           k # 0 /\ ~keys[k].muted /\ keys'[k].muted /\ rq'[c].lease = 0 =>
               Usable(keys', rq[c].role) # {} \/ keys'[k].streak > Patience]_poolVars
  BY PoolStep DEF Spared
<1>4. QED
  BY <1>1, <1>2, <1>3, PTL DEF PoolSpec, LastKeyGoesLast

=============================================================================
