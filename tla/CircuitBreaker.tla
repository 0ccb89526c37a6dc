--------------------------- MODULE CircuitBreaker ---------------------------
(***************************************************************************)
(* One endpoint of the health registry (routing/endpoint_health.py): its   *)
(* circuit breaker, the half-open probe claim, and what the breaker holds  *)
(* about its own pages.  The callers are the requests the routers dispatch *)
(* to the endpoint.                                                        *)
(*                                                                         *)
(* Every operation runs under the breaker's lock and awaits nothing, so it *)
(* is one step.  Time is counted in ticks where two timers are compared    *)
(* (the cooldown and the probe's deadline, both cooldown_seconds long);    *)
(* the two alerting timers, hours long, end at any time.                   *)
(*                                                                         *)
(* A failure no endpoint is charged with, and a client error, change       *)
(* nothing (_uncharged_failure_event, _is_client_error).  Whether the EWMA *)
(* availability is below its floor, whether the text of a failure names a  *)
(* spent plan, and the paging policy in force are inputs of a failure.     *)
(***************************************************************************)
EXTENDS Integers

CONSTANTS Callers,    \* requests to the endpoint
          Nobody,     \* _probe_token is None
          Threshold,  \* CIRCUIT_FAILURE_THRESHOLD
          Cooldown,   \* CIRCUIT_COOLDOWN_SECONDS, in ticks
          Pages       \* bound: plan-usage pages being delivered at once

ASSUME BreakerAssumption ==
    /\ Nobody \notin Callers
    /\ Threshold \in Nat \ {0}
    /\ Cooldown \in Nat

VARIABLES
    state,     \* "closed", "open" or "half_open"
    failures,  \* consecutive_failures, counted up to Threshold
    cooling,   \* ticks until last_opened + cooldown_seconds
    holder,    \* the caller whose claim _probe_token is
    probe,     \* ticks until _probe_deadline (0: none, or past)
    call,      \* of each caller: "idle", "pinned", "free" or "probe", by its claim
    life,      \* ticks left of the cooldown a caller's probe was given
    muted,     \* _alert_suppressed_until is in the future
    recent,    \* _usage_limit_alerted_at is less than _MIN_ALERT_GAP_SEC ago
    guarding,  \* _alert_in_flight_generation = _recovery_generation
    page,      \* plan-usage pages being delivered: of the "current" recovery
               \* generation, or of an "old" one
    rejected,  \* consecutive_auth_rejections > 0
    throttled, \* an auth page was scheduled within its interval
    paged      \* the last auth report scheduled said "breached"

breaker == <<state, failures, cooling, holder, probe>>
alerts == <<muted, recent, guarding, page>>
auth == <<rejected, throttled, paged>>
vars == <<state, failures, cooling, holder, probe, call, life, muted, recent, guarding, page,
          rejected, throttled, paged>>

TypeOK ==
    /\ state \in {"closed", "open", "half_open"}
    /\ failures \in 0 .. Threshold
    /\ cooling \in 0 .. Cooldown
    /\ holder \in Callers \cup {Nobody}
    /\ probe \in 0 .. Cooldown
    /\ call \in [Callers -> {"idle", "pinned", "free", "probe"}]
    /\ life \in [Callers -> 0 .. Cooldown]
    /\ muted \in BOOLEAN
    /\ recent \in BOOLEAN
    /\ guarding \in BOOLEAN
    /\ page \in [Pages -> {"none", "current", "old"}]
    /\ rejected \in BOOLEAN
    /\ throttled \in BOOLEAN
    /\ paged \in BOOLEAN

Init ==
    /\ state = "closed" /\ failures = 0 /\ cooling = 0
    /\ holder = Nobody /\ probe = 0
    /\ call = [c \in Callers |-> "idle"]
    /\ life = [c \in Callers |-> 0]
    /\ muted = FALSE /\ recent = FALSE /\ guarding = FALSE
    /\ page = [p \in Pages |-> "none"]
    /\ rejected = FALSE /\ throttled = FALSE /\ paged = FALSE

-----------------------------------------------------------------------------
\* Admission.

\* Mutated form: a claim is live until it is handed back.
ProbeLiveUntilReturned == holder # Nobody

\* _probe_claim_live_locked.
ProbeLive == probe > 0

\* _admits_locked.
Admits ==
    \/ state = "closed"
    \/ state = "open" /\ cooling = 0
    \/ state = "half_open" /\ ~ ProbeLive

\* begin_dispatch: a closed circuit admits at no cost; otherwise the caller is
\* admitted as the one probe.  (A caller not admitted goes elsewhere.)
BeginFree(c) ==
    /\ call[c] = "idle"
    /\ state = "closed"
    /\ call' = [call EXCEPT ![c] = "free"]
    /\ UNCHANGED <<breaker, life, alerts, auth>>

BeginProbe(c) ==
    /\ call[c] = "idle"
    /\ state # "closed"
    /\ Admits
    /\ state' = "half_open"
    /\ holder' = c
    /\ probe' = Cooldown
    /\ call' = [call EXCEPT ![c] = "probe"]
    /\ life' = [life EXCEPT ![c] = Cooldown]
    /\ UNCHANGED <<failures, cooling, alerts, auth>>

\* An explicit provider pin bypasses admission and holds no claim.
Pin(c) ==
    /\ call[c] = "idle"
    /\ call' = [call EXCEPT ![c] = "pinned"]
    /\ UNCHANGED <<breaker, life, alerts, auth>>

\* Mutated form: whoever ends a probe frees the slot.
OwnsAny(c) == call[c] = "probe"

\* A claim's token is the one the slot was last given to.
Owns(c) == call[c] = "probe" /\ holder = c

\* end_dispatch, from the caller's finally.
End(c) ==
    /\ call[c] # "idle"
    /\ holder' = IF Owns(c) THEN Nobody ELSE holder
    /\ probe' = IF Owns(c) THEN 0 ELSE probe
    /\ call' = [call EXCEPT ![c] = "idle"]
    /\ life' = [life EXCEPT ![c] = 0]
    /\ UNCHANGED <<state, failures, cooling, alerts, auth>>

\* The dispatch never unwinds, and nobody hands the claim back.
Vanish(c) ==
    /\ call[c] # "idle"
    /\ call' = [call EXCEPT ![c] = "idle"]
    /\ life' = [life EXCEPT ![c] = 0]
    /\ UNCHANGED <<breaker, alerts, auth>>

-----------------------------------------------------------------------------
\* Outcomes.  A stream records one for its first token and may record another.

\* Mutated form: a recovery leaves the next auth page throttled.
AuthRecoversThrottled ==
    /\ rejected' = FALSE
    /\ paged' = IF rejected THEN FALSE ELSE paged
    /\ UNCHANGED throttled

\* record(True), and the resolution it schedules: the first accepted request
\* ends the run of rejections.
AuthRecovers ==
    /\ rejected' = FALSE
    /\ throttled' = IF rejected THEN FALSE ELSE throttled
    /\ paged' = IF rejected THEN FALSE ELSE paged

\* on_success: recovery re-arms alerting; pages being delivered become old.
Success(c) ==
    /\ call[c] # "idle"
    /\ state' = "closed"
    /\ failures' = 0
    /\ cooling' = IF state = "closed" THEN cooling ELSE 0
    /\ holder' = IF state = "closed" THEN holder ELSE Nobody
    /\ probe' = IF state = "closed" THEN probe ELSE 0
    /\ muted' = FALSE
    /\ guarding' = FALSE
    /\ page' = [p \in Pages |-> IF page[p] = "current" THEN "old" ELSE page[p]]
    /\ AuthRecovers
    /\ UNCHANGED <<call, life, recent>>

\* note_failure and _report_auth_misconfig: every rejection is counted, a page
\* is scheduled unless one was within the interval.
AuthFails(misconfig) ==
    /\ rejected' = (rejected \/ misconfig)
    /\ throttled' = (throttled \/ misconfig)
    /\ paged' = (paged \/ (misconfig /\ ~ throttled))

\* A trip of a circuit that was not open already: held back by one of the
\* gates, or paged.  Only the page of a spent plan is tracked here.
Alert(usage, enabled, page_on_usage_limit) ==
    LET paging_off == ~ page_on_usage_limit /\ (usage \/ recent)
        held == ~ enabled \/ guarding \/ muted \/ (usage /\ recent) \/ paging_off
    IN  \/ /\ held
           /\ recent' = (recent \/ (paging_off /\ usage))
           /\ muted' = (muted \/ usage)
           /\ UNCHANGED <<guarding, page>>
        \/ /\ ~ held /\ usage
           /\ \E p \in Pages : /\ page[p] = "none"
                               /\ page' = [page EXCEPT ![p] = "current"]
           /\ guarding' = TRUE
           /\ UNCHANGED <<muted, recent>>
        \/ /\ ~ held /\ ~ usage
           /\ UNCHANGED alerts

Trips(below) == failures + 1 >= Threshold \/ below

\* record_failure, on_failure: the cooldown starts anew with every tripping
\* failure, also one of an open circuit.
Failure(c, below, misconfig, usage, enabled, page_on_usage_limit) ==
    /\ call[c] # "idle"
    /\ failures' = IF failures < Threshold THEN failures + 1 ELSE failures
    /\ AuthFails(misconfig)
    /\ IF Trips(below)
       THEN /\ state' = "open"
            /\ cooling' = Cooldown
            /\ IF state = "open" THEN UNCHANGED alerts
               ELSE Alert(usage, enabled, page_on_usage_limit)
       ELSE UNCHANGED <<state, cooling, alerts>>
    /\ UNCHANGED <<holder, probe, call, life>>

Fail(c) ==
    \E below, misconfig, usage, enabled, page_on_usage_limit \in BOOLEAN :
        Failure(c, below, misconfig, usage, enabled, page_on_usage_limit)

-----------------------------------------------------------------------------
\* Mutated form: a page mutes whatever outage there is when it arrives.
MutesAny(p, delivered) == delivered

\* The mute is withheld when the endpoint recovered while the page was sent.
Mutes(p, delivered) == delivered /\ page[p] = "current"

FreesGuard(p, delivered) == page[p] = "current"

\* The end of _send_circuit_alert, for a plan-usage page.
PageEnds(p, delivered) ==
    /\ page[p] # "none"
    /\ guarding' = (guarding /\ ~ FreesGuard(p, delivered))
    /\ recent' = (recent \/ delivered)
    /\ muted' = (muted \/ Mutes(p, delivered))
    /\ page' = [page EXCEPT ![p] = "none"]
    /\ UNCHANGED <<breaker, call, life, auth>>

Less(n) == IF n > 0 THEN n - 1 ELSE 0

\* Time passes.
Tick ==
    /\ cooling > 0 \/ probe > 0 \/ \E c \in Callers : life[c] > 0
    /\ cooling' = Less(cooling)
    /\ probe' = Less(probe)
    /\ life' = [c \in Callers |-> Less(life[c])]
    /\ UNCHANGED <<state, failures, holder, call, alerts, auth>>

MuteEnds ==
    /\ muted
    /\ muted' = FALSE
    /\ UNCHANGED <<breaker, call, life, recent, guarding, page, auth>>

GapEnds ==
    /\ recent
    /\ recent' = FALSE
    /\ UNCHANGED <<breaker, call, life, muted, guarding, page, auth>>

IntervalEnds ==
    /\ throttled
    /\ throttled' = FALSE
    /\ UNCHANGED <<breaker, call, life, alerts, rejected, paged>>

Next ==
    \/ \E c \in Callers :
        BeginFree(c) \/ BeginProbe(c) \/ Pin(c) \/ End(c) \/ Vanish(c) \/ Success(c) \/ Fail(c)
    \/ \E p \in Pages, delivered \in BOOLEAN : PageEnds(p, delivered)
    \/ Tick
    \/ MuteEnds
    \/ GapEnds
    \/ IntervalEnds

\* Time passes; of callers, pages and outcomes nothing is assumed.
Spec == Init /\ [][Next]_vars /\ WF_vars(Tick)

-----------------------------------------------------------------------------
\* A recovering endpoint is asked one question at a time: no two callers hold
\* probes that are both within the cooldown they were given -- although pinned
\* requests and ones admitted before the trip close and reopen the circuit
\* under a running probe, and lapsed claims are handed back late
\* (begin_dispatch, end_dispatch, on_failure).
SingleProbe ==
    \A c, d \in Callers : life[c] > 0 /\ life[d] > 0 => c = d

\* A closed circuit carries nothing of the last outage into the next one: no
\* probe, no cooldown, a streak below the threshold, and no mute or guard that
\* would hold back the next outage's page, however late the last one's page is
\* delivered (on_success, _send_circuit_alert).
RecoveryIsClean ==
    state = "closed" =>
        /\ holder = Nobody /\ probe = 0 /\ cooling = 0
        /\ failures < Threshold
        /\ ~ muted /\ ~ guarding

\* The in-flight guard stands exactly while a plan-usage page of this outage is
\* being sent, and there is only one: neither an undelivered page nor one of an
\* earlier outage leaves the breaker silent or lets it page twice.
GuardedWhileSending ==
    /\ guarding <=> \E p \in Pages : page[p] = "current"
    /\ \A p, q \in Pages : page[p] = "current" /\ page[q] = "current" => p = q

\* The credential page is scheduled with the first rejection of a run, despite
\* its throttle, and resolved with the first request accepted afterwards
\* (_report_auth_misconfig, record_success).
PagedWhileRejected == paged <=> rejected

\* A claim that is never handed back costs a cooldown, not the endpoint: unless
\* requests to it keep failing, it is admissible again and again.
NeverLockedOut == []<>Admits \/ []<><<\E c \in Callers : Fail(c)>>_vars
=============================================================================
