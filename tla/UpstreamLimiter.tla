-------------------------- MODULE UpstreamLimiter --------------------------
(***************************************************************************)
(* One bucket of the outbound concurrency limiter                          *)
(* (serving/adapters/upstream_limiter.py): the AIMD limit, the in-flight   *)
(* count and the FIFO of waiting futures that the asyncio tasks calling    *)
(* one (provider, key) share.  Buckets are independent of each other.      *)
(*                                                                         *)
(* A block of the code with no await in it is one step.  A task waits in   *)
(* `await asyncio.wait_for(waiter, wait)`; between the moment its future   *)
(* is resolved, or it is interrupted (timeout, cancellation), and the      *)
(* moment it resumes, any other task may run.                              *)
(***************************************************************************)
EXTENDS Integers, Sequences, FiniteSets

CONSTANTS Tasks,          \* the asyncio tasks that send requests
          InitialLimit,   \* UPSTREAM_CONCURRENCY_INITIAL_LIMIT, clamped
          MaxLimit,       \* UPSTREAM_CONCURRENCY_MAX_LIMIT, clamped
          ProbeInterval   \* UPSTREAM_CONCURRENCY_PROBE_SUCCESS_INTERVAL, clamped

\* What the clamps of the constructor leave.
ASSUME LimiterAssumption ==
    /\ IsFiniteSet(Tasks)
    /\ MaxLimit \in Nat \ {0}
    /\ InitialLimit \in 1 .. MaxLimit
    /\ ProbeInterval \in Nat \ {0}

VARIABLES
    limit,      \* _Bucket.limit
    in_flight,  \* _Bucket.in_flight
    successes,  \* _Bucket.successes_since_probe
    waiters,    \* _Bucket.waiters: the tasks whose futures are queued
    bound,      \* _Bucket.loop is the running event loop
    pc,         \* where each task is: "idle", "waiting" or "holding"
    fut,        \* its future: "none", "pending", "granted" or "cancelled"
    interrupted \* a timeout or a cancel will be thrown into it when it resumes

vars == <<limit, in_flight, successes, waiters, bound, pc, fut, interrupted>>

\* The outcomes a release reports (outcome_status): a success, a rate limit,
\* or anything else, which moves no AIMD state.
Outcomes == {"200", "429", "other"}

\* The tasks that own a slot: those running their request, and those a wake
\* reserved a slot for that have not resumed yet.
Holders == {t \in Tasks : pc[t] = "holding" \/ fut[t] = "granted"}

TypeOK ==
    /\ limit \in 1 .. MaxLimit
    /\ in_flight \in Nat
    /\ successes \in 0 .. ProbeInterval - 1
    /\ waiters \in Seq(Tasks)
    /\ bound \in BOOLEAN
    /\ pc \in [Tasks -> {"idle", "waiting", "holding"}]
    /\ fut \in [Tasks -> {"none", "pending", "granted", "cancelled"}]
    /\ interrupted \in [Tasks -> BOOLEAN]

Init ==
    /\ limit = InitialLimit
    /\ in_flight = 0
    /\ successes = 0
    /\ waiters = << >>
    /\ bound = FALSE
    /\ pc = [t \in Tasks |-> "idle"]
    /\ fut = [t \in Tasks |-> "none"]
    /\ interrupted = [t \in Tasks |-> FALSE]

-----------------------------------------------------------------------------
\* wake_waiters, from an in-flight count n and a limit l: the first k queued
\* futures are popped, k being where the loop stops -- at the end of the queue
\* or when the limit is reached -- and the pending ones among them granted.

Popped(k) == {waiters[j] : j \in 1 .. k}
Granted(k) == {t \in Popped(k) : fut[t] = "pending"}

\* Mutated form: one grant too many.
LoopStopsLate(n, l, k) == k = Len(waiters) \/ n + Cardinality(Granted(k)) > l

LoopStops(n, l, k) == k = Len(waiters) \/ n + Cardinality(Granted(k)) >= l

WakePoint(n, l, k) ==
    /\ LoopStops(n, l, k)
    /\ \A j \in 0 .. k - 1 : ~ LoopStops(n, l, j)

\* The new in-flight count, queue and futures; f are the futures with the
\* caller's own change already made.
Wake(n, l, f) ==
    \E k \in 0 .. Len(waiters) :
        /\ WakePoint(n, l, k)
        /\ in_flight' = n + Cardinality(Granted(k))
        /\ waiters' = SubSeq(waiters, k + 1, Len(waiters))
        /\ fut' = [t \in Tasks |-> IF t \in Granted(k) THEN "granted" ELSE f[t]]

\* _decrease and _count_success: the new limit and success count.
LimitAfter(outcome) ==
    CASE outcome = "429" -> IF limit > 1 THEN limit - 1 ELSE 1
      [] outcome = "200" /\ successes + 1 >= ProbeInterval ->
            IF limit < MaxLimit THEN limit + 1 ELSE MaxLimit
      [] OTHER -> limit

SuccessesAfter(outcome) ==
    CASE outcome = "429" -> 0
      [] outcome = "200" -> IF successes + 1 >= ProbeInterval THEN 0 ELSE successes + 1
      [] OTHER -> successes

\* Mutated form: the slot goes back and nobody is woken.
CompleteNoWake(outcome, f) ==
    /\ limit' = LimitAfter(outcome)
    /\ successes' = SuccessesAfter(outcome)
    /\ in_flight' = in_flight - 1
    /\ fut' = f
    /\ UNCHANGED waiters

\* _Bucket.complete: give the slot back, fold the outcome in, wake the queue.
Complete(outcome, f) ==
    /\ limit' = LimitAfter(outcome)
    /\ successes' = SuccessesAfter(outcome)
    /\ Wake(IF in_flight > 0 THEN in_flight - 1 ELSE 0, LimitAfter(outcome), f)

-----------------------------------------------------------------------------
\* acquire, for a remote endpoint: adopt the running loop, then take a slot at
\* once when one is free and nobody queues for it ...
AcquireNow(t) ==
    /\ pc[t] = "idle"
    /\ ~ bound \/ (waiters = << >> /\ in_flight < limit)
    /\ in_flight' = IF bound THEN in_flight + 1 ELSE 1
    /\ waiters' = << >>
    /\ bound' = TRUE
    /\ pc' = [pc EXCEPT ![t] = "holding"]
    /\ UNCHANGED <<limit, successes, fut, interrupted>>

\* Mutated form: newcomers enter the queue at its head.
AcquireQueueAtHead(t) ==
    /\ pc[t] = "idle"
    /\ bound
    /\ waiters # << >> \/ in_flight >= limit
    /\ waiters' = <<t>> \o waiters
    /\ pc' = [pc EXCEPT ![t] = "waiting"]
    /\ fut' = [fut EXCEPT ![t] = "pending"]
    /\ UNCHANGED <<limit, in_flight, successes, bound, interrupted>>

\* ... or join the end of the queue.  (A dispatch whose own deadline has passed
\* already raises here instead, and changes nothing.)
AcquireQueue(t) ==
    /\ pc[t] = "idle"
    /\ bound
    /\ waiters # << >> \/ in_flight >= limit
    /\ waiters' = Append(waiters, t)
    /\ pc' = [pc EXCEPT ![t] = "waiting"]
    /\ fut' = [fut EXCEPT ![t] = "pending"]
    /\ UNCHANGED <<limit, in_flight, successes, bound, interrupted>>

\* The wait times out or the task is cancelled (client disconnect, router
\* timeout).  A pending future is cancelled with it and stays queued until the
\* task resumes; a future already granted stays granted, and the interruption
\* wins when the task resumes.
Interrupt(t) ==
    /\ pc[t] = "waiting"
    /\ ~ interrupted[t]
    /\ interrupted' = [interrupted EXCEPT ![t] = TRUE]
    /\ fut' = [fut EXCEPT ![t] = IF @ = "pending" THEN "cancelled" ELSE @]
    /\ UNCHANGED <<limit, in_flight, successes, waiters, bound, pc>>

\* The woken task resumes: its slot was reserved by the wake.
ResumeGranted(t) ==
    /\ pc[t] = "waiting"
    /\ fut[t] = "granted"
    /\ ~ interrupted[t]
    /\ pc' = [pc EXCEPT ![t] = "holding"]
    /\ fut' = [fut EXCEPT ![t] = "none"]
    /\ UNCHANGED <<limit, in_flight, successes, waiters, bound, interrupted>>

\* deque.remove, its ValueError suppressed.
Without(t) ==
    LET At == {i \in 1 .. Len(waiters) : waiters[i] = t}
        i == CHOOSE i \in At : TRUE
    IN  IF At = {} THEN waiters
        ELSE SubSeq(waiters, 1, i - 1) \o SubSeq(waiters, i + 1, Len(waiters))

\* abandon, of a waiter that holds no slot: it only leaves the queue, if a wake
\* has not dropped it already.
AbandonCancelled(t) ==
    /\ pc[t] = "waiting"
    /\ interrupted[t]
    /\ fut[t] = "cancelled"
    /\ waiters' = Without(t)
    /\ pc' = [pc EXCEPT ![t] = "idle"]
    /\ fut' = [fut EXCEPT ![t] = "none"]
    /\ interrupted' = [interrupted EXCEPT ![t] = FALSE]
    /\ UNCHANGED <<limit, in_flight, successes, bound>>

\* Mutated form: the slot granted in the same tick is never given back.
AbandonGrantedLeaks(t) ==
    /\ pc[t] = "waiting"
    /\ interrupted[t]
    /\ fut[t] = "granted"
    /\ pc' = [pc EXCEPT ![t] = "idle"]
    /\ fut' = [fut EXCEPT ![t] = "none"]
    /\ interrupted' = [interrupted EXCEPT ![t] = FALSE]
    /\ UNCHANGED <<limit, in_flight, successes, waiters, bound>>

\* abandon, of a waiter granted in the same tick: the slot goes back with a
\* neutral outcome, which may wake the next waiter.
AbandonGranted(t) ==
    /\ pc[t] = "waiting"
    /\ interrupted[t]
    /\ fut[t] = "granted"
    /\ Complete("other", [fut EXCEPT ![t] = "none"])
    /\ pc' = [pc EXCEPT ![t] = "idle"]
    /\ interrupted' = [interrupted EXCEPT ![t] = FALSE]
    /\ UNCHANGED bound

\* UpstreamSlot.release, the first call; later calls change nothing.
Release(t, outcome) ==
    /\ pc[t] = "holding"
    /\ Complete(outcome, fut)
    /\ pc' = [pc EXCEPT ![t] = "idle"]
    /\ UNCHANGED <<bound, interrupted>>

\* The event loop is replaced.  Its tasks are gone with their slots; the bucket
\* keeps their count and queue until the next acquire rebinds it.
ReplaceLoop ==
    /\ bound
    /\ bound' = FALSE
    /\ pc' = [t \in Tasks |-> "idle"]
    /\ fut' = [t \in Tasks |-> "none"]
    /\ interrupted' = [t \in Tasks |-> FALSE]
    /\ UNCHANGED <<limit, in_flight, successes, waiters>>

Next ==
    \/ \E t \in Tasks :
        \/ AcquireNow(t)
        \/ AcquireQueue(t)
        \/ Interrupt(t)
        \/ ResumeGranted(t)
        \/ AbandonCancelled(t)
        \/ AbandonGranted(t)
        \/ \E outcome \in Outcomes : Release(t, outcome)
    \/ ReplaceLoop

\* The loop runs every ready callback, and every request ends (adapters bound
\* their calls), so its slot is released.  No timeout is relied upon.
Fairness ==
    \A t \in Tasks : /\ WF_vars(ResumeGranted(t))
                     /\ WF_vars(AbandonCancelled(t))
                     /\ WF_vars(AbandonGranted(t))
                     /\ WF_vars(\E outcome \in Outcomes : Release(t, outcome))

Spec == Init /\ [][Next]_vars /\ Fairness

-----------------------------------------------------------------------------
\* Every slot counted in flight belongs to exactly one task that will give it
\* back, whatever mix of grants, timeouts and cancellations happened: no slot
\* leaks and none is given back twice (_Bucket.abandon, UpstreamSlot.release).
SlotsConserved == bound => in_flight = Cardinality(Holders)

\* No lost wakeup: a queue forms, and stays, only while the bucket is full --
\* even with cancelled futures still queued and the limit moving up and down.
QueuedOnlyWhenFull == bound /\ waiters # << >> => in_flight >= limit

\* The queue holds each waiting task whose future is unresolved, once, and no
\* task that has left (abandon removes it, a wake pops it).
QueueMatchesTasks ==
    bound => /\ \A i, j \in 1 .. Len(waiters) : waiters[i] = waiters[j] => i = j
             /\ \A i \in 1 .. Len(waiters) : fut[waiters[i]] \in {"pending", "cancelled"}
             /\ \A t \in Tasks : fut[t] = "pending" => \E i \in 1 .. Len(waiters) : waiters[i] = t

\* No step pushes the in-flight count past the limit it leaves behind; the
\* count exceeds the limit only because a 429 lowered the limit.
GrantsWithinLimit == [][in_flight' > in_flight => in_flight' <= limit']_vars

Pending(t) == fut[t] = "pending"
Behind(q, u, v) == \E i, j \in 1 .. Len(q) : i < j /\ q[i] = u /\ q[j] = v
Served(t) == t \notin Holders /\ t \in Holders'

\* First come, first served: a task that keeps waiting through a step stays
\* ahead of everyone behind it and of newcomers, and nobody behind it, nor a
\* newcomer, is given a slot (has_free_slot, wake_waiters).
FirstComeFirstServed ==
    [][\A u \in Tasks : Pending(u) /\ Pending(u)' =>
         \A v \in Tasks \ {u} : ~ Pending(v) \/ Behind(waiters, u, v) =>
             /\ ~ Served(v)
             /\ Pending(v)' => Behind(waiters', u, v)]_vars

\* Every wait ends: as long as requests end, a queued task gets its slot (or
\* gives up); no wake is lost and nobody starves.
WaitsEnd == \A t \in Tasks : pc[t] = "waiting" ~> pc[t] # "waiting"
=============================================================================
