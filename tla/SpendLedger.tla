----------------------------- MODULE SpendLedger -----------------------------
(***************************************************************************)
(* The spend ledger of one gateway process (serving/spend_ledger.py), for  *)
(* one account and its daily quota: the gates that admit its requests, the *)
(* costs recorded when they end, and the one writer that adds them to the  *)
(* counter table (increment_user_costs).                                   *)
(*                                                                         *)
(* The ledger's own operations await nothing, so each is one step; a gate  *)
(* notes the time, reads the table and admits in three.  Amounts that the  *)
(* ledger sums are kept apart here, by request: `place` says in which of   *)
(* its sums a request's cost is.  Money is in whole units.  A key's budget *)
(* and the monthly quotas are the same check over other sums; the day does *)
(* not change.                                                             *)
(***************************************************************************)
EXTENDS Integers, FiniteSetsExt

CONSTANTS Requests,  \* requests of the account
          Costs,     \* what a request may turn out to cost
          Estimate,  \* ESTIMATED_REQUEST_COST_USD
          Quota,     \* the account's daily quota
          Window,    \* LANDED_WINDOW_SECONDS, in ticks
          Timeout    \* REQUEST_TIMEOUT_SECONDS, in ticks

ASSUME LedgerAssumption ==
    /\ IsFiniteSet(Requests)
    /\ Costs \subseteq Nat \ {0}
    /\ Estimate \in Nat \ {0}
    /\ Quota \in Nat
    /\ Window \in Nat
    /\ Timeout \in Nat

VARIABLES
    stage,     \* of each request: "idle", "gating" (read_at is set), "checked"
               \* (the table was read), "running" (it holds a reservation), "ended"
    waited,    \* of each gate: the ticks since its read_at
    seen,      \* of each gate: what the table held when it read it
    place,     \* of each cost: "none", "pending", "writing", "unknown" or "landed"
    cost,      \* what each request cost
    since,     \* of each landed cost: the ticks since its write was confirmed
    counter,   \* the table: how often each request's cost was added to it
    doubtful,  \* transactions reported unknown that may yet commit
    writer,    \* _writer: "none", "started" (task made), "sent", "committed",
               \* or "finishing" (its done callback has not run)
    retry,     \* _retry is not None
    flushing   \* flush: "no", "waiting", "pausing" or "over"

gates == <<stage, waited, seen>>
ledger == <<place, cost, since>>
vars == <<stage, waited, seen, place, cost, since, counter, doubtful, writer, retry, flushing>>

TypeOK ==
    /\ stage \in [Requests -> {"idle", "gating", "checked", "running", "ended"}]
    /\ waited \in [Requests -> 0 .. Timeout]
    /\ seen \in [Requests -> [Requests -> Nat]]
    /\ place \in [Requests -> {"none", "pending", "writing", "unknown", "landed"}]
    /\ cost \in [Requests -> Costs \cup {0}]
    /\ since \in [Requests -> 0 .. Window + 1]
    /\ counter \in [Requests -> Nat]
    /\ doubtful \in SUBSET SUBSET Requests
    /\ writer \in {"none", "started", "sent", "committed", "finishing"}
    /\ retry \in BOOLEAN
    /\ flushing \in {"no", "waiting", "pausing", "over"}

NothingRead == [q \in Requests |-> 0]

Init ==
    /\ stage = [r \in Requests |-> "idle"]
    /\ waited = [r \in Requests |-> 0]
    /\ seen = [r \in Requests |-> NothingRead]
    /\ place = [r \in Requests |-> "none"]
    /\ cost = [r \in Requests |-> 0]
    /\ since = [r \in Requests |-> 0]
    /\ counter = [r \in Requests |-> 0]
    /\ doubtful = {}
    /\ writer = "none"
    /\ retry = FALSE
    /\ flushing = "no"

-----------------------------------------------------------------------------
\* The gate.

At(p) == {r \in Requests : place[r] = p}
Unconfirmed == At("pending") \cup At("writing") \cup At("unknown")
Reserved == {r \in Requests : stage[r] = "running"}

\* _forget_landed: confirmed writes older than the window are dropped.
Kept == {r \in At("landed") : since[r] <= Window}

\* Mutated form: a write confirmed at the gate's read_at is taken as read.
LandedSinceStrict(age) == {r \in Kept : since[r] < age \/ age > Window}

\* The confirmed writes a gate of this age counts: those since its read_at, or
\* all that are kept when it is older than the window.
LandedSince(age) == {r \in Kept : since[r] <= age \/ age > Window}

\* Mutated form: requests in flight are not counted.
ExtraUnreserved(age) == SumFunctionOnSet(cost, Unconfirmed \cup LandedSince(age))

\* _extra: what a gate of this age adds to what it read.
Extra(age) ==
    SumFunctionOnSet(cost, Unconfirmed \cup LandedSince(age)) + Estimate * Cardinality(Reserved)

\* The sum over a reading of the table.
Spent(reading) == SumFunction([r \in Requests |-> reading[r] * cost[r]])

\* first_refusal, for the account's daily quota.
Refuses(reading, age) == Spent(reading) + Extra(age) + Estimate > Quota

\* A gate notes the time before it reads ...
GateBegins(r) ==
    /\ stage[r] = "idle"
    /\ stage' = [stage EXCEPT ![r] = "gating"]
    /\ UNCHANGED <<waited, seen, ledger, counter, doubtful, writer, retry, flushing>>

\* The gate is over: its check is gone.
GateEnds(r, next) ==
    /\ stage' = [stage EXCEPT ![r] = next]
    /\ waited' = [waited EXCEPT ![r] = 0]
    /\ seen' = [seen EXCEPT ![r] = NothingRead]

\* ... reads the table ...
GateReads(r) ==
    /\ stage[r] = "gating"
    /\ stage' = [stage EXCEPT ![r] = "checked"]
    /\ seen' = [seen EXCEPT ![r] = counter]
    /\ UNCHANGED <<waited, ledger, counter, doubtful, writer, retry, flushing>>

\* ... may refuse on what it read (refusal) ...
GateRefuses(r) ==
    /\ stage[r] = "checked"
    /\ Refuses(seen[r], waited[r])
    /\ GateEnds(r, "ended")
    /\ UNCHANGED <<ledger, counter, doubtful, writer, retry, flushing>>

\* ... and, when admit checks again and does not, reserves in the same step.
Admit(r) ==
    /\ stage[r] = "checked"
    /\ ~ Refuses(seen[r], waited[r])
    /\ GateEnds(r, "running")
    /\ UNCHANGED <<ledger, counter, doubtful, writer, retry, flushing>>

\* The client leaves, another check refuses, or the request times out.
GateAbandoned(r) ==
    /\ stage[r] \in {"gating", "checked"}
    /\ GateEnds(r, "ended")
    /\ UNCHANGED <<ledger, counter, doubtful, writer, retry, flushing>>

\* Reservation.release, when the request has ended.
Release(r) ==
    /\ stage[r] = "running"
    /\ stage' = [stage EXCEPT ![r] = "ended"]
    /\ UNCHANGED <<waited, seen, ledger, counter, doubtful, writer, retry, flushing>>

-----------------------------------------------------------------------------
\* Recording and writing.

\* _start_write: the writer after it, given the retry timer and what is pending.
StartWrite(w, timer, pending) ==
    IF w = "none" /\ ~ timer /\ pending # {} THEN "started" ELSE w

\* record, before the request's reservation is released.
Record(r, c) ==
    /\ stage[r] = "running"
    /\ place[r] = "none"
    /\ place' = [place EXCEPT ![r] = "pending"]
    /\ cost' = [cost EXCEPT ![r] = c]
    /\ writer' = StartWrite(writer, retry, At("pending") \cup {r})
    /\ UNCHANGED <<gates, since, counter, doubtful, retry, flushing>>

Moved(from, to) == [r \in Requests |-> IF place[r] = from THEN to ELSE place[r]]

\* _write_pending takes everything pending as its batch ...
WriterTakes ==
    /\ writer = "started"
    /\ place' = Moved("pending", "writing")
    /\ writer' = "sent"
    /\ UNCHANGED <<gates, cost, since, counter, doubtful, retry, flushing>>

Added(batch) == [r \in Requests |-> IF r \in batch THEN counter[r] + 1 ELSE counter[r]]

\* ... whose transaction commits ...
Commits ==
    /\ writer = "sent"
    /\ counter' = Added(At("writing"))
    /\ writer' = "committed"
    /\ UNCHANGED <<gates, ledger, doubtful, retry, flushing>>

\* ... and the answer says so, or txid_status does: _land.
Landed ==
    /\ writer = "committed"
    /\ place' = Moved("writing", "landed")
    /\ since' = [r \in Requests |-> IF place[r] = "writing" THEN 0 ELSE since[r]]
    /\ writer' = "finishing"
    /\ UNCHANGED <<gates, cost, counter, doubtful, retry, flushing>>

\* The transaction failed or was aborted: the batch is pending again.
Failed ==
    /\ writer = "sent"
    /\ place' = Moved("writing", "pending")
    /\ retry' = TRUE
    /\ writer' = "finishing"
    /\ UNCHANGED <<gates, cost, since, counter, doubtful, flushing>>

\* Mutated form: a batch whose outcome nobody can tell is written again.
UnknownRetried ==
    /\ writer \in {"sent", "committed"}
    /\ place' = Moved("writing", "pending")
    /\ doubtful' = IF writer = "sent" THEN doubtful \cup {At("writing")} ELSE doubtful
    /\ retry' = TRUE
    /\ writer' = "finishing"
    /\ UNCHANGED <<gates, cost, since, counter, flushing>>

\* The answer to the COMMIT is lost and the database does not tell, or the
\* writing task is cancelled: _mark_unknown, and not written again.  The
\* transaction may commit later.
Unknown ==
    /\ writer \in {"sent", "committed"}
    /\ place' = Moved("writing", "unknown")
    /\ doubtful' = IF writer = "sent" THEN doubtful \cup {At("writing")} ELSE doubtful
    /\ writer' = "finishing"
    /\ UNCHANGED <<gates, cost, since, counter, retry, flushing>>

LateEnd(batch, commits) ==
    /\ batch \in doubtful
    /\ counter' = IF commits THEN Added(batch) ELSE counter
    /\ doubtful' = doubtful \ {batch}
    /\ UNCHANGED <<gates, ledger, writer, retry, flushing>>

\* Mutated form: the next write waits for the next record.
WriteFinishedIdle ==
    /\ writer = "finishing"
    /\ writer' = "none"
    /\ UNCHANGED <<gates, ledger, counter, doubtful, retry, flushing>>

\* _write_finished, the task's done callback.
WriteFinished ==
    /\ writer = "finishing"
    /\ writer' = StartWrite("none", retry, At("pending"))
    /\ UNCHANGED <<gates, ledger, counter, doubtful, retry, flushing>>

\* _retry_now.
RetryNow ==
    /\ retry
    /\ retry' = FALSE
    /\ writer' = StartWrite(writer, FALSE, At("pending"))
    /\ UNCHANGED <<gates, ledger, counter, doubtful, flushing>>

-----------------------------------------------------------------------------
\* flush, at shutdown.

FlushBegins ==
    /\ flushing = "no"
    /\ flushing' = "waiting"
    /\ UNCHANGED <<gates, ledger, counter, doubtful, writer, retry>>

\* One turn of its loop, while no write is in flight.
FlushTurn ==
    /\ flushing = "waiting"
    /\ writer = "none"
    /\ \/ /\ At("pending") = {}
          /\ flushing' = "over"
          /\ UNCHANGED <<writer, retry>>
       \/ /\ At("pending") # {} /\ retry
          /\ retry' = FALSE
          /\ flushing' = "pausing"
          /\ UNCHANGED writer
       \/ /\ At("pending") # {} /\ ~ retry
          /\ writer' = StartWrite(writer, retry, At("pending"))
          /\ UNCHANGED <<retry, flushing>>
    /\ UNCHANGED <<gates, ledger, counter, doubtful>>

FlushResumes ==
    /\ flushing = "pausing"
    /\ flushing' = "waiting"
    /\ UNCHANGED <<gates, ledger, counter, doubtful, writer, retry>>

FlushGivesUp ==
    /\ flushing = "waiting"
    /\ writer # "none" \/ At("pending") # {}
    /\ flushing' = "over"
    /\ UNCHANGED <<gates, ledger, counter, doubtful, writer, retry>>

Older(n) == IF n <= Window THEN n + 1 ELSE n

\* Time passes.  A gate is over, one way or the other, when the request times
\* out.
Tick ==
    /\ \A r \in Requests : stage[r] \in {"gating", "checked"} => waited[r] < Timeout
    /\ waited' = [r \in Requests |->
                    IF stage[r] \in {"gating", "checked"} THEN waited[r] + 1 ELSE waited[r]]
    /\ since' = [r \in Requests |-> IF place[r] = "landed" THEN Older(since[r]) ELSE since[r]]
    /\ UNCHANGED <<stage, seen, place, cost, counter, doubtful, writer, retry, flushing>>

Writes == WriterTakes \/ Commits \/ Landed \/ Failed \/ Unknown \/ WriteFinished

Next ==
    \/ \E r \in Requests :
        \/ GateBegins(r) \/ GateReads(r) \/ GateRefuses(r) \/ Admit(r)
        \/ GateAbandoned(r) \/ Release(r)
        \/ \E c \in Costs : Record(r, c)
    \/ Writes
    \/ \E batch \in doubtful, commits \in BOOLEAN : LateEnd(batch, commits)
    \/ RetryNow
    \/ FlushBegins \/ FlushTurn \/ FlushResumes \/ FlushGivesUp
    \/ Tick

\* A write ends, one way or another (its statements time out); the loop runs
\* the callbacks and timers that are due.
Fairness ==
    /\ WF_vars(Writes)
    /\ WF_vars(RetryNow)
    /\ WF_vars(FlushTurn)
    /\ WF_vars(FlushResumes)

Spec == Init /\ [][Next]_vars /\ Fairness

-----------------------------------------------------------------------------
\* There is no moment when a cost counts nowhere: whatever a gate read, and
\* however long ago, each cost recorded before it admits is in what it read, or
\* the ledger still adds it (_extra, _land, _mark_unknown).
GatesMissNothing ==
    \A r, q \in Requests :
        stage[r] = "checked" /\ place[q] # "none" =>
            seen[r][q] > 0 \/ q \in Unconfirmed \cup LandedSince(waited[r])

\* Requests that run at the same time do not overshoot the quota together, as
\* long as none costs more than its estimate (admit).
QuotaHeld ==
    (\A c \in Costs : c <= Estimate) =>
        SumFunction([r \in Requests |-> IF place[r] # "none" THEN cost[r]
                                        ELSE IF stage[r] = "running" THEN Estimate ELSE 0]) <= Quota

\* Failed and lost writes never charge an account twice, and what the ledger
\* stops counting is in the table (increment_user_costs, _write_pending).
CountedOnce ==
    \A r \in Requests :
        /\ counter[r] <= 1
        /\ place[r] \in {"none", "pending"} => counter[r] = 0
        /\ place[r] = "landed" => counter[r] = 1

Books == INSTANCE LedgerPromise WITH owed <- cost, charged <- counter,
                                     closed <- At("landed")

\* Record, the writer, its retries and the transactions it lost sight of keep the
\* promise of LedgerPromise: a recorded cost stands, is charged once at most
\* whenever its transactions commit, and leaves what the gates add only when it
\* is in the table, for good (_write_pending, _land, _mark_unknown).
LedgerKeepsPromise == Books!Spec

\* Every recorded cost is handed to a write, whatever else fails, unless the
\* process shuts down first: no state is left with costs pending and neither a
\* writer nor a timer (_start_write, _write_finished, _retry_now).
EveryCostTried ==
    \A r \in Requests : place[r] = "pending" ~> place[r] # "pending" \/ flushing = "over"
=============================================================================
