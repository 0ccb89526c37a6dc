----------------------------- MODULE BatchItems -----------------------------
(***************************************************************************)
(* One batch and the gateway processes that run its items                  *)
(* (serving/storage/batch_store.py and serving/batch/scheduler.py), from   *)
(* the moment the batch is runnable to its deletion.                       *)
(*                                                                         *)
(* The database part is the batch row (job), its counters, its items and   *)
(* their attempt records.  A transaction locks the batch row before its    *)
(* items, so it is one step; the exception is the heartbeat, which locks   *)
(* only items, and is therefore split into its update and its commit.      *)
(* The process part is `task`: what each process believes about an attempt *)
(* it claimed, from the claim until it has reported, died or given up.     *)
(*                                                                         *)
(* All items are of one model and one batch.  Pauses and next_attempt_at   *)
(* only delay a claim; a claim here comes at any time.  The owner has an   *)
(* enabled webhook, and the batch was stored with a phase (schema_version  *)
(* 2 or later).                                                            *)
(***************************************************************************)
EXTENDS Integers, FiniteSets

CONSTANTS Items,        \* the batch's requests
          Workers,      \* gateway processes
          NoWorker,     \* claimed_by IS NULL
          Cap,          \* the model's concurrency cap
          MaxAttempts,  \* BatchTimings.max_attempts
          MaxSeq,       \* bound: claims of one item
          Surfaces,     \* "inline" and "file" batches
          Windows,      \* "none" and "open": batches without and with expires_at
          ReportCosts   \* what a response says of its cost

ASSUME BatchAssumption ==
    /\ IsFiniteSet(Items) /\ Items # {}
    /\ NoWorker \notin Workers
    /\ Cap \in Nat \ {0}
    /\ MaxAttempts \in Nat \ {0}
    /\ MaxSeq \in Nat \ {0}
    /\ Surfaces \subseteq {"inline", "file"}
    /\ Windows \subseteq {"none", "open"}
    /\ ReportCosts \subseteq {"billed", "not_billed", "unknown"}

VARIABLES
    job,       \* the batch_jobs row: surface, status, phase, pending, row
    counts,    \* its counters
    item,      \* the batch_items rows
    attempt,   \* the batch_attempts rows, by item and attempt_seq: "absent",
               \* "open" (outcome IS NULL), "dispatched" (and dispatched_at set),
               \* or, once closed, its cost_status
    event,     \* a webhook event of the batch waits in the outbox
    window,    \* expires_at: "none", "open" or "over"
    reading,   \* a download holds a read lease
    renewing,  \* items whose leases an uncommitted heartbeat has extended
    task       \* the worker's side of each attempt

vars == <<job, counts, item, attempt, event, window, reading, renewing, task>>

Attempts == Items \X (1 .. MaxSeq)
OpenStatus == {"queued", "running"}
FinalStatus == {"completed", "failed", "cancelled", "expired"}
OpenAttempt == {"open", "dispatched"}
Costs == {"billed", "not_billed", "unknown"}
Counters == {"completed", "failed", "cancelled", "expired", "billed", "unknown"}
NoItem == [status |-> "deleted", attempts |-> 0, seq |-> 0, owner |-> NoWorker, lease |-> "none"]
NoTask == [stage |-> "none", worker |-> NoWorker, tries |-> 0]

Jobs == [surface : {"inline", "file"},
         status  : {"validating", "in_progress", "cancelling", "failed", "expired",
                    "completed", "cancelled"},
         phase   : {"runnable", "sealing", "sealed"},
         pending : FinalStatus \cup {"none"},
         row     : {"stored", "hidden", "gone"}]

TypeOK ==
    /\ job \in Jobs
    /\ counts \in [Counters -> Nat]
    /\ item \in [Items -> [status : OpenStatus \cup FinalStatus \cup {"deleted"},
                           attempts : 0 .. MaxSeq,
                           seq : 0 .. MaxSeq,
                           owner : Workers \cup {NoWorker},
                           lease : {"none", "live", "lapsed"}]]
    /\ attempt \in [Attempts -> {"absent"} \cup OpenAttempt \cup Costs]
    /\ event \in BOOLEAN
    /\ window \in {"none", "open", "over"}
    /\ reading \in BOOLEAN
    /\ renewing \in SUBSET Items
    /\ task \in [Attempts -> [stage : {"none", "claimed", "calling", "rejecting"},
                              worker : Workers \cup {NoWorker},
                              tries : 0 .. MaxSeq]]

-----------------------------------------------------------------------------
\* Settling: every transaction that moves an item or the batch ends with it.

\* _ITEM_VERDICTS: what the open items of a closed batch become.
Verdict(status) ==
    CASE status = "cancelling" -> "cancelled"
      [] status = "failed" -> "failed"
      [] status = "expired" -> "expired"
      [] OTHER -> "none"

\* _FINAL_STATUS.
Final(status) ==
    CASE status \in {"validating", "in_progress"} -> "completed"
      [] status = "cancelling" -> "cancelled"
      [] status \in {"failed", "expired"} -> status
      [] OTHER -> "none"

\* _EXPIRED_RUNNING_SQL, _CLAIM_EXPIRED_SQL.
Stale(its) == {i \in Items : its[i].status = "running" /\ its[i].lease = "lapsed"}
Queued(its) == {i \in Items : its[i].status = "queued"}

\* Mutated form: an item that runs does not keep its batch open.
OpenQueued(its) == {i \in Items : its[i].status = "queued"}

\* _HAS_OPEN_ITEMS_SQL.
Open(its) == {i \in Items : its[i].status \in OpenStatus}

\* _abandon_attempts, for the current attempts of the items of S: closed once,
\* with an unknown cost when the upstream call had begun.
Orphans(its, ats, S) == {i \in S : ats[<<i, its[i].seq>>] \in OpenAttempt}

Abandoned(its, ats, S) ==
    [a \in Attempts |->
        IF a[1] \in Orphans(its, ats, S) /\ a[2] = its[a[1]].seq
        THEN IF ats[a] = "dispatched" THEN "unknown" ELSE "not_billed"
        ELSE ats[a]]

UnknownOf(its, ats, S) ==
    Cardinality({i \in S : ats[<<i, its[i].seq>>] = "dispatched"})

\* Add n to counter c.
Plus(cs, c, n) == [cs EXCEPT ![c] = @ + n]

\* _finalize: an inline batch is sealed at once, with its event; a file batch
\* freezes its final status and waits for its sealer.
Finalized(j, final) ==
    IF j.surface = "file"
    THEN [j EXCEPT !.phase = "sealing", !.pending = final]
    ELSE [j EXCEPT !.phase = "sealed", !.pending = final, !.status = final]

\* _settle.  The items whose lease looks run out but is being extended by an
\* uncommitted heartbeat (Late) have their attempts closed from the unlocked
\* read; the update of the items then waits for the heartbeat to commit, finds
\* them renewed and leaves them running.  (A heartbeat that fails instead is
\* RenewFails, followed by this step.)
Settle(j, cs, its, ats) ==
    LET verdict == Verdict(j.status)
        closing == j.phase = "runnable" /\ verdict # "none"
        stale   == IF closing THEN Stale(its) ELSE {}
        late    == stale \cap renewing
        settled == IF closing THEN Queued(its) \cup (stale \ late) ELSE {}
        unknown == UnknownOf(its, ats, stale)
        its2 == [i \in Items |->
                    IF i \in settled THEN [its[i] EXCEPT !.status = verdict, !.lease = "none"]
                    ELSE IF late # {} /\ i \in renewing THEN [its[i] EXCEPT !.lease = "live"]
                    ELSE its[i]]
        n   == Cardinality(settled)
        cs2 == [cs EXCEPT !["unknown"]   = @ + unknown,
                          !["cancelled"] = IF verdict = "cancelled" THEN @ + n ELSE @,
                          !["failed"]    = IF verdict \in {"failed", "expired"} THEN @ + n ELSE @,
                          !["expired"]   = IF verdict = "expired" THEN @ + n ELSE @]
        ends == j.phase = "runnable" /\ Final(j.status) # "none" /\ Open(its2) = {}
    IN  /\ item' = its2
        /\ attempt' = Abandoned(its, ats, stale)
        /\ counts' = cs2
        /\ job' = IF ends THEN Finalized(j, Final(j.status)) ELSE j
        /\ event' = (event \/ (ends /\ j.surface = "inline"))
        /\ renewing' = IF late = {} THEN renewing ELSE {}
-----------------------------------------------------------------------------
\* create_batch, or publish_validated for an uploaded file: the batch as it
\* becomes runnable.  Requests of an inline batch may have failed admission;
\* when all have, the batch is final at once.
Init ==
    /\ \E surface \in Surfaces, failed \in SUBSET Items :
        /\ surface = "file" => failed = {}
        /\ LET j == [surface |-> surface, phase |-> "runnable", pending |-> "none",
                     status |-> IF surface = "inline" THEN "validating" ELSE "in_progress",
                     row |-> "stored"]
           IN  /\ job = IF failed = Items THEN Finalized(j, "completed") ELSE j
               /\ event = (failed = Items)
        /\ item = [i \in Items |->
                     [status |-> IF i \in failed THEN "failed" ELSE "queued",
                      attempts |-> 0, seq |-> 0, owner |-> NoWorker, lease |-> "none"]]
        /\ counts = [c \in Counters |->
                       IF c = "failed" THEN Cardinality(failed) ELSE 0]
    /\ attempt = [a \in Attempts |-> "absent"]
    /\ window \in Windows
    /\ reading = FALSE
    /\ renewing = {}
    /\ task = [a \in Attempts |-> NoTask]

Exists == job.row # "gone"

\* _claimable_job_sql.
Claimable ==
    /\ job.row = "stored"
    /\ job.phase = "runnable"
    /\ job.status \in {"validating", "in_progress"}
    /\ window # "over"

Live == {i \in Items : item[i].status = "running" /\ item[i].lease = "live"}

\* Mutated form: claims and deletes do not wait for a heartbeat.
ModelLockIgnored == TRUE

\* _CLAIM_LOCK_SQL: the model's advisory lock is free.  An uncommitted
\* heartbeat holds it.
ModelLock == renewing = {}

\* The attempt_seq of the next claim.
NextSeq(i) == item[i].seq + 1

\* claim_items: worker w claims the items S, queued or left behind by a lapsed
\* lease, as far as the model's live leases leave room.
Claim(w, S) ==
    /\ Claimable
    /\ ModelLock
    /\ S # {} /\ S \subseteq Queued(item) \cup Stale(item)
    /\ Cardinality(Live) + Cardinality(S) <= Cap
    /\ \A i \in S : item[i].seq < MaxSeq
    /\ item' = [i \in Items |->
                  IF i \in S THEN [status |-> "running", attempts |-> item[i].attempts + 1,
                                   seq |-> NextSeq(i), owner |-> w, lease |-> "live"]
                  ELSE item[i]]
    /\ attempt' = [a \in Attempts |->
                     IF a[1] \in S /\ a[2] = NextSeq(a[1])
                     THEN "open"
                     ELSE Abandoned(item, attempt, S \cap Stale(item))[a]]
    /\ counts' = Plus(counts, "unknown", UnknownOf(item, attempt, S \cap Stale(item)))
    /\ task' = [a \in Attempts |->
                  IF a[1] \in S /\ a[2] = NextSeq(a[1])
                  THEN [stage |-> "claimed", worker |-> w, tries |-> item[a[1]].attempts + 1]
                  ELSE task[a]]
    /\ job' = [job EXCEPT !.status = "in_progress"]
    /\ UNCHANGED <<event, window, reading, renewing>>

\* Time passes: a lease runs out.  A heartbeat still uncommitted does not
\* change the lease others see.
LeaseLapses(i) ==
    /\ Exists
    /\ item[i].lease = "live"
    /\ item' = [item EXCEPT ![i].lease = "lapsed"]
    /\ UNCHANGED <<job, counts, attempt, event, window, reading, renewing, task>>

\* The items worker w still works on (_in_flight, unsettled).
InFlight(w) ==
    {i \in Items : \E n \in 1 .. MaxSeq : /\ task[<<i, n>>].stage \in {"claimed", "calling"}
                                          /\ task[<<i, n>>].worker = w}

\* heartbeat: leases still live, of items it has in flight.
Renewable(w) ==
    {i \in InFlight(w) : /\ item[i].status = "running"
                         /\ item[i].owner = w
                         /\ item[i].lease = "live"}

\* heartbeat: its update, under the model's lock ...
Renew(w) ==
    /\ Exists
    /\ ModelLock
    /\ Renewable(w) # {}
    /\ renewing' = Renewable(w)
    /\ UNCHANGED <<job, counts, item, attempt, event, window, reading, task>>

\* ... its commit ...
RenewCommits ==
    /\ Exists
    /\ renewing # {}
    /\ item' = [i \in Items |-> IF i \in renewing THEN [item[i] EXCEPT !.lease = "live"]
                                ELSE item[i]]
    /\ renewing' = {}
    /\ UNCHANGED <<job, counts, attempt, event, window, reading, task>>

\* ... or the loss of its transaction.
RenewFails ==
    /\ Exists
    /\ renewing # {}
    /\ renewing' = {}
    /\ UNCHANGED <<job, counts, item, attempt, event, window, reading, task>>

-----------------------------------------------------------------------------
\* What a worker does with an attempt a = <<item, attempt_seq>> it claimed.

\* Mutated forms: a guard without the attempt, and one without the status.
HoldsNoSeq(a) ==
    /\ Exists
    /\ item[a[1]].status = "running"
    /\ item[a[1]].owner = task[a].worker

HoldsNoStatus(a) ==
    /\ Exists
    /\ item[a[1]].owner = task[a].worker
    /\ item[a[1]].seq = a[2]

\* _ITEM_GUARD: the item still runs under this worker's claim, at this attempt.
Holds(a) ==
    /\ Exists
    /\ item[a[1]].status = "running"
    /\ item[a[1]].owner = task[a].worker
    /\ item[a[1]].seq = a[2]

\* A write of the item waits for a heartbeat that has locked its row.
Writable(a) == Holds(a) /\ a[1] \notin renewing

\* mark_dispatched: the upstream call is about to begin.  A worker whose claim
\* is gone stops here (Refused).
MarkDispatched(a) ==
    /\ task[a].stage = "claimed"
    /\ task[a].tries <= MaxAttempts
    /\ Holds(a)
    /\ attempt[a] \in OpenAttempt
    /\ attempt' = [attempt EXCEPT ![a] = "dispatched"]
    /\ task' = [task EXCEPT ![a].stage = "calling"]
    /\ UNCHANGED <<job, counts, item, event, window, reading, renewing>>

\* _CLOSE_ATTEMPT_SQL: an attempt is closed once.
Closed(a, cost) ==
    IF attempt[a] \in OpenAttempt THEN [attempt EXCEPT ![a] = cost] ELSE attempt

\* The counters a report adds for its cost.
Billed(cs, cost) ==
    [cs EXCEPT !["billed"]  = IF cost = "billed" THEN @ + 1 ELSE @,
               !["unknown"] = IF cost = "unknown" THEN @ + 1 ELSE @]

\* complete_item.  The attempt's lease may have run out: nothing else has
\* claimed it, so the result counts.
CompleteItem(a, status, cost) ==
    /\ Writable(a)
    /\ Settle(job,
              Plus(Billed(counts, cost), status, 1),
              [item EXCEPT ![a[1]].status = status, ![a[1]].lease = "none"],
              Closed(a, cost))
    /\ UNCHANGED <<window, reading>>

\* A response, or a failure that is final: the caller's own, one past the
\* window, or one attempt too many.  The write is retried when its answer is
\* lost, and then finds the item final (ack = FALSE, then Refused).
Complete(a, status, cost, ack) ==
    /\ task[a].stage = "calling"
    /\ CompleteItem(a, status, cost)
    /\ task' = IF ack THEN [task EXCEPT ![a] = NoTask] ELSE task

\* Claimed once more after its last attempt never reported back: give up.
GiveUp(a, ack) ==
    /\ task[a].stage = "claimed"
    /\ task[a].tries > MaxAttempts
    /\ CompleteItem(a, "failed", "not_billed")
    /\ task' = IF ack THEN [task EXCEPT ![a] = NoTask] ELSE task

\* _RETRY_ITEM_SQL, _RELEASE_ITEM_SQL: item i queued again, unclaimed.
Unclaimed(i, attempts) ==
    [item EXCEPT ![i] = [status |-> "queued", attempts |-> attempts, seq |-> item[i].seq,
                         owner |-> NoWorker, lease |-> "none"]]

Requeued(j, cs, its, ats) == Settle(j, cs, its, ats)

\* retry_item: a failure that may pass.  (Whether the next try still fits the
\* window was decided before the write; the window may end in between.)
Retry(a, cost) ==
    /\ task[a].stage = "calling"
    /\ task[a].tries < MaxAttempts
    /\ Writable(a)
    /\ Requeued(job,
                Billed(counts, cost),
                Unclaimed(a[1], item[a[1]].attempts),
                Closed(a, cost))
    /\ task' = [task EXCEPT ![a] = NoTask]
    /\ UNCHANGED <<window, reading>>

\* release_item: the claim is handed back without spending its attempt.
ReleaseItem(a, dispatched) ==
    /\ Writable(a)
    /\ Requeued(job,
                IF dispatched THEN Plus(counts, "unknown", 1) ELSE counts,
                Unclaimed(a[1], IF item[a[1]].attempts > 0 THEN item[a[1]].attempts - 1 ELSE 0),
                Closed(a, IF dispatched THEN "unknown" ELSE "not_billed"))
    /\ UNCHANGED <<window, reading>>

\* The owner may not run now, the upstream asks to come back later, or the
\* process stops: `stop` reports a call that had begun as dispatched.
Release(a, dispatched) ==
    /\ task[a].stage \in {"claimed", "calling"}
    /\ dispatched => task[a].stage = "calling"
    /\ ReleaseItem(a, dispatched)
    /\ task' = [task EXCEPT ![a] = NoTask]

\* The owner's key no longer authenticates: release the item ...
Reject(a) ==
    /\ task[a].stage = "claimed"
    /\ task[a].tries <= MaxAttempts
    /\ \/ ReleaseItem(a, FALSE)
       \/ ~ Holds(a) /\ UNCHANGED <<job, counts, item, attempt, event, window, reading, renewing>>
    /\ task' = [task EXCEPT ![a].stage = "rejecting"]

\* Mutated form: a batch that is closing already is closed again.
ClaimingOpen == job.phase = "runnable"

Claiming == job.status \in {"validating", "in_progress"} /\ job.phase = "runnable"

\* ... then fail the batch (fail_batch), unless it has ended or closed meanwhile.
FailBatch(a) ==
    /\ task[a].stage = "rejecting"
    /\ task' = [task EXCEPT ![a] = NoTask]
    /\ IF Exists /\ Claiming
       THEN Settle([job EXCEPT !.status = "failed"], counts, item, attempt)
       ELSE UNCHANGED <<job, counts, item, attempt, event, renewing>>
    /\ UNCHANGED <<window, reading>>

\* The worker finds its claim gone, and records nothing.
Refused(a) ==
    /\ \/ task[a].stage = "claimed" /\ (~ Holds(a) \/ attempt[a] \notin OpenAttempt)
       \/ task[a].stage = "calling" /\ ~ Holds(a)
    /\ task' = [task EXCEPT ![a] = NoTask]
    /\ UNCHANGED <<job, counts, item, attempt, event, window, reading, renewing>>

\* The task raises, or its process dies: the item is left to its lease.
Dies(a) ==
    /\ task[a].stage # "none"
    /\ task' = [task EXCEPT ![a] = NoTask]
    /\ UNCHANGED <<job, counts, item, attempt, event, window, reading, renewing>>

-----------------------------------------------------------------------------
\* The batch as a whole.

\* cancel_batch.
Cancel ==
    /\ job.row = "stored"
    /\ Claiming
    /\ Settle([job EXCEPT !.status = "cancelling"], counts, item, attempt)
    /\ UNCHANGED <<window, reading, task>>

\* Time passes: the completion window ends.
WindowEnds ==
    /\ Exists
    /\ window = "open"
    /\ window' = "over"
    /\ UNCHANGED <<job, counts, item, attempt, event, reading, renewing, task>>

\* sweep, step 1.
SweepExpire ==
    /\ Exists
    /\ Claiming
    /\ window = "over"
    /\ Settle([job EXCEPT !.status = "expired"], counts, item, attempt)
    /\ UNCHANGED <<window, reading, task>>

\* Mutated form: the sweep overlooks running items whose lease ran out.
SettleCandidateFinished ==
    /\ job.phase = "runnable"
    /\ Final(job.status) # "none"
    /\ Open(item) = {}

\* _SWEEP_SETTLE_CANDIDATES_SQL.
SettleCandidate ==
    /\ job.phase = "runnable"
    /\ \/ Final(job.status) # "none" /\ Open(item) = {}
       \/ Verdict(job.status) # "none" /\ Stale(item) # {}

\* sweep, step 2.
SweepSettle ==
    /\ Exists
    /\ SettleCandidate
    /\ Settle(job, counts, item, attempt)
    /\ UNCHANGED <<window, reading, task>>

\* commit_seal, by the holder of the sealing lease.
CommitSeal ==
    /\ job.row = "stored"
    /\ job.phase = "sealing"
    /\ job' = [job EXCEPT !.phase = "sealed", !.status = job.pending]
    /\ event' = TRUE
    /\ UNCHANGED <<counts, item, attempt, window, reading, renewing, task>>

\* take_read_lease, and the end of the last download.
StartReading ==
    /\ job.row = "stored"
    /\ ~ reading
    /\ reading' = TRUE
    /\ UNCHANGED <<job, counts, item, attempt, event, window, renewing, task>>

StopReading ==
    /\ Exists
    /\ reading
    /\ reading' = FALSE
    /\ UNCHANGED <<job, counts, item, attempt, event, window, renewing, task>>

\* The batch row goes, and its items and attempts with it (ON DELETE CASCADE).
\* Workers still on it will find nothing to write: their tasks are left out.
Erase ==
    /\ job' = [job EXCEPT !.row = "gone"]
    /\ item' = [i \in Items |-> NoItem]
    /\ attempt' = [a \in Attempts |-> "absent"]
    /\ counts' = [c \in Counters |-> 0]
    /\ task' = [a \in Attempts |-> NoTask]
    /\ renewing' = {}
    /\ reading' = FALSE
    /\ UNCHANGED window

\* delete_batch: refused while a lease is live; the rows stay, hidden, while a
\* download reads them.  Its undelivered event goes with it.
Delete ==
    /\ job.row = "stored"
    /\ ModelLock
    /\ Live = {}
    /\ event' = FALSE
    /\ \/ ~ reading /\ Erase
       \/ /\ reading
          /\ job' = [job EXCEPT !.row = "hidden"]
          /\ UNCHANGED <<counts, item, attempt, window, reading, renewing, task>>

\* _PURGE_ONE_SQL: a finished batch past its retention, or one whose deletion
\* waited for a download.
Purge ==
    /\ Exists
    /\ \/ job.row = "hidden"
       \/ job.status \in FinalStatus /\ job.phase \in {"runnable", "sealed"}
    /\ ~ reading
    /\ Live = {}
    /\ Erase
    /\ UNCHANGED event

\* delete_user_batches: everything of the user goes, running or not.
DeleteUser ==
    /\ Exists
    /\ Erase
    /\ event' = FALSE

WorkerStep(a) ==
    \/ MarkDispatched(a)
    \/ \E ack \in BOOLEAN :
         \/ \E status \in {"completed", "failed"}, cost \in ReportCosts : Complete(a, status, cost, ack)
         \/ GiveUp(a, ack)
    \/ \E cost \in ReportCosts : Retry(a, cost)
    \/ \E dispatched \in BOOLEAN : Release(a, dispatched)
    \/ Reject(a)
    \/ FailBatch(a)
    \/ Refused(a)
    \/ Dies(a)

Next ==
    \/ \E w \in Workers : Renew(w) \/ \E S \in SUBSET Items : Claim(w, S)
    \/ \E i \in Items : LeaseLapses(i)
    \/ RenewCommits
    \/ RenewFails
    \/ \E a \in Attempts : WorkerStep(a)
    \/ Cancel
    \/ WindowEnds
    \/ SweepExpire
    \/ SweepSettle
    \/ CommitSeal
    \/ StartReading
    \/ StopReading
    \/ Delete
    \/ Purge
    \/ DeleteUser

\* A lease nobody renews runs out; a heartbeat's transaction ends; an attempt
\* ends (its call has a timeout, its process may die); time passes; some
\* process sweeps.
Unattended(i) == i \notin InFlight(item[i].owner)

Fairness ==
    /\ \A i \in Items : WF_vars(Unattended(i) /\ LeaseLapses(i))
    /\ WF_vars(RenewCommits \/ RenewFails)
    /\ \A a \in Attempts : WF_vars(WorkerStep(a))
    /\ WF_vars(WindowEnds)
    /\ WF_vars(SweepExpire)
    /\ WF_vars(SweepSettle)

Spec == Init /\ [][Next]_vars

FairSpec == Spec /\ Fairness

-----------------------------------------------------------------------------
Count(status) == Cardinality({i \in Items : item[i].status = status})
Recorded(cost) == Cardinality({a \in Attempts : attempt[a] = cost})

\* The attempt record is fenced by attempt_seq: claims number attempts without
\* gaps or reuse, everything but the current attempt is closed, and an attempt
\* is open only while its item runs under it.
OneOpenAttempt ==
    \A a \in Attempts :
        /\ attempt[a] = "absent" <=> a[2] > item[a[1]].seq
        /\ attempt[a] \in OpenAttempt => a[2] = item[a[1]].seq /\ item[a[1]].status = "running"
        /\ task[a].stage \in {"claimed", "calling"} /\ a[2] = item[a[1]].seq =>
             item[a[1]].owner \in {task[a].worker, NoWorker}

\* The counters the owner sees agree with the items (complete_item, _settle).
CountsMatchItems ==
    /\ counts["completed"] = Count("completed")
    /\ counts["failed"] = Count("failed") + Count("expired")
    /\ counts["cancelled"] = Count("cancelled")
    /\ counts["expired"] = Count("expired")

\* No attempt's cost is lost: the batch's known and unknown costs cover every
\* attempt recorded as billed or unknown, and exactly those until the batch
\* closes.
NoCostLost ==
    /\ counts["billed"] >= Recorded("billed")
    /\ counts["unknown"] >= Recorded("unknown")
    /\ job.status \in {"validating", "in_progress"} =>
         counts["billed"] = Recorded("billed") /\ counts["unknown"] = Recorded("unknown")

\* Recording an attempt twice changes nothing the second time: the batch's cost
\* counters are the sum over its attempt records.
CostsExact ==
    counts["billed"] = Recorded("billed") /\ counts["unknown"] = Recorded("unknown")

\* A model's cap holds across processes: never more live leases than it.
LiveWithinCap == Cardinality(Live) <= Cap

\* Once a batch is cancelled, failed or expired nothing of it waits to run: a
\* late retry or release takes the verdict instead of requeueing the item.
NothingQueuedAfterVerdict ==
    Verdict(job.status) # "none" => Queued(item) = {}

\* A batch is finalized only when every item is final, and its final status
\* says what happened: only a cancelled batch has cancelled items, only an
\* expired one expired items.
FinalizedIsComplete ==
    Exists /\ job.phase # "runnable" =>
        /\ Open(item) = {}
        /\ job.pending \in FinalStatus
        /\ counts["completed"] + counts["failed"] + counts["cancelled"] = Cardinality(Items)
        /\ Count("cancelled") > 0 => job.pending = "cancelled"
        /\ Count("expired") > 0 => job.pending = "expired"
        /\ job.phase = "sealed" => job.status = job.pending

\* Nothing is ever re-created for a deleted batch: no event of it waits.
NoEventOnceDeleted == job.row = "hidden" => ~ event

\* A final item, and the results of a finalized batch, never change again while
\* the batch exists.
ResultsNeverChange ==
    [][Exists' =>
         /\ \A i \in Items : item[i].status \in FinalStatus => item'[i].status = item[i].status
         /\ job.phase # "runnable" => /\ item' = item
                                      /\ job'.pending = job.pending
                                      /\ counts' = counts]_vars

\* A cancel, a failure or an expiry is never undone, neither by a late report
\* nor by another closing of the batch, and a sealed batch stays sealed.
VerdictStands ==
    [][/\ Verdict(job.status) # "none" => job'.status \in {job.status, Verdict(job.status)}
       /\ job.phase = "sealing" => job'.phase # "runnable"
       /\ job.phase = "sealed" => job'.phase = "sealed" /\ job'.status = job.status]_vars

\* What the owner of the batch sees of it, and that it keeps the promise of
\* BatchPromise: _finalize fixes the outcome only over final items, and neither
\* a late report nor a sweep changes a result or an outcome afterwards.
Promise == INSTANCE BatchPromise
           WITH result  <- [i \in Items |-> IF item[i].status \in OpenStatus THEN "open"
                                            ELSE item[i].status],
                outcome <- job.pending

KeepsPromise == Promise!Spec

\* A batch with a window ends: whatever its workers do, it is finalized or
\* deleted.
WindowedBatchEnds == window # "none" ~> (job.phase # "runnable" \/ ~ Exists)

\* A batch closed by a cancel or a failed owner ends too, with no window.
ClosedBatchEnds == Verdict(job.status) # "none" ~> (job.phase # "runnable" \/ ~ Exists)
=============================================================================
