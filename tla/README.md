# Verification of the gateway

TLA+ models of the parts of the hybridInference gateway in which processes,
tasks, timers and transactions meet: TLC checks them on small instances, TLAPS
proves their safety properties for every instance.

    tlc -workers 2 -config BatchItems.cfg MCBatchItems
    tlapm BatchItemsProofs.tla

`PROJECT.json` lists the components, the runs, the source lines each definition
models, the hazards and the theorems.

## The system

A self-hosted gateway in front of LLM providers: FastAPI on one asyncio loop,
PostgreSQL behind it. A request passes, in this order,

1. the **gate** (`servers/auth.py`): the key is looked up, the account's spend
   is read, and a request over a limit is refused;
2. **admission** (`servers/concurrency.py`): a slot of the user, and a
   reservation in the **spend ledger** (`spend_ledger.py`);
3. a **router** (`routing/`), which picks an endpoint that the **circuit
   breaker** (`endpoint_health.py`) admits, and claims it;
4. an **adapter** (`adapters/`), which takes a key from the **key pool** and a
   slot of the **outbound limiter** (`upstream_limiter.py`) and calls upstream;
5. back: the outcome goes to the breaker and the limiter, the cost to the
   ledger, which writes it to the counters in the background.

**Batches** take steps 2 to 5 from a scheduler in each process
(`batch/scheduler.py`) which claims items from shared tables
(`storage/batch_store.py`) under leases, reports their results, and sweeps.
Around them: validation of uploaded files, sealing of result files, webhooks,
idempotent creation. Beside the requests run the live configuration, alerting
and its history, caches, the erasure fence, and the admin console.

Production runs one gateway process; the batch tables are written for several.

## Inventory

| Part | Source | State |
|---|---|---|
| Outbound limiter, bucket | `adapters/upstream_limiter.py` | `UpstreamLimiter`, proved |
| Outbound limiter, engine gate | same | `EngineGate`, proved |
| Batch items, claims, leases, settling | `storage/batch_store.py`, `batch/scheduler.py` | `BatchItems`, `BatchPromise`, proved |
| Batch validation and sealing, downloads | `batch/validation.py`, `batch/delivery.py`, `storage/batch_store.py` | `BatchWork`, proved |
| Webhook outbox | `batch/webhooks.py`, `storage/batch_webhook_store.py` | `WebhookOutbox`, composed with `BatchWork` in `FileBatch`, `EventPromise`, proved |
| Batch admission, idempotency | `storage/batch_store.py` | `BatchAdmission`, proved |
| Circuit breaker and its pages | `routing/endpoint_health.py` | `CircuitBreaker`, proved |
| Spend ledger and gates | `spend_ledger.py`, `servers/auth.py`, `quota.py` | `SpendLedger`, `LedgerPromise`, proved |
| User concurrency, interactive load | `servers/concurrency.py`, `batch/interactive_load.py` | `UserSlots`, proved |
| Key pool and rotation | `adapters/key_pool.py`, `adapters/openai_compat.py` | `KeyPool`, proved |
| Hedged requests | `routing/routewise/hedging.py` | `HedgedStream`, `HedgedCall`, proved |
| Hard delete, erasure fence, log writes | `storage/erasure_fence.py`, `storage/postgres_log.py`, `routers/admin/users.py` | `ErasureFence`, proved |
| Slow admin views | `routers/admin/_refreshing_cache.py`, `storage/admin_view_results.py` | `AdminViews`, proved |
| Router fallback, alert transitions, alert history, live configuration | `routing/routers.py`, `observability/`, `config/` | not modelled, see below |
| Adapters' wire formats, HTTP handlers, console, pricing, analytics, RAG, frontend | | not modelled: I/O and conversion, no protocol between parts |

"Proved" is said of the safety properties, invariants and action properties
alike. Liveness is checked by TLC alone.

## Modules

### UpstreamLimiter

One bucket (provider and key) of the outbound limiter. State: the AIMD limit
and success count, `in_flight`, the deque of waiters, and of each task whether
it waits, was granted, was interrupted or holds a slot. An asyncio callback
that awaits nothing is one step; the step between a grant (`set_result`) and
the waiter's resumption is what the module is about: a timeout or a
cancellation may come in between (`Interrupt`, then `AbandonGranted`).
`ReplaceLoop` is `rebind_loop`.

### BatchItems

One batch from the moment it is runnable: its row, counters, items and attempt
records, and of each attempt what the claiming process believes (`task`). A
store method is one step because it locks the batch row first; `heartbeat`
locks only items and is therefore split into `Renew` and its commit. Every
write of an item ends in `Settle`, as in the code. A process's death is `Dies`;
the lost answer of `complete_item` is `ack = FALSE`, after which the repeated
call finds the item final. `Settle` against an uncommitted heartbeat is one
step in which the heartbeat commits between `_settle`'s two statements.

Items are of one model. Pauses and `next_attempt_at` only delay claims, and
claims here come at any time. The owner has an enabled webhook. Batches stored
before phases existed (schema version 1) are left out.

### BatchPromise

What the owner is promised, with two variables: a result per request and one
outcome. `BatchItems` implements it under `result <- item statuses`,
`outcome <- pending_terminal_status`.

### CircuitBreaker

One endpoint. Callers begin a dispatch (free, as the probe, or pinned past the
breaker), record any number of outcomes and end, or vanish without ending. Time
is counted in ticks for the cooldown and the probe's deadline. Of the alerting
the module keeps what the breaker holds: the mute, the gap, the in-flight guard
with its generation, and the throttle of the credential page. Whether a failure
trips by availability, names a spent plan or is a credential error, and the
paging policy, are inputs.

### SpendLedger

One account with a daily quota, its requests, and the one writer task. The
sums of the ledger are kept apart by request (`place`). A gate notes the time,
reads the table and is admitted in three steps. A write commits and is
confirmed in two; it may fail, be cancelled, or lose its answer, in which case
the transaction may still commit later (`LateEnd`). The store is the PostgreSQL
one, which writes a batch in one transaction. The request timeout bounds a
gate's age.

### LedgerPromise

What the ledger promises of each cost, with three variables: what a request
cost, how often that is in the table, and which costs the ledger no longer adds
to what a gate reads. A cost is recorded once and stands, is charged once at
most and for good, and is closed only when it is charged. `SpendLedger`
implements it under `owed <- cost`, `charged <- counter`,
`closed <- At("landed")`; a cost whose write nobody could confirm stays open.

### EngineGate

The other half of the outbound limiter: the hold on one local engine. A
dispatch waits in line until fewer than the hold's limit of the engine's
dispatches lack a first token. A dispatch with a queue
deadline that passes gives up its wait (`Leave`); one without a deadline is sent
when its wait times out (`Overflow`), the one way over the limit. An event loop
that is replaced begins a new `epoch`; places of an older one are not counted.

### BatchWork, WebhookOutbox, FileBatch

`BatchWork` is one file batch around the running of its items: work leases,
staging of lines chunk by chunk, publication, rendering and sealing, downloads
under a read lease, cancellation, expiry, deletion. Each step is a transaction
of the store or what a worker does between two. A lease may run out under its
holder, who goes on (`LeaseRunsOut`), and a process may die (`ProcessDies`).
`WebhookOutbox` is one owner's webhook and the event of one batch, claimed,
sent, retried and given up by senders that stall. `FileBatch` joins the actions
that are one transaction in the code: sealing and the event, deletion and the
event, erasure of everything.

### EventPromise

What the outbox promises of the event of a batch, with two variables: what
became of it and how often it was posted. A batch announces its end once or not
at all, the event is posted at most `MaxAttempts` times, counts as delivered only
if it was posted, and its fate stands until it is removed, which is for good. A
late sender may post once more what another has delivered or the owner has
removed: the outbox delivers at least once, and the promise says so. `FileBatch`
implements it under `tries <- sent` and `outcome <- EventOutcome`, the status of
the event, or "gone" where a batch that is sealed or deleted has none.

### BatchAdmission

How batches come into being: creates under idempotency keys that are retried
and run at the same time, caps, the input file against garbage collection, and
the erasure of the account. A create looks its key up without a lock and later
runs its transaction in two steps, the checks and the commit. A batch's later
life is reduced to the columns the caps and records read. `dayPast` counts the
day of a record from the batch's end or deletion. The record's clock starts at
`expired_at`, so this assumes that requests which run on after the window, and
the sealing, take less than a day.

### HedgedStream, HedgedCall

One request of a `HedgedAdapter`. The state of each is one record, and what runs
between two awaits is one step: in `HedgedStream` a `Round` of the race is put
together from the parts of the loop body (`AfterTimer`, `AfterPrimary`,
`Decide`), each a function of the record. A losing backup is handed to a task
of its own (`cleanup`). The caller may leave during the race (`CancelRace`),
during the stream (`StreamEnds`), and again while generators are closed
(`CloseNext(TRUE)`). A race deadline is taken to be configured. Which backup is
chosen, and when there is none, is an input.

### KeyPool

The keys of one route, the bindings of callers to keys, and the requests that
rotate through them. The pool's methods are single steps (they hold its lock);
a request acquires, calls and releases in separate ones, while an admin adds,
removes and reserves keys. A mute ends at any time. `Failing` counts failures up
to the one that makes a difference.

### UserSlots

The requests of one user from `enforce_user_concurrency` and
`enforce_count_tokens_concurrency`: the limits are read (an await), the slot is
resized and taken, the cost reserved, the body read before or after, the request
counted as load on its model, which an auto model changes later, and everything
is given back however the request ends.

### ErasureFence

Hard deletes, resumes and log writes of any number of accounts, over two
databases. A deleter checks, claims (taking over an older claim), asks for the
exclusive lock, fences and purges in one transaction, and removes the user row;
it may fail, lose the answer of its commit, or die at every step. A writer takes
shared locks one by one, reads the fence and inserts, and commits. `overtaken`
is a history variable: accounts fenced by a deleter that had lost its claim.

### AdminViews

The results of one slow admin view: a generation that a delete moves on, the
stored row, each server's memory and computation, and requests that are served,
wait, adopt the stored row, or start a refresh. A delete here is one that removed
rows, the only kind that clears. Deletes may come between any two steps of a
computation and of a request; a result carries the number of deletes its data
has seen (`epoch`), which the properties compare.

`MC<Component>` gives TLC symmetry sets, or a variable `focus` that chooses one
of several sides of a model: a side fixes what the others are about. The proofs
are in modules of their own, listed under Proofs.

## Runs

| Run | Instance | Shows |
|---|---|---|
| `outbound` | a bucket with 4 tasks, limit 1 to 3, probe interval 2; or a gate with 3 dispatches, limits 1 and 2, 2 loops; 32,136 states | slots and places conserved; a bucket grants in order and within its limit, and its waits end; a gate's limit is passed only by a timeout |
| `batch_items` | 2 items, 1 worker, cap 1, 2 claims each, symmetry; 287,933 states | counters equal the items; cap on live items; results stand; final only when complete; `BatchItems` implements `BatchPromise` |
| `batch_attempts` | 1 item, 2 workers, 2 claims, all costs, both surfaces, with and without window; 90,895 states | no cost is lost; batches with a window, and closed ones, end |
| `file_batch` | 2 processes, 2 lines, 2 deliveries; one side has a fault of a worker and downloads, the other a webhook and a stall of a sender; 58,484 states | the whole file runs or nothing; published results are complete; `FileBatch` implements `EventPromise`; work and event end |
| `batch_admission` | 2 clients, 1 key, 2 batches, 2 lines, both caps, symmetry; 87,580 states | one batch per key; cap on queued requests; input held; an erased account stays empty |
| `circuit_breaker` | 3 callers, threshold 2, cooldown 2, 1 page; 84,064 states | one live probe; clean recovery; a credential page exactly during rejections; the endpoint is not locked out |
| `spend_ledger` | 3 requests, costs 1 and 2, quota 4, window 1, timeout 1; 258,231 states | gates miss no cost; quota; `SpendLedger` implements `LedgerPromise`; every recorded cost is handed to a write |
| `serving` | see below; 124,910 states | hedging, key pool, user slots, hard deletes and admin views |
| `batch_costs` | 1 item, 1 worker | violation: a cost can be counted twice |
| `batch_deleted_event` | 1 item, 1 worker | violation: a deleted batch can raise an event |
| `spend_stale_gate` | 2 requests, timeout 3, window 1 | violation: a gate older than the window can miss a cost |
| `resume_during_delete` | 1 account, 2 deleters, 1 resume | violation: an active account can be fenced and purged |

`serving` explores parts that share no state one at a time (`focus`):

| Side | Instance | Properties |
|---|---|---|
| `stream` | 2 checkpoints | the backup's capacity is held while its stream is open (`CapacityHeldWhileOpen`); the race ends though both providers hang (`StreamRaceEnds`) |
| `call` | 2 checkpoints | when a call is over nothing of it runs on, and the backup's capacity is released (`NothingLeftRunning`) |
| `keys`, `admin` | 2 slots, 2 roles, 2 requests, 1 free failure | a request takes the last key of its role only after more failures in a row than are free (`LastKeyGoesLast`) |
| `slots` | 2 requests, 2 models, caps 0 to 2 | slots, load and reservations are what the requests in flight hold (`HeldByRequests`) |
| `races`, `locks` | 2 accounts, 2 deleters, 1 resume, 2 writers | no row of an erased account (`NoRowOfErased`); no return of one unless the claim was lost (`ResumedOnlyIfOvertaken`); no deadlock of locks (`LockHoldersMove`) |
| `views`, `restores` | 2 servers, 2 requests, 2 attempts, up to 2 deletes | no request is served what a delete it has seen removed (`NothingErasedServed`) |

The runs hold the properties that need a search. Those that TLAPS proves for
every instance and that say less beside the others (`QueuedOnlyWhenFull`,
`QueueMatchesTasks`, `OneOpenAttempt`, `NothingQueuedAfterVerdict`,
`VerdictStands`, `GuardedWhileSending`, `GoneIsFenced`, the type invariants of
the limiter, the batch, the breaker and the ledger) are left to the proofs.
`GateTypeOK` is part of a proved invariant. `WorkTypeOK`, `AdmissionTypeOK`,
`PoolTypeOK` and `SlotsTypeOK` describe the state for a reader: no run checks
them, and the proofs state the types they need themselves.

### Bounds

- Limiter: four tasks fill a limit of three and leave one waiting; a limit of
  one leaves three in the queue, enough for one to be overtaken. A probe
  interval of two makes the limit both grow and shrink. Three dispatches give a
  gate one that holds, one first in line and one behind it; `MaxEpoch` bounds
  how often the loop is replaced.
- Batch: two items are the fewest of which one is settled while another is
  open; two workers the fewest of which one takes over from another while it is
  still alive. Two items and two workers are not explored together: items
  interact through the cap and the counters only, workers through one item's
  attempts only. A single worker name also stands for a restarted process.
  `MaxSeq` caps `attempt_seq`, which the code leaves unbounded because takeovers
  do not count as attempts.
- File batch: two lines are the fewest of which one is staged or rendered when
  a process stalls. `MaxFaults` and `MaxStalls` are one each: a fault is a
  stall past the lease, a death or a failed authentication, and one stall is
  enough for a takeover with the old holder still at work.
- Admission: two clients race for one key or for the last room under a cap; the
  caps make each of the two the tighter one once.
- Breaker: three callers give a probe, a lapsed probe and a pinned request at
  once. A threshold of two separates a failure from a trip, a cooldown of two a
  fresh timer from a running one.
- Ledger: three requests give one gate that reads while a second is being
  written and a third is recorded into the next batch. With an estimate of 2
  and a quota of 4 two requests fit by reservation and not always by cost.
- Serving: two checkpoints are one that finds no backup and a later one. Two
  slots are a key and its alternative; in `keys` the second request has the
  lowest role and no binding, in `admin` no failure is counted. A row that
  names two accounts takes two locks, the fewest with an order. `MaxDeletes` of two
  makes a computation superseded on both of its attempts; the longer
  interleavings, in `views`, see one delete.

Deadlock is not checked where the system really stops: a deleted batch, a
hedged request that is over, an owner who is erased.

### Fairness

- `UpstreamLimiter`: the loop runs ready callbacks, and calls end because the
  adapters bound them. The bucket's acquisition timeout is not relied on.
- `BatchItems`: an attempt has a timeout (`scheduler.py:146`) or its process
  dies; a lease that no living worker renews runs out; some process sweeps. No
  fairness of claims, of the owner, or of successful calls.
- `FileBatch`: processes poll and run their tasks, leases run out and retries
  fall due with time, the sweep runs. Nothing is assumed of the owner or of the
  receiver of an event.
- `CircuitBreaker`: time passes. Nothing is assumed of the callers.
- `SpendLedger`: statements time out, and due callbacks run. Nothing is assumed
  of requests.
- `HedgedStream`: the loop runs ready tasks, timers fire, and a stream that won
  ends. A provider may hang through the race.
- `EngineGate`, `BatchAdmission`, `HedgedCall`, `KeyPool`, `UserSlots`,
  `ErasureFence`, `AdminViews`: none, and no liveness is claimed. A writer that
  waits for a lock is served in queue order by PostgreSQL, which is not modelled;
  `LockHoldersMove` says instead that someone can always move.

### Findings

Four runs show the code doing other than its comments say. They are quoted in
full in `PROJECT.json`.

1. `batch_costs`. `batch_store.py:49`: "Recording an attempt twice changes
   nothing the second time." `_settle` reads lapsed items without a lock,
   closes their attempts as of unknown cost and counts them. If a heartbeat of
   such an item commits in between, the item stays running, and its report adds
   the cost to the batch again.
2. `batch_deleted_event`. `batch_store.py:1644`: "nothing is ever re-created for
   a deleted batch". A batch whose deletion waits for a download may still be
   finalized, and `_finalize` enqueues an event.
3. `spend_stale_gate`. `spend_ledger.py:60`: a gate older than the window counts
   "every confirmed write still kept, the conservative answer." The writes that
   were confirmed after its read and since forgotten are counted nowhere. It
   takes a request timeout above the window of 300 s.
4. `resume_during_delete`. `users.py:1187`: "hard_delete_user_data revalidates
   that the account is still soft-deleted *under the exclusive advisory lock*.
   If a concurrent resume won first and reactivated the user, it raises
   HardDeleteStateChanged." It does not look at the user at all
   (`postgres_log.py:1143` says so) and relies on the claim. A second attempt
   that takes the claim over, fails before the first one asks for the lock, and
   releases it, lets a resume through; the first attempt fences and purges the
   account all the same, just before or just after the resume.
   `ResumedOnlyIfOvertaken` shows that it takes an attempt that lost its claim.

### Remarks

What the properties had to leave room for, without a line in the repository that
says otherwise, or with one that is a matter of reading:

- The cap on unfinished batches (`batch_store.py:1357`) does not count an expired
  batch whose requests still run, and counts it again while it is sealed, so the
  number may pass the cap by such batches. No run checks that cap.
- `hedging.py:186`: "Provider capacity remains held until the generator/task has
  actually stopped." A caller that leaves while generators are being closed ends
  the loop before the backup's turn, and the capacity is released with the
  generator left to the garbage collector (`cut`).
- When both calls of a hedged request end in the same wait and the backup's is
  looked at first and won, the primary's failure is not recorded. A cancellation
  that arrives while a cancelled task is awaited is swallowed with it.
- Whether a key is the last one is judged for the role of the request that
  fails: a caller of a higher role that has another key may mute the only key of
  a lower role. `LastKeyGoesLast` speaks of the caller's own role.

## Proofs

Every safety property of the passing runs, invariant or action property, and the
refinements of `BatchPromise`, `EventPromise` and `LedgerPromise`, are theorems
for every value of the constants. The one hypothesis beyond the assumptions named `...Assumption` in the modules is
`Timeout <= Window`, of two theorems on the ledger.

| Module | Theorem | States |
|---|---|---|
| `OutboundProofs` | `LimiterTypeCorrect`, `LimiterConservesSlots`, `LimiterWakesQueue`, `LimiterQueueExact` | `TypeOK`, `SlotsConserved`, `QueuedOnlyWhenFull`, `QueueMatchesTasks` |
| | `LimiterGrantsWithinLimit`, `LimiterServesInOrder` | the action properties `GrantsWithinLimit`, `FirstComeFirstServed` |
| | `EveryPlaceHasOneOwner` | `PlacesConserved` |
| | `LimitPassedOnlyByTimeout` | the action property `OverLimitOnlyByTimeout` |
| `BatchItemsProofs` | `BatchTypeCorrect`, `BatchAttemptsFenced`, `BatchNothingQueued` | `TypeOK`, `OneOpenAttempt`, `NothingQueuedAfterVerdict` |
| | `BatchVerdictStands` | the action property `VerdictStands` |
| | `BatchKeepsPromise` | refinement: `Spec` implies the specification of `BatchPromise` |
| `BatchTallyProofs` | `BatchLiveWithinCap`, `BatchCountersAgree`, `BatchFinalizedComplete`, `BatchCostsCovered` | `LiveWithinCap`, `CountsMatchItems`, `FinalizedIsComplete`, `NoCostLost` |
| | `BatchResultsStand` | the action property `ResultsNeverChange` |
| `FileBatchProofs` | `WholeFileOrNothing`, `ResultFilesAreWhole` | `WholeFileRuns`, `ManifestIsWhole` |
| | `EventOutcomeStands` | the action property `OutcomeStands` |
| | `EventPromiseIsKept` | refinement: `FileBatchSpec` implies the specification of `EventPromise` |
| `AdmissionProofs` | `LedgerTypeCorrect`, `LedgerCountsOnce` | `TypeOK`, `CountedOnce` |
| | `LedgerPromiseIsKept` | refinement: `Spec` implies the specification of `LedgerPromise` |
| | `LedgerGatesMissNothing`, `LedgerQuotaHeld` | if `Timeout <= Window`: `GatesMissNothing`, `QuotaHeld` |
| | `KeyAnswersForItsBatch`, `InputOutlivesValidation`, `ErasedAccountIsEmpty`, `QueueStaysWithinCap` | `KeyHeld`, `InputHeld`, `ErasedIsEmpty`, `QueuedWithinCap` |
| `GuardProofs` | `ErasedLeavesNoRow`, `ErasedStaysDeleted`, `RemovedIsFenced`, `FenceNeverDeadlocks` | `NoRowOfErased`, `ResumedOnlyIfOvertaken`, `GoneIsFenced`, `LockHoldersMove` |
| | `HeldByThoseInFlight` | `HeldByRequests` |
| `ServingProofs` | `BreakerTypeCorrect`, `BreakerSingleProbe`, `BreakerRecoveryIsClean`, `BreakerGuardsItsPage`, `BreakerPagesRejections` | `TypeOK`, `SingleProbe`, `RecoveryIsClean`, `GuardedWhileSending`, `PagedWhileRejected` |
| | `CapacityHeld`, `NothingRunsOn`, `ServedWithoutErased` | `CapacityHeldWhileOpen`, `NothingLeftRunning`, `NothingErasedServed` |
| | `LastKeySpared` | the action property `LastKeyGoesLast` |

An invariant is proved by one that is inductive and implies it: it holds
initially, and every action, one lemma each where it takes more than a line,
preserves it. An action property follows from the same invariant. What the
inductive invariants add to the properties, and why they need it:

- **Limiter** (finite `Tasks`, `1 <= InitialLimit <= MaxLimit`,
  `ProbeInterval >= 1`). `TasksConsistent` ties each task's program counter to
  its future: a slot counted for a granted task is counted until the task
  resumes or abandons it. `in_flight` is a cardinality, so each step that moves
  a task into or out of the holders cites the lemmas on adding and removing one
  element. Order is a statement about positions: a wake takes a prefix of the
  line and an abandoned wait leaves the line without one place (`Skip`), and
  both keep the order of the rest.
- **Engine gate** (finite `Dispatches`, positive limits). `GateIInv` says that a
  dispatch has a future exactly while it is in line and a place only once it was
  sent (`Fits`), and that the count is that of the places of the current epoch.
  It holds in every state, that of a loop that has ended included; `PlacesConserved`
  speaks of a bound loop only, and is not inductive. `wake_waiters` is one lemma
  (`WakeCounts`) on any line.
- **Batch** (finite nonempty `Items`, positive `Cap`, `MaxAttempts`, `MaxSeq`).
  `Fenced`: attempts are numbered without gaps, and an open one is the current
  attempt of a running item. `Judged`: an item carries the verdict of its batch
  only, and a batch that left the phase `runnable` has no open items; this is
  what makes the outcome of `BatchPromise` one over finished requests. `Owned`:
  a worker with the current attempt is the item's owner, so a report that
  passes the fence comes from it. `_settle` is proved once and cited by every
  action that ends in it.
- **What a batch counts**. Every step is one of a few kinds (`StepKinds`), and
  three more invariants are shown kept by each kind. `LeaseInv`: the live items
  *and those whose heartbeat is not committed* are within the cap; without the
  second a heartbeat could bring an item back after its room was given away.
  `Agree`: the counters are the numbers of items by status; `_settle` moves a
  set of items at once, so it rests on the cardinality of disjoint unions.
  `Costed`: until the batch closes each cost is counted exactly once and a
  running item's attempt is open; later the counters may only be ahead. The
  exactness before the closing is what makes the later inequality inductive,
  and its loss is the finding of `batch_costs`.
- **File batch** (at least one line, `Nobody` is no process).
  `ValidatorsCurrent`: the validator that *owns* the row has staged exactly the
  lines before its next one; nothing is said of one that lost the row, whose
  writes are fenced. `SealersCurrent`: the owning sealer has rendered only what
  is stored, and all of it once it holds the row's lock. `EventAfterSeal`: an
  event exists only after the batch was sealed, so that sealing, which enqueues
  one, never finds an outcome to overwrite. `SendsCounted`, for `EventPromise`:
  the posts made *and those a sender has still leased the event for* are within
  the attempts counted, while there is an event, and within `MaxAttempts` when it
  is gone. The bound on the posts made alone is not inductive, as senders that
  lost their lease, or whose event was removed, go on to post. A sender about to
  report a post has made one, so an event that becomes delivered was posted.
- **Breaker** (`Threshold >= 1`, `Cooldown >= 0`). `ProbesTimed`: when the
  circuit is open its cooldown outlasts every running probe, and when it is
  half-open the running probe is the recorded one with the recorded deadline.
  Without it a trip during a probe could admit a second.
- **Ledger** (finite `Requests`, positive costs). `Accounted` says of each place
  a cost can be in which sums hold it and whether it is in the table; with
  `Recorded` (a cost is known exactly when it has a place) each step is one of
  `LedgerPromise` or none.
  `ReadInTime` says that a gate has read every cost confirmed longer ago than
  its own age; with `Timeout <= Window` no such cost is forgotten too early.
  The assumption is needed: `spend_stale_gate` is what happens without it. The
  quota follows: what a gate compares with the quota is at least the sum of what
  all others have spent or reserved (`GateCoversLoads`), and a cost that replaces
  its estimate does not raise that sum.
- **Admission** (caps and bounds are numbers). `CreateOpen`: between the checks
  of a create and its commit the owner's row is locked, the account is active,
  the key's earlier batches are a day past, and a file it names is not
  collected. `QueueInv` adds that the queued requests *and those of the open
  create* fit the cap: the checks and the commit are two steps, and only the
  lock keeps the room between them.
- **Erasure** (accounts are finitely many numbers, `Nil` is no deleter). Three
  invariants, each inductive beside its types. `FenceInv`: a row is inserted
  under shared locks on all the accounts it names, after their fences were read,
  and an erasing deleter shares its account's lock with no writer; so a fence
  cannot be committed between a writer's read and its commit. `ClaimInv`: once
  the holder of a claim has fenced the account, the claim stays: an attempt
  decides to release only when it finds no fence, after that fence none does,
  and one that decided before is no longer the holder. `ILock`: a write holds
  locks below those it lacks; among the waiting ones the one that holds the
  greatest lock can move, or someone who waits for none can. No queue order and
  no fairness is needed.
- **User slots** (finite `Visitors`). `HeldByRequests` is inductive beside the
  types; the work is in how one request's step changes three cardinalities.
- **Hedged requests**. The state is one record, and a round of the race is a
  composition of functions of it; `StreamInv` and `CallInv` are predicates of a
  record, shown kept by each part. `StreamInv` adds that while the request closes
  its generators an open backup that nobody else cleans up is still on the list;
  `CallInv` that the capacity is held exactly while the backup calls, and that a
  task no longer awaited has ended.
- **Key pool** (finitely many keys). An action property that needs the shape of
  the state only: of what a failure does to the key, and that no two requests
  end their leases in one step.
- **Admin views**. `Sound`: a result has been computed without the rows of every
  delete up to its generation, because the generation is read before the rows;
  `SeenByServer`: what a request saw its server has seen when it hands out a
  result.

`Sums` holds the lemmas about sums over finite sets (`SumFunctionOnSet` of the
community modules) on which the quota and the cap on queued requests rest: a sum
is unchanged by the order of its elements, grows with its terms, and changes by
the difference when one term does. The sum is defined by a fold, a recursive
function, and so the lemmas need induction on the size of a set. The library's
induction theorems take an operator as a parameter, which the provers cannot
instantiate; the induction is done here in its first-order form, on the smallest
counterexample (`LeastNumber`, `SubsetsOf`), which rests on `WFMin`, a theorem
about sets.

### Model-checked only

- Liveness (`WaitsEnd`, `WindowedBatchEnds`, `ClosedBatchEnds`, `WorkEnds`,
  `EventEnds`, `NeverLockedOut`, `EveryCostTried`, `StreamRaceEnds`): properties
  under fairness need `ENABLED`, which is out of the prover's reach.
- The four violations, which are counterexamples.
- That the compositions for TLC (`MCServing`, `MCOutbound`) take no step their
  components do not; the theorems are about the components' own specifications.

## Not modelled

Within the modelled components: batches of schema version 1; several models in
one batch; the upload of files chunk by chunk; the day's rollover, several
processes and the non-atomic stores of the ledger; the delivery of pages (the
breaker's side of it is modelled); admission without a configured limiter; log
rows that name no account and the pinning of the fence's secret; more than one
key of a refreshing cache, and one without a store; a hedged stream without a
race deadline.

Not modelled at all:

- **Live configuration**: what an activation changes, and what a rollback
  restores, is decided by callbacks of each group, one set per setting.
- **Router fallback**: an order over candidates computed from measurements; its
  protocol with the breaker is the breaker's claims, which are modelled.
- **Alert transitions and alert history**: deduplication state and a bounded
  queue behind the breaker's pages. They have a protocol worth a module each.
- **Prefill estimates, login limits, sessions, single-flight**: counters and
  windows within one process.
- **The rest**, most of the code by size (adapters' wire formats, HTTP handlers,
  console, analytics, RAG, pricing, frontend, migrations): conversion, queries
  and I/O with no protocol between parts that a state machine would say more of
  than the code does.

## Plan

1. `AlertTransitions` and the alert history queue.
