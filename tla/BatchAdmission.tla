--------------------------- MODULE BatchAdmission ---------------------------
(***************************************************************************)
(* How one owner's batches come into being: retried and concurrent creates *)
(* under Idempotency-Keys, the caps on unfinished batches and requests,    *)
(* the uploaded file that a batch still validating keeps from collection,  *)
(* and the erasure of the account.                                         *)
(*                                                                         *)
(* A create looks its key up outside any lock (find_replay), and later     *)
(* runs a transaction under the owner's admission lock (create_batch,      *)
(* create_console_batch), here in two steps: its checks, which leave it    *)
(* holding the owner's row, the lock and the input file, and its commit.   *)
(* The life of a batch in between is reduced to the columns the caps and   *)
(* the records read; BatchItems and BatchWork have the rest.               *)
(***************************************************************************)
EXTENDS Naturals, FiniteSets, FiniteSetsExt

CONSTANTS
    Clients,       \* requests of the owner in progress at a time
    Keys,          \* Idempotency-Keys
    NoKey,         \* a create without a key
    NoClient,
    MaxBatches,    \* batches created in a behaviour
    CapChoices,    \* the caps on unfinished batches and requests, configured
    MaxLines       \* requests of one batch

ASSUME AdmissionAssumption ==
    /\ NoKey \notin Keys /\ NoClient \notin Clients
    /\ CapChoices \subseteq [active : Nat, queued : Nat]
    /\ MaxBatches \in Nat /\ MaxLines \in Nat

VARIABLES
    caps,      \* max_active_per_user and max_queued_per_user
    ofFile,    \* the keys used with file input; the others are used inline
    owner,     \* the users row: "active", "pending" (hard delete) or "erased"
    jobs,      \* batch_jobs, by order of creation
    made,      \* batches created so far
    dayPast,   \* batches whose end or deletion is more than a day ago
    records,   \* batch_idempotency, by key
    upload,    \* the uploaded file: "ready", "hidden" or "collected"
    client,    \* each request
    locked,    \* the client whose create transaction is open
    chosen     \* the upload was among collect_garbage's candidates

settings == <<caps, ofFile>>

admissionVars ==
    <<settings, owner, jobs, made, dayPast, records, upload, client, locked,
      chosen>>

Ids == 1..MaxBatches

NoJob == [phase |-> "none", status |-> "none", left |-> 0, via |-> "none",
          deleted |-> FALSE, key |-> NoKey]

\* A row that is gone; the key it was created under is kept here only for
\* the properties to speak of.
GoneJob(j) == [NoJob EXCEPT !.key = j.key]

\* How a batch is created: with its requests inline, or by the API or the
\* console over an uploaded file.
Vias == {"inline", "file", "console"}

NoRecord == [batch |-> 0, deleted |-> FALSE, expires |-> FALSE]

IdleClient == [at |-> "idle", key |-> NoKey, via |-> "none", left |-> 0]

Stored(b) == jobs[b].phase # "none"

\* Rows other lookups see: not marked for deletion.
Visible(b) == Stored(b) /\ ~jobs[b].deleted

\* The active count of _check_user_caps and count_active_batches.
ActiveBatches ==
    {b \in Ids : /\ Visible(b)
                 /\ \/ jobs[b].status \in {"validating", "in_progress", "cancelling"}
                    \/ jobs[b].phase \in {"validating", "sealing"}}

\* The queued count of _check_user_caps.
QueuedRequests ==
    SumFunctionOnSet([b \in Ids |-> jobs[b].left],
        {b \in Ids : /\ Visible(b)
                     /\ jobs[b].status \in {"validating", "in_progress", "cancelling"}
                     /\ jobs[b].phase \in {"validating", "runnable"}})

\* A job out of open items is finalized: an inline batch is over, a file
\* batch waits to be sealed and keeps its status until then (_finalize).
SettledJob(j) ==
    IF j.phase # "runnable" \/ j.left > 0 THEN j
    ELSE IF j.via # "inline" THEN [j EXCEPT !.phase = "sealing"]
    ELSE [j EXCEPT !.phase = "sealed", !.status = IF @ = "expired" THEN @ ELSE "ended"]

\* The batch has ended as the idempotency records see it.
EndedJob(b) ==
    jobs[b].status \in {"ended", "expired"} /\ jobs[b].phase \in {"runnable", "sealed"}

\* _IDEMPOTENCY_LIVE: until the record's expiry, or else a day after its
\* batch ended, or else for good.
Live(r) ==
    r.batch # 0 /\ (r.expires \/ EndedJob(r.batch) => ~dayPast[r.batch])

KeyLive(k) == k \in Keys /\ Live(records[k])

AdmissionInit ==
    /\ caps \in CapChoices
    /\ ofFile \in SUBSET Keys
    /\ owner = "active"
    /\ jobs = [b \in Ids |-> NoJob] /\ made = 0
    /\ dayPast = [b \in Ids |-> FALSE]
    /\ records = [k \in Keys |-> NoRecord]
    /\ upload = "ready"
    /\ client = [c \in Clients |-> IdleClient]
    /\ locked = NoClient
    /\ chosen = FALSE

-----------------------------------------------------------------------------
(* Creating a batch *)

ClientEnds(c) == client' = [client EXCEPT ![c] = IdleClient]

\* _console_row_replay: a console batch still stored under the key.
ConsoleRow(k) ==
    \E b \in Ids : Visible(b) /\ jobs[b].via = "console" /\ jobs[b].key = k

\* A request arrives: find_replay (the console: find_console_submission)
\* answers it, with a replay, a conflict or gone, or it goes on to create.
\* Inline and file input have keys of their own.
FindReplay(c) ==
    /\ client[c].at = "idle"
    /\ owner = "active"
    /\ \E k \in Keys \cup {NoKey}, via \in Vias, n \in 0..MaxLines :
          /\ k # NoKey => (via # "inline") = (k \in ofFile)
          /\ via = "console" => k # NoKey
          /\ via # "inline" => n = 0
          /\ ~KeyLive(k) /\ (via = "console" => ~ConsoleRow(k))
          /\ client' = [client EXCEPT ![c] =
                           [at |-> "looked", key |-> k, via |-> via, left |-> n]]
    /\ UNCHANGED <<settings, owner, jobs, made, dayPast, records, upload, locked, chosen>>

\* create_batch without its second look at the key: nothing is replayed.
ReplayUnderLockSkipped(c) == FALSE

\* What the transaction finds under the key: a live record, whatever it then
\* answers (a replay, a conflict or gone), or a console batch still stored
\* after its record has expired.
ReplayUnderLock(c) ==
    \/ KeyLive(client[c].key)
    \/ client[c].via = "console" /\ ConsoleRow(client[c].key)

\* _check_user_caps of a create.
WithinCaps(requested) ==
    /\ Cardinality(ActiveBatches) < caps.active
    /\ QueuedRequests + requested <= caps.queued

\* A create that trusts the authentication of the request.
OwnerWasActive == TRUE

\* _lock_owner.
OwnerActive == owner = "active"

Admitted(c) ==
    /\ OwnerActive
    /\ ~ReplayUnderLock(c)
    /\ WithinCaps(client[c].left)
    /\ client[c].via # "inline" => upload = "ready"

\* The create transaction: its checks, in order, under the owner's row and
\* admission lock; what is refused, replayed or in conflict ends here (a
\* record that no longer counts is deleted, which the insert repeats).
BeginCreate(c) ==
    /\ client[c].at = "looked"
    /\ locked = NoClient
    /\ made < MaxBatches
    /\ IF Admitted(c)
         THEN locked' = c /\ client' = [client EXCEPT ![c].at = "creating"]
         ELSE ClientEnds(c) /\ UNCHANGED locked
    /\ UNCHANGED <<settings, owner, jobs, made, dayPast, records, upload, chosen>>

\* _insert_batch: the row, its items and its idempotency record.
CommitCreate(c) ==
    /\ client[c].at = "creating"
    /\ LET b == made + 1
           r == client[c]
           j == [phase |-> IF r.via = "inline" THEN "runnable" ELSE "validating",
                 status |-> IF r.via = "inline" THEN "in_progress" ELSE "validating",
                 left |-> r.left, via |-> r.via, deleted |-> FALSE,
                 key |-> r.key]
       IN  /\ jobs' = [jobs EXCEPT ![b] = SettledJob(j)]
           /\ made' = b
           /\ records' = IF r.key = NoKey THEN records
                         ELSE [records EXCEPT ![r.key] =
                                 [batch |-> b, deleted |-> FALSE, expires |-> FALSE]]
    /\ locked' = NoClient
    /\ ClientEnds(c)
    /\ UNCHANGED <<settings, owner, dayPast, upload, chosen>>

\* The client's connection or the process is lost: the transaction is undone.
AbandonCreate(c) ==
    /\ client[c].at # "idle"
    /\ ClientEnds(c)
    /\ locked' = IF locked = c THEN NoClient ELSE locked
    /\ UNCHANGED <<settings, owner, jobs, made, dayPast, records, upload, chosen>>

-----------------------------------------------------------------------------
(* The life of a batch *)

SetJob(b, j) ==
    /\ jobs' = [jobs EXCEPT ![b] = SettledJob(j)]
    /\ UNCHANGED <<settings, owner, made, dayPast, records, upload, client, locked, chosen>>

\* stage_items that counts without the admission lock and its check.
StageUnchecked(b) ==
    /\ Visible(b)
    /\ jobs[b].phase = "validating" /\ jobs[b].status = "validating"
    /\ jobs[b].left < MaxLines
    /\ SetJob(b, [jobs[b] EXCEPT !.left = @ + 1])

\* stage_items: a chunk of one request, under the admission lock.
StageChunk(b) ==
    /\ locked = NoClient
    /\ Visible(b)
    /\ jobs[b].phase = "validating" /\ jobs[b].status = "validating"
    /\ jobs[b].left < MaxLines
    /\ QueuedRequests + 1 <= caps.queued
    /\ SetJob(b, [jobs[b] EXCEPT !.left = @ + 1])

\* publish_validated.
PublishBatch(b) ==
    /\ Visible(b)
    /\ jobs[b].phase = "validating" /\ jobs[b].status = "validating"
    /\ jobs[b].left > 0
    /\ SetJob(b, [jobs[b] EXCEPT !.phase = "runnable", !.status = "in_progress"])

\* fail_validation: nothing is left of it, and it goes to a sealer.
FailBatch(b) ==
    /\ jobs[b].phase = "validating"
    /\ SetJob(b, [jobs[b] EXCEPT !.phase = "sealing", !.left = 0])

\* An item ends.
FinishRequest(b) ==
    /\ jobs[b].phase = "runnable" /\ jobs[b].left > 0
    /\ SetJob(b, [jobs[b] EXCEPT !.left = @ - 1])

\* cancel_batch, or the sweep at the end of the window: requests not started
\* end, those running go on.
CloseBatch(b, status) ==
    /\ jobs[b].status \in {"validating", "in_progress"}
    /\ jobs[b].phase \in {"validating", "runnable"}
    /\ status = "cancelling" => ~jobs[b].deleted
    /\ \E running \in 0..jobs[b].left :
          /\ jobs[b].phase = "validating" => running = jobs[b].left
          /\ SetJob(b, [jobs[b] EXCEPT !.status = status, !.left = running])

\* commit_seal.
SealBatch(b) ==
    /\ Visible(b)
    /\ jobs[b].phase = "sealing"
    /\ SetJob(b, [jobs[b] EXCEPT !.phase = "sealed", !.status = "ended"])

\* The key's record is held by an open create.
RecordFree(k) == locked # NoClient => client[locked].key # k

\* delete_batch: its record becomes a tombstone for a day from now, and the
\* row goes, or is marked while a download reads it.
DeleteJob(b) ==
    /\ Visible(b)
    /\ RecordFree(jobs[b].key)
    /\ LET k == jobs[b].key
           mine == k \in Keys /\ records[k].batch = b
       IN  /\ records' = IF mine THEN [records EXCEPT ![k].deleted = TRUE, ![k].expires = TRUE]
                                 ELSE records
           /\ dayPast' = IF mine THEN [dayPast EXCEPT ![b] = FALSE] ELSE dayPast
    /\ \E read \in BOOLEAN :
          jobs' = [jobs EXCEPT ![b] = IF read THEN [@ EXCEPT !.deleted = TRUE] ELSE GoneJob(@)]
    /\ UNCHANGED <<settings, owner, made, upload, client, locked, chosen>>

\* _purge_retained: a finished batch past its retention, or a deleted one; a
\* record that has no expiry yet gets the one its batch's end gives it.
PurgeJob(b) ==
    /\ Stored(b)
    /\ EndedJob(b) \/ jobs[b].deleted
    /\ RecordFree(jobs[b].key)
    /\ LET k == jobs[b].key
       IN  records' = IF k \in Keys /\ records[k].batch = b
                        THEN [records EXCEPT ![k].deleted = TRUE, ![k].expires = TRUE]
                        ELSE records
    /\ jobs' = [jobs EXCEPT ![b] = GoneJob(@)]
    /\ UNCHANGED <<settings, owner, made, dayPast, upload, client, locked, chosen>>

\* A day passes since the batch ended or was deleted.  The requests that run
\* on after the window's end, and the sealing, take less than a day.
DayPasses(b) ==
    /\ b <= made /\ ~dayPast[b]
    /\ jobs[b].phase = "sealed" \/ ~Visible(b)
    /\ dayPast' = [dayPast EXCEPT ![b] = TRUE]
    /\ UNCHANGED <<settings, owner, jobs, made, records, upload, client, locked, chosen>>

\* The sweep writes the expiry of the records of finished batches, and
\* removes those that have expired.
SweepRecord(k) ==
    /\ RecordFree(k)
    /\ LET r == records[k]
       IN  \/ /\ r.batch # 0 /\ ~r.expires /\ EndedJob(r.batch)
              /\ records' = [records EXCEPT ![k].expires = TRUE]
           \/ /\ r.batch # 0 /\ r.expires /\ dayPast[r.batch]
              /\ records' = [records EXCEPT ![k] = NoRecord]
    /\ UNCHANGED <<settings, owner, jobs, made, dayPast, upload, client, locked, chosen>>

-----------------------------------------------------------------------------
(* The uploaded file and the account *)

\* delete_file, or the upload's expiry; it waits for a console create, which
\* holds the file for update.
HideUpload ==
    /\ upload = "ready"
    /\ locked # NoClient => client[locked].via # "console"
    /\ upload' = "hidden"
    /\ UNCHANGED <<settings, owner, jobs, made, dayPast, records, client, locked, chosen>>

Pinned == \E b \in Ids : jobs[b].phase = "validating"

\* collect_garbage chooses candidates from what it reads now ...
ChooseUpload ==
    /\ upload = "hidden" /\ ~chosen /\ ~Pinned
    /\ chosen' = TRUE
    /\ UNCHANGED <<settings, owner, jobs, made, dayPast, records, upload, client, locked>>

\* collect_upload that trusts the candidate list.
CollectChosen ==
    /\ chosen
    /\ chosen' = FALSE
    /\ upload' = "collected"
    /\ UNCHANGED <<settings, owner, jobs, made, dayPast, records, client, locked>>

\* ... and collect_upload looks again at each, unless a create holds it.
CollectUpload ==
    /\ chosen
    /\ chosen' = FALSE
    /\ LET held == locked # NoClient /\ client[locked].via # "inline"
       IN  upload' = IF upload = "hidden" /\ ~held /\ ~Pinned THEN "collected" ELSE upload
    /\ UNCHANGED <<settings, owner, jobs, made, dayPast, records, client, locked>>

\* begin_hard_delete marks the account (waiting for creates that hold its
\* row); a deletion that fails half-way gives the mark back.
MarkHardDelete ==
    /\ locked = NoClient
    /\ \/ owner = "active" /\ owner' = "pending"
       \/ owner = "pending" /\ owner' = "active"
    /\ UNCHANGED <<settings, jobs, made, dayPast, records, upload, client, locked, chosen>>

\* delete_user_batches, under the admission lock.
EraseAccount ==
    /\ locked = NoClient
    /\ owner = "pending"
    /\ owner' = "erased"
    /\ jobs' = [b \in Ids |-> GoneJob(jobs[b])]
    /\ records' = [k \in Keys |-> NoRecord]
    /\ upload' = "collected"
    /\ UNCHANGED <<settings, made, dayPast, client, locked, chosen>>

AdmissionNext ==
    \/ \E c \in Clients :
          FindReplay(c) \/ BeginCreate(c) \/ CommitCreate(c) \/ AbandonCreate(c)
    \/ \E b \in Ids :
          \/ StageChunk(b) \/ PublishBatch(b) \/ FailBatch(b) \/ FinishRequest(b)
          \/ CloseBatch(b, "cancelling") \/ CloseBatch(b, "expired") \/ SealBatch(b)
          \/ DeleteJob(b) \/ PurgeJob(b) \/ DayPasses(b)
    \/ \E k \in Keys : SweepRecord(k)
    \/ HideUpload \/ ChooseUpload \/ CollectUpload \/ MarkHardDelete \/ EraseAccount

AdmissionSpec == AdmissionInit /\ [][AdmissionNext]_admissionVars

-----------------------------------------------------------------------------
(* Properties *)

\* Rows, records and requests have the shapes the tables give them.
AdmissionTypeOK ==
    /\ owner \in {"active", "pending", "erased"}
    /\ \A b \in Ids : /\ jobs[b].left \in 0..MaxLines
                      /\ jobs[b].phase \in {"none", "validating", "runnable", "sealing", "sealed"}
    /\ made \in 0..MaxBatches
    /\ \A k \in Keys : records[k].batch \in 0..made
    /\ locked \in Clients \cup {NoClient}

\* A key answers for the batch it created until a day after the batch ended
\* or was deleted: whatever retries, concurrent creates, deletions and sweeps
\* there are, no second batch is created under it before (create_batch:
\* "checked again under the user's lock"; delete_batch: "nothing is ever
\* re-created for a deleted batch").
KeyHeld ==
    owner # "erased" =>
        \A b \in 1..made :
            jobs[b].key \in Keys /\ ~dayPast[b] => records[jobs[b].key].batch = b

\* The requests reserved by creates and by validators that stage chunk by
\* chunk never pass the owner's cap together.
QueuedWithinCap == QueuedRequests <= caps.queued

\* The input of a batch still to be validated is never collected, not even
\* when it was deleted and chosen for collection before the create committed
\* (_pin_input, collect_upload).
InputHeld == Pinned => upload # "collected"

\* An erased account stays empty: a request that authenticated before the
\* erasure cannot leave a batch behind it (_lock_owner).
ErasedIsEmpty ==
    owner = "erased" => \A b \in Ids : ~Stored(b)

=============================================================================
