------------------------------ MODULE BatchWork ------------------------------
(***************************************************************************)
(* What happens to one file batch around the running of its items: the     *)
(* scheduler processes take its work lease to validate the uploaded file,  *)
(* stage its lines as items and publish them, and later to seal it, that   *)
(* is, to render its result files and fix its final status.  A lease that  *)
(* runs out is taken over while its old holder may still be at work, and   *)
(* the owner cancels, deletes or downloads the batch at any moment.        *)
(*                                                                         *)
(* Each step is one transaction of storage/batch_store.py, or one local    *)
(* step of validate_file_batch, seal_file_batch or stream_lines between    *)
(* two of them.  The chunk staged at a time is one line.  How the items    *)
(* run is the subject of BatchItems; here an item merely finishes.         *)
(***************************************************************************)
EXTENDS Naturals, FiniteSets

CONSTANTS
    Processes,   \* scheduler processes, each with one validator and one sealer
    Nobody,      \* no work_owner
    Lines,       \* number of lines of the uploaded file
    MaxFaults    \* stalls, deaths and failed authentications of a behaviour

ASSUME WorkAssumption ==
    Nobody \notin Processes /\ Lines \in Nat \ {0} /\ MaxFaults \in Nat

VARIABLES
    row,        \* the batch_jobs row
    stored,     \* lines held as batch_items
    open,       \* those of them not final yet
    badLine,    \* the first line that is not acceptable, 0 when all are
    val,        \* validate_file_batch of each process
    seal,       \* seal_file_batch of each process
    listed,     \* stale_validations has listed the batch for the sweep
    manifest,   \* the published result files: generation and lines
    dl,         \* one download of the results
    faults      \* those so far: a behaviour may begin with some of them spent

workVars == <<row, stored, open, badLine, val, seal, listed, manifest, dl, faults>>

FileLines == 1..Lines

Phases == {"none", "validating", "runnable", "sealing", "sealed"}

Statuses == {"validating", "in_progress", "cancelling", "expired",
             "completed", "cancelled", "failed"}

NoManifest == [gen |-> 0, lines |-> {}]

IdleVal  == [at |-> "idle", next |-> 1]
IdleSeal == [at |-> "idle", gen |-> 0, final |-> "none", seen |-> {}]
NoDownload == [at |-> "idle", checked |-> FALSE, want |-> {}, seen |-> {},
               lost |-> FALSE]

\* The row's lock is held by a sealer between its first read and its commit.
RowFree == \A p \in Processes : seal[p].at # "writing"

Owned(p, phase) == row.phase = phase /\ row.owner = p

\* The condition under which stage_items and publish_validated apply.
StagingOwned(p) ==
    Owned(p, "validating") /\ row.status = "validating" /\ ~row.deleted

\* What _finalize does to a file batch: its final status is fixed, and it
\* waits for a sealer.
Finalized(r, final) ==
    [r EXCEPT !.phase = "sealing", !.final = final,
              !.owner = Nobody, !.lease = "none"]

\* The final status a batch that is out of open items takes (_FINAL_STATUS).
FinalStatus(status) ==
    CASE status = "cancelling" -> "cancelled"
      [] status = "expired"    -> "expired"
      [] OTHER                 -> "completed"

\* The final status of a batch that does not get past validation.
FailedStatus(status) ==
    IF status = "validating" THEN "failed" ELSE FinalStatus(status)

\* _settle: a running batch with no open item left is finalized; a batch
\* still being validated is never touched.
Settled(r, left) ==
    IF r.phase = "runnable" /\ left = {}
      THEN Finalized(r, FinalStatus(r.status))
      ELSE r

WorkInit ==
    /\ row = [phase |-> "validating", status |-> "validating", final |-> "none",
              count |-> 0, owner |-> Nobody, lease |-> "none", gen |-> 0,
              deleted |-> FALSE, read |-> FALSE]
    /\ stored = {} /\ open = {}
    /\ badLine \in 0..Lines
    /\ val = [p \in Processes |-> IdleVal]
    /\ seal = [p \in Processes |-> IdleSeal]
    /\ listed = FALSE
    /\ manifest = NoManifest
    /\ dl = NoDownload
    /\ faults \in 0..MaxFaults

-----------------------------------------------------------------------------
(* The work lease *)

\* A batch waiting in a phase whose lease is free or has run out; one in
\* validation must not have been cancelled or expired.
Claimable(phase) ==
    /\ RowFree
    /\ row.phase = phase
    /\ phase = "validating" => row.status = "validating"
    /\ ~row.deleted
    /\ row.lease # "live"

\* claim_batch_work("validating"), from _work_phase.
ClaimValidating(p) ==
    /\ val[p].at = "idle"
    /\ Claimable("validating")
    /\ row' = [row EXCEPT !.owner = p, !.lease = "live"]
    /\ val' = [val EXCEPT ![p] = [IdleVal EXCEPT !.at = "claimed"]]
    /\ UNCHANGED <<stored, open, badLine, seal, listed, manifest, dl, faults>>

\* claim_batch_work("sealing"): each claim is a new generation.
ClaimSealing(p) ==
    /\ seal[p].at = "idle"
    /\ Claimable("sealing")
    /\ row' = [row EXCEPT !.owner = p, !.lease = "live", !.gen = @ + 1]
    /\ seal' = [seal EXCEPT ![p] = [at |-> "reading", gen |-> row.gen + 1,
                                    final |-> row.final, seen |-> {}]]
    /\ UNCHANGED <<stored, open, badLine, val, listed, manifest, dl, faults>>

Busy(p) ==
    \/ row.phase = "validating" /\ val[p].at # "idle"
    \/ row.phase = "sealing" /\ seal[p].at # "idle"

\* The lease runs out: because its holder has gone, or, which is a fault,
\* because its holder is slow.
LeaseRunsOut ==
    /\ RowFree
    /\ row.lease = "live"
    /\ LET stalled == row.owner \in Processes /\ Busy(row.owner)
       IN  /\ stalled => faults < MaxFaults
           /\ faults' = IF stalled THEN faults + 1 ELSE faults
    /\ row' = [row EXCEPT !.lease = "lapsed"]
    /\ UNCHANGED <<stored, open, badLine, val, seal, listed, manifest, dl>>

\* A process dies with its tasks; a transaction it had open is rolled back.
ProcessDies(p) ==
    /\ faults < MaxFaults
    /\ val[p].at # "idle" \/ seal[p].at # "idle"
    /\ val' = [val EXCEPT ![p] = IdleVal]
    /\ seal' = [seal EXCEPT ![p] = IdleSeal]
    /\ faults' = faults + 1
    /\ UNCHANGED <<row, stored, open, badLine, listed, manifest, dl>>

-----------------------------------------------------------------------------
(* validate_file_batch *)

ValGoes(p, at) == val' = [val EXCEPT ![p].at = at]
ValEnds(p) == val' = [val EXCEPT ![p] = IdleVal]

\* reset_staged_items: start over from nothing, if the batch is still ours.
ResetStagedItems(p) ==
    /\ RowFree
    /\ val[p].at = "claimed"
    /\ \/ /\ Owned(p, "validating")
          /\ stored' = {}
          /\ row' = [row EXCEPT !.count = 0]
          /\ ValGoes(p, "reset")
       \/ /\ ~Owned(p, "validating")
          /\ ValEnds(p)
          /\ UNCHANGED <<stored, row>>
    /\ UNCHANGED <<open, badLine, seal, listed, manifest, dl, faults>>

\* The file and the owner's key are looked up: both good, one of them
\* rejected, or not to be had now, when the lease is left to run out.
CheckOwner(p) ==
    /\ val[p].at = "reset"
    /\ \/ ValGoes(p, "reading") /\ UNCHANGED faults
       \/ ValGoes(p, "failing") /\ UNCHANGED faults
       \/ faults < MaxFaults /\ ValEnds(p) /\ faults' = faults + 1
    /\ UNCHANGED <<row, stored, open, badLine, seal, listed, manifest, dl>>

\* A line that is not acceptable: nothing after it is staged, and the batch
\* fails once the file has been read.
MeetBadLine(p) ==
    /\ val[p].at = "reading"
    /\ val[p].next = badLine
    /\ ValGoes(p, "failing")
    /\ UNCHANGED <<row, stored, open, badLine, seal, listed, manifest, dl, faults>>

\* stage_items without its check of the work lease.
StageUnfenced(p) ==
    /\ RowFree
    /\ val[p].at = "reading"
    /\ val[p].next \in FileLines \ {badLine}
    /\ row.phase = "validating" /\ row.status = "validating" /\ ~row.deleted
    /\ stored' = stored \cup {val[p].next}
    /\ row' = [row EXCEPT !.count = @ + 1, !.lease = "live"]
    /\ val' = [val EXCEPT ![p].next = @ + 1]
    /\ UNCHANGED <<open, badLine, seal, listed, manifest, dl, faults>>

\* stage_items: refused when the batch is no longer ours to validate or the
\* owner's cap on queued requests is reached (the other batches that fill it
\* are the subject of BatchAdmission); staging keeps the lease alive.
StageItems(p) ==
    /\ RowFree
    /\ val[p].at = "reading"
    /\ val[p].next \in FileLines \ {badLine}
    /\ \/ ~StagingOwned(p) /\ ValGoes(p, "aborting") /\ UNCHANGED <<row, stored>>
       \/ StagingOwned(p) /\ ValGoes(p, "failing") /\ UNCHANGED <<row, stored>>
       \/ /\ StagingOwned(p)
          /\ stored' = stored \cup {val[p].next}
          /\ row' = [row EXCEPT !.count = @ + 1, !.lease = "live"]
          /\ val' = [val EXCEPT ![p].next = @ + 1]
    /\ UNCHANGED <<open, badLine, seal, listed, manifest, dl, faults>>

\* publish_validated: the staged lines become claimable, all at once.
PublishValidated(p) ==
    /\ RowFree
    /\ val[p].at = "reading" /\ val[p].next = Lines + 1
    /\ \/ /\ StagingOwned(p)
          /\ row' = [row EXCEPT !.phase = "runnable", !.status = "in_progress",
                                !.owner = Nobody, !.lease = "none"]
          /\ open' = stored
          /\ ValEnds(p)
       \/ /\ ~StagingOwned(p)
          /\ ValGoes(p, "aborting")
          /\ UNCHANGED <<row, open>>
    /\ UNCHANGED <<stored, badLine, seal, listed, manifest, dl, faults>>

\* _abort: a batch that was cancelled or expired under us is ours to close.
Abort(p) ==
    /\ val[p].at = "aborting"
    /\ IF Owned(p, "validating") /\ ~row.deleted /\ row.status # "validating"
         THEN ValGoes(p, "failing")
         ELSE ValEnds(p)
    /\ UNCHANGED <<row, stored, open, badLine, seal, listed, manifest, dl, faults>>

\* The whole effect of fail_validation on a batch it applies to.
ValidationFailed ==
    /\ row' = Finalized([row EXCEPT !.count = 0], FailedStatus(row.status))
    /\ stored' = {}

\* fail_validation by the validator.
FailValidation(p) ==
    /\ RowFree
    /\ val[p].at = "failing"
    /\ IF Owned(p, "validating")
         THEN ValidationFailed
         ELSE UNCHANGED <<row, stored>>
    /\ ValEnds(p)
    /\ UNCHANGED <<open, badLine, seal, listed, manifest, dl, faults>>

\* A sweep that takes an unfinished lease for a live validator.
ListStaleUnleased ==
    /\ ~listed
    /\ row.phase = "validating" /\ row.status # "validating" /\ row.lease = "none"
    /\ listed' = TRUE
    /\ UNCHANGED <<row, stored, open, badLine, val, seal, manifest, dl, faults>>

\* The sweep lists validations that were cancelled or expired and whose
\* validator has gone ...
ListStaleValidation ==
    /\ ~listed
    /\ row.phase = "validating" /\ row.status # "validating" /\ row.lease # "live"
    /\ listed' = TRUE
    /\ UNCHANGED <<row, stored, open, badLine, val, seal, manifest, dl, faults>>

\* ... and then closes each, whoever holds the lease by now.
FailStaleValidation ==
    /\ RowFree
    /\ listed
    /\ listed' = FALSE
    /\ IF row.phase = "validating"
         THEN ValidationFailed
         ELSE UNCHANGED <<row, stored>>
    /\ UNCHANGED <<open, badLine, val, seal, manifest, dl, faults>>

-----------------------------------------------------------------------------
(* seal_file_batch *)

\* The next page of stored items after those already rendered.
Page(seen) == {l \in stored \ seen : \A k \in stored \ seen : l <= k}

\* The sealer renders a page; it renews its lease when that is due, and gives
\* up if the lease is no longer its own.
RenderPage(p) ==
    /\ RowFree
    /\ seal[p].at = "reading"
    /\ Page(seal[p].seen) # {}
    /\ LET rendered == [seal EXCEPT ![p].seen = @ \cup Page(@)]
           renewable == Owned(p, "sealing") /\ ~row.deleted
       IN  \/ seal' = rendered /\ UNCHANGED row
           \/ /\ renewable
              /\ seal' = rendered
              /\ row' = [row EXCEPT !.lease = "live"]
           \/ /\ ~renewable
              /\ seal' = [seal EXCEPT ![p] = IdleSeal]
              /\ UNCHANGED row
    /\ UNCHANGED <<stored, open, badLine, val, listed, manifest, dl, faults>>

\* commit_seal for any holder of the batch's name.
SealUnfenced(p) == row.phase = "sealing" /\ ~row.deleted

\* The condition under which commit_seal applies.
SealOwned(p) ==
    Owned(p, "sealing") /\ row.gen = seal[p].gen /\ ~row.deleted

\* commit_seal begins: it locks the row and checks lease and generation.
LockSeal(p) ==
    /\ RowFree
    /\ seal[p].at = "reading"
    /\ Page(seal[p].seen) = {}
    /\ seal' = [seal EXCEPT ![p] = IF SealOwned(p) THEN [@ EXCEPT !.at = "writing"]
                                                   ELSE IdleSeal]
    /\ UNCHANGED <<row, stored, open, badLine, val, listed, manifest, dl, faults>>

\* commit_seal commits: manifests and final status appear together.
CommitSeal(p) ==
    /\ seal[p].at = "writing"
    /\ manifest' = [gen |-> seal[p].gen, lines |-> seal[p].seen]
    /\ row' = [row EXCEPT !.phase = "sealed", !.status = row.final,
                          !.owner = Nobody, !.lease = "none"]
    /\ seal' = [seal EXCEPT ![p] = IdleSeal]
    /\ UNCHANGED <<stored, open, badLine, val, listed, dl, faults>>

-----------------------------------------------------------------------------
(* The items, the owner and the sweep *)

\* An item ends and the batch is settled.
FinishItem(l) ==
    /\ RowFree
    /\ row.phase = "runnable"
    /\ l \in open
    /\ open' = open \ {l}
    /\ row' = Settled(row, open \ {l})
    /\ UNCHANGED <<stored, badLine, val, seal, listed, manifest, dl, faults>>

Closable ==
    row.status \in {"validating", "in_progress"} /\ row.phase \in {"validating", "runnable"}

\* The batch is closed to new starts: queued items end, running ones go on.
CloseAs(status) ==
    /\ RowFree
    /\ Closable
    /\ \E running \in SUBSET open :
          /\ open' = running
          /\ row' = Settled([row EXCEPT !.status = status], running)
    /\ UNCHANGED <<stored, badLine, val, seal, listed, manifest, dl, faults>>

CancelBatch == ~row.deleted /\ CloseAs("cancelling")

ExpireBatch == CloseAs("expired")

GoneRow == [phase |-> "none", status |-> "failed", final |-> "none", count |-> 0,
            owner |-> Nobody, lease |-> "none", gen |-> 0,
            deleted |-> FALSE, read |-> FALSE]

\* The row goes, and its items and result files with it.
RemoveRow ==
    /\ row' = GoneRow
    /\ stored' = {} /\ open' = {} /\ manifest' = NoManifest
    /\ UNCHANGED <<badLine, val, seal, listed, dl, faults>>

\* delete_batch, when no item has a live upstream call (BatchItems says when
\* that is): at once, or only marked while a download reads the batch.
DeleteBatch ==
    /\ RowFree
    /\ row.phase # "none" /\ ~row.deleted
    /\ \/ ~row.read /\ RemoveRow
       \/ /\ row.read
          /\ row' = [row EXCEPT !.deleted = TRUE]
          /\ UNCHANGED <<stored, open, badLine, val, seal, listed, manifest, dl, faults>>

\* _purge_retained: past its retention, or deleted and no longer read.
PurgeBatch ==
    /\ RowFree
    /\ \/ row.phase = "sealed"
       \/ row.phase = "runnable" /\ row.status = "expired"
       \/ row.deleted
    /\ ~row.read
    /\ RemoveRow

-----------------------------------------------------------------------------
(* stream_lines: one download of the results *)

\* take_read_lease; a file is checked against its manifest, an export is not.
StartDownload ==
    /\ RowFree
    /\ dl.at = "idle"
    /\ row.phase = "sealed" /\ ~row.deleted
    /\ row' = [row EXCEPT !.read = TRUE]
    /\ \E checked \in BOOLEAN :
          dl' = [NoDownload EXCEPT !.at = "reading", !.checked = checked,
                                   !.want = manifest.lines]
    /\ UNCHANGED <<stored, open, badLine, val, seal, listed, manifest, faults>>

\* stream_requests takes a read lease in any phase, and only reads.
ExportRequests ==
    /\ RowFree
    /\ row.phase # "none" /\ ~row.deleted /\ ~row.read
    /\ row' = [row EXCEPT !.read = TRUE]
    /\ UNCHANGED <<stored, open, badLine, val, seal, listed, manifest, dl, faults>>

\* A page is read; a lost lease ends the download as interrupted.
ReadPage ==
    /\ dl.at = "reading"
    /\ dl' = CASE dl.lost -> [dl EXCEPT !.at = "interrupted"]
               [] ~dl.lost /\ Page(dl.seen) = {} -> [dl EXCEPT !.at = "ending"]
               [] OTHER -> [dl EXCEPT !.seen = @ \cup Page(@)]
    /\ UNCHANGED <<row, stored, open, badLine, val, seal, listed, manifest, faults>>

\* No page is left: the download is complete if the batch is still stored
\* and what was read matches the manifest.
EndDownload ==
    /\ dl.at = "ending"
    /\ dl' = [dl EXCEPT !.at =
                 IF row.phase # "none" /\ (dl.checked => dl.seen = dl.want)
                   THEN "complete" ELSE "interrupted"]
    /\ UNCHANGED <<row, stored, open, badLine, val, seal, listed, manifest, faults>>

\* The LeaseKeeper renews, or finds the batch gone; it also stops after
\* MAX_DOWNLOAD_SECONDS.
KeepLease ==
    /\ RowFree
    /\ dl.at \in {"reading", "ending"} /\ ~dl.lost
    /\ \/ row.phase # "none" /\ row' = [row EXCEPT !.read = TRUE] /\ UNCHANGED dl
       \/ dl' = [dl EXCEPT !.lost = TRUE] /\ UNCHANGED row
    /\ UNCHANGED <<stored, open, badLine, val, seal, listed, manifest, faults>>

\* read_lease_until passes: the download is over, or its renewals failed.
ReadLeaseRunsOut ==
    /\ RowFree
    /\ row.read
    /\ row' = [row EXCEPT !.read = FALSE]
    /\ UNCHANGED <<stored, open, badLine, val, seal, listed, manifest, dl, faults>>

-----------------------------------------------------------------------------
Validate(p) ==
    \/ ResetStagedItems(p) \/ CheckOwner(p) \/ MeetBadLine(p) \/ StageItems(p)
    \/ PublishValidated(p) \/ Abort(p) \/ FailValidation(p)

\* The steps of a batch other than those that also touch the webhook outbox
\* (LockSeal, CommitSeal, ProcessDies and DeleteBatch), which FileBatch joins to it.
WorkStep ==
    \/ \E p \in Processes :
          ClaimValidating(p) \/ ClaimSealing(p) \/ Validate(p) \/ RenderPage(p)
    \/ LeaseRunsOut \/ ListStaleValidation \/ FailStaleValidation
    \/ \E l \in FileLines : FinishItem(l)
    \/ CancelBatch \/ ExpireBatch \/ PurgeBatch
    \/ ExportRequests \/ StartDownload \/ ReadPage \/ EndDownload \/ KeepLease \/ ReadLeaseRunsOut

-----------------------------------------------------------------------------
(* Properties *)

\* The row, the tasks and the download have the shapes the code gives them.
WorkTypeOK ==
    /\ row.phase \in Phases /\ row.status \in Statuses
    /\ row.final \in {"none", "completed", "cancelled", "expired", "failed"}
    /\ row.count \in Nat /\ row.owner \in Processes \cup {Nobody}
    /\ row.lease \in {"none", "live", "lapsed"} /\ row.gen \in Nat
    /\ stored \subseteq FileLines /\ open \subseteq stored
    /\ manifest.lines \subseteq FileLines /\ dl.seen \subseteq FileLines

\* Whatever takeovers its validation went through, a batch runs every line of
\* its file and counts each once, and nothing of a file with a bad line
\* anywhere in it ever runs (validate_file_batch: "nothing will run").
WholeFileRuns ==
    row.phase = "runnable" =>
        badLine = 0 /\ stored = FileLines /\ row.count = Lines

\* A sealed batch has exactly one set of result files, rendered by the newest
\* generation from every item it holds; no other batch has any (commit_seal:
\* "exactly one set is valid").
ManifestIsWhole ==
    IF row.phase = "sealed"
      THEN manifest = [gen |-> row.gen, lines |-> stored] /\ open = {}
      ELSE manifest = NoManifest

\* Validation and sealing always end: neither a validator that dies, nor a
\* takeover, nor a cancel in between leaves the batch waiting for ever.
WorkEnds ==
    \A phase \in {"validating", "sealing"} :
        (row.phase = phase) ~> (row.phase # phase)

=============================================================================
