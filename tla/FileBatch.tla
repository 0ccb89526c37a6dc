------------------------------ MODULE FileBatch ------------------------------
(***************************************************************************)
(* A file batch and its webhook outbox together: sealing writes the event  *)
(* in its own transaction, deleting the batch removes an undelivered one,  *)
(* and erasing the owner removes both, whatever is still at work on them.  *)
(***************************************************************************)
EXTENDS BatchWork, WebhookOutbox

VARIABLE erased   \* delete_user_batches has run; the account is going

fileBatchVars == <<workVars, outboxVars, erased>>

FileBatchInit == WorkInit /\ OutboxInit /\ erased = FALSE

\* commit_seal begins, and reads the webhook under the batch row's lock.
BeginSeal(p) ==
    /\ LockSeal(p)
    /\ IF SealOwned(p) THEN ReadHook ELSE UNCHANGED outboxVars
    /\ UNCHANGED erased

\* commit_seal commits the results and the event as one.
EndSeal(p) == CommitSeal(p) /\ EnqueueEvent /\ UNCHANGED erased

\* A process that dies in that transaction leaves neither.
Crash(p) ==
    /\ ProcessDies(p)
    /\ IF seal[p].at = "writing" THEN ForgetHook ELSE UNCHANGED outboxVars
    /\ UNCHANGED erased

\* delete_batch.
Delete == DeleteBatch /\ DropEvent /\ UNCHANGED erased

\* delete_user_batches, once the account is marked for deletion: the batch,
\* the webhook and its events, in one transaction.
EraseOwner ==
    /\ ~erased
    /\ RowFree
    /\ RemoveRow
    /\ EraseWebhook
    /\ erased' = TRUE

\* set_webhook refuses an account that is being erased.
ConfigureWebhook ==
    /\ ~erased
    /\ \E enabled \in BOOLEAN : SetWebhook(enabled)
    /\ UNCHANGED <<workVars, erased>>

FileBatchNext ==
    \/ WorkStep /\ UNCHANGED <<outboxVars, erased>>
    \/ OutboxStep /\ UNCHANGED <<workVars, erased>>
    \/ \E p \in Processes : BeginSeal(p) \/ EndSeal(p) \/ Crash(p)
    \/ Delete \/ EraseOwner \/ ConfigureWebhook

FileBatchSpec == FileBatchInit /\ [][FileBatchNext]_fileBatchVars

(* Fairness: each process polls for work and runs its tasks (the scheduler *)
(* loop), leases run out and retries fall due as time passes, and the      *)
(* sweep runs periodically.  Nothing is assumed of the owner.              *)
Alone(A) == A /\ UNCHANGED <<outboxVars, erased>>
OutboxAlone(A) == A /\ UNCHANGED <<workVars, erased>>

FileBatchFairness ==
    /\ \A p \in Processes :
          /\ WF_fileBatchVars(Alone(ClaimValidating(p)))
          /\ WF_fileBatchVars(Alone(ClaimSealing(p)))
          /\ WF_fileBatchVars(Alone(Validate(p)))
          /\ WF_fileBatchVars(Alone(RenderPage(p)))
          /\ WF_fileBatchVars(BeginSeal(p))
          /\ WF_fileBatchVars(EndSeal(p))
    /\ WF_fileBatchVars(Alone(LeaseRunsOut))
    /\ WF_fileBatchVars(Alone(ListStaleValidation))
    /\ WF_fileBatchVars(Alone(FailStaleValidation))
    /\ WF_fileBatchVars(Alone(PurgeBatch))
    /\ WF_fileBatchVars(Alone(ReadLeaseRunsOut))
    /\ \A p \in Senders : WF_fileBatchVars(OutboxAlone(Deliver(p)))
    /\ WF_fileBatchVars(OutboxAlone(EventDue))
    /\ WF_fileBatchVars(OutboxAlone(EventLeaseRunsOut))
    /\ WF_fileBatchVars(OutboxAlone(FailExhausted))

FairFileBatchSpec == FileBatchSpec /\ FileBatchFairness

-----------------------------------------------------------------------------
(* Properties *)

\* What became of the event of the batch: a batch that is sealed or gone
\* without one never has it again.
EventOutcome ==
    IF event.status # "none" THEN event.status
    ELSE IF row.phase \in {"sealed", "none"} THEN "gone" ELSE "none"

Outbox == INSTANCE EventPromise WITH outcome <- EventOutcome, tries <- sent

\* Sealing, the senders and the owner together keep the promise of EventPromise:
\* whoever takes over whose lease, a sender that comes late neither changes what
\* became of an event nor brings a removed one back, no event is enqueued twice,
\* and none is posted more than MAX_ATTEMPTS times (claim_due_events counts an
\* attempt with the lease; the fence of mark_delivered and mark_failed).
EventKeepsPromise == Outbox!Spec

=============================================================================
