--------------------------- MODULE WebhookOutbox ---------------------------
(***************************************************************************)
(* One owner's webhook and the outbox event of one batch.  The event is    *)
(* written in the transaction that makes the batch final, delivered by     *)
(* whichever scheduler process leases it, retried a bounded number of      *)
(* times, and removed with its webhook or with its batch.                  *)
(*                                                                         *)
(* storage/batch_webhook_store.py, deliver_due_events of batch/webhooks.py *)
(* and _enqueue_event of storage/batch_store.py.                           *)
(***************************************************************************)
EXTENDS Naturals

CONSTANTS
    Senders,       \* processes that run deliver_due_events
    NoSender,      \* no lease_owner
    MaxAttempts,   \* deliveries tried before an event is given up
    MaxStalls      \* leases that run out under a live sender, or senders lost

ASSUME OutboxAssumption ==
    NoSender \notin Senders /\ MaxAttempts \in Nat \ {0} /\ MaxStalls \in Nat

VARIABLES
    hook,      \* the batch_webhooks row: "none", "enabled" or "disabled"
    hookRead,  \* what the open sealing transaction read of it, holding its row
    event,     \* the batch_webhook_events row
    sender,    \* deliver_due_events of each process
    sent,      \* deliveries made so far
    stalls     \* those so far: a behaviour may begin with some of them spent

outboxVars == <<hook, hookRead, event, sender, sent, stalls>>

NoEvent == [status |-> "none", attempts |-> 0, owner |-> NoSender,
            lease |-> "none", due |-> TRUE]

IdleSender == [at |-> "idle", attempt |-> 0, ok |-> FALSE]

OutboxInit ==
    /\ hook \in {"none", "enabled", "disabled"}
    /\ hookRead = "closed"
    /\ event = NoEvent
    /\ sender = [p \in Senders |-> IdleSender]
    /\ sent = 0
    /\ stalls \in 0..MaxStalls

-----------------------------------------------------------------------------
(* The sealing transaction and the owner's settings *)

\* _enqueue_event reads the webhook row and holds it (FOR KEY SHARE) ...
ReadHook == hookRead' = hook /\ UNCHANGED <<hook, event, sender, sent, stalls>>

\* ... and the event is there when the transaction commits.
EnqueueEvent ==
    /\ event' = IF hookRead = "enabled" THEN [NoEvent EXCEPT !.status = "pending"] ELSE event
    /\ hookRead' = "closed"
    /\ UNCHANGED <<hook, sender, sent, stalls>>

\* The transaction is rolled back.
ForgetHook == hookRead' = "closed" /\ UNCHANGED <<hook, event, sender, sent, stalls>>

\* set_webhook: neither the url nor the switch is part of the row's key, so
\* it does not wait for a sealing transaction.
SetWebhook(enabled) ==
    /\ hook' = IF enabled THEN "enabled" ELSE "disabled"
    /\ UNCHANGED <<hookRead, event, sender, sent, stalls>>

PendingRemoved == IF event.status = "pending" THEN NoEvent ELSE event

\* delete_webhook: waits for a transaction that holds the row, then removes
\* the webhook and every undelivered event under it.
DeleteWebhook ==
    /\ hook # "none"
    /\ hookRead \in {"closed", "none"}
    /\ hook' = "none"
    /\ event' = PendingRemoved
    /\ UNCHANGED <<hookRead, sender, sent, stalls>>

\* Deleting a batch removes its undelivered event.
DropEvent ==
    /\ event' = PendingRemoved
    /\ UNCHANGED <<hook, hookRead, sender, sent, stalls>>

\* delete_user_batches also removes the webhook and every event.
EraseWebhook ==
    /\ hookRead \in {"closed", "none"}
    /\ hook' = "none" /\ event' = NoEvent
    /\ UNCHANGED <<hookRead, sender, sent, stalls>>

-----------------------------------------------------------------------------
(* deliver_due_events *)

\* claim_due_events: every lease counts as an attempt.
ClaimEvent(p) ==
    /\ sender[p].at = "idle"
    /\ hook # "none"
    /\ event.status = "pending" /\ event.due
    /\ event.attempts < MaxAttempts
    /\ event.lease # "live"
    /\ event' = [event EXCEPT !.owner = p, !.lease = "live", !.attempts = @ + 1]
    /\ sender' = [sender EXCEPT ![p] =
                     [at |-> IF hook = "enabled" THEN "posting" ELSE "refused",
                      attempt |-> event.attempts + 1, ok |-> FALSE]]
    /\ UNCHANGED <<hook, hookRead, sent, stalls>>

\* The signing secret cannot be read.
SecretUnreadable(p) ==
    /\ sender[p].at = "posting"
    /\ sender' = [sender EXCEPT ![p].at = "refused"]
    /\ UNCHANGED <<hook, hookRead, event, sent, stalls>>

\* deliver: the receiver acknowledges, or does not.
Post(p) ==
    /\ sender[p].at = "posting"
    /\ \E ok \in BOOLEAN :
          sender' = [sender EXCEPT ![p].at = "recording", ![p].ok = ok]
    /\ sent' = sent + 1
    /\ UNCHANGED <<hook, hookRead, event, stalls>>

\* The fence without the event's own status and attempt.
FencedByNobody(p) == event.status # "none"

\* The fence of mark_delivered and mark_failed.
Fenced(p) ==
    event.status = "pending" /\ event.owner = p /\ event.attempts = sender[p].attempt

Ended(status) == [event EXCEPT !.status = status, !.owner = NoSender, !.lease = "none"]

\* mark_failed after a delivery: another try later (next_attempt_at), or none.
Retried(attempt) ==
    IF attempt >= MaxAttempts
      THEN Ended("failed")
      ELSE [event EXCEPT !.owner = NoSender, !.lease = "none", !.due = FALSE]

\* mark_delivered or mark_failed, once the outcome is known.
RecordOutcome(p) ==
    /\ sender[p].at \in {"recording", "refused"}
    /\ event' = CASE ~Fenced(p) -> event
                  [] Fenced(p) /\ sender[p].at = "refused" -> Ended("failed")
                  [] Fenced(p) /\ sender[p].at = "recording" /\ sender[p].ok ->
                        Ended("delivered")
                  [] OTHER -> Retried(sender[p].attempt)
    /\ sender' = [sender EXCEPT ![p] = IdleSender]
    /\ UNCHANGED <<hook, hookRead, sent, stalls>>

\* next_attempt_at passes.
EventDue ==
    /\ event.status = "pending" /\ ~event.due
    /\ event' = [event EXCEPT !.due = TRUE]
    /\ UNCHANGED <<hook, hookRead, sender, sent, stalls>>

\* The lease runs out: its holder has gone, or (a stall) is still sending.
EventLeaseRunsOut ==
    /\ event.lease = "live"
    /\ LET stalled == event.owner \in Senders /\ sender[event.owner].at # "idle"
       IN  /\ stalled => stalls < MaxStalls
           /\ stalls' = IF stalled THEN stalls + 1 ELSE stalls
    /\ event' = [event EXCEPT !.lease = "lapsed"]
    /\ UNCHANGED <<hook, hookRead, sender, sent>>

SenderDies(p) ==
    /\ stalls < MaxStalls
    /\ sender[p].at # "idle"
    /\ sender' = [sender EXCEPT ![p] = IdleSender]
    /\ stalls' = stalls + 1
    /\ UNCHANGED <<hook, hookRead, event, sent>>

\* fail_exhausted that only looks for events nobody holds.
ExhaustedUnleased ==
    /\ event.status = "pending"
    /\ event.attempts >= MaxAttempts
    /\ event.lease = "none"
    /\ event' = [event EXCEPT !.status = "failed"]
    /\ UNCHANGED <<hook, hookRead, sender, sent, stalls>>

\* fail_exhausted: every attempt was taken and the last lease has run out.
\* (Its second statement only meets rows an older version left behind.)
FailExhausted ==
    /\ event.status = "pending"
    /\ event.attempts >= MaxAttempts
    /\ event.lease # "live"
    /\ event' = [event EXCEPT !.status = "failed"]
    /\ UNCHANGED <<hook, hookRead, sender, sent, stalls>>

\* purge_old_events.
PurgeOldEvent ==
    /\ event.status \in {"delivered", "failed"}
    /\ event' = NoEvent
    /\ UNCHANGED <<hook, hookRead, sender, sent, stalls>>

Deliver(p) == ClaimEvent(p) \/ SecretUnreadable(p) \/ Post(p) \/ RecordOutcome(p)

OutboxStep ==
    \/ DeleteWebhook
    \/ \E p \in Senders : Deliver(p) \/ SenderDies(p)
    \/ EventDue \/ EventLeaseRunsOut \/ FailExhausted \/ PurgeOldEvent

-----------------------------------------------------------------------------
(* Properties *)

\* What became of an event stands: a sender that lost its lease and reports
\* late never turns a delivered event into a failed or pending one, nor a
\* given-up event back (the fence of mark_delivered and mark_failed).
OutcomeStands ==
    [][ event.status \in {"delivered", "failed"}
        => event' = NoEvent \/ event'.status = event.status ]_outboxVars

\* Every event ends: delivered, given up, or removed.
EventEnds == event.status = "pending" ~> event.status # "pending"

=============================================================================
