---------------------------- MODULE EventPromise ----------------------------
(***************************************************************************)
(* What the outbox promises about the event of a batch (the docstrings of  *)
(* serving/batch/webhooks.py and storage/batch_webhook_store.py): a batch  *)
(* announces its end once, the announcement is sent at most MaxAttempts    *)
(* times in all, it counts as delivered only if it was sent, and its fate, *)
(* once known, is final until the event is removed for good.  A sender may *)
(* be late: it may send once more what another has delivered or given up,  *)
(* or what the owner has removed.                                          *)
(***************************************************************************)
EXTENDS Naturals

CONSTANT MaxAttempts  \* times the event may be sent

VARIABLES outcome,  \* "none" yet, "pending", "delivered", "failed" or "gone"
          tries     \* times it was sent

Init == outcome = "none" /\ tries = 0

\* The batch is final and announces it, unless it has no webhook or is gone.
Announce ==
    /\ outcome = "none"
    /\ outcome' \in {"pending", "gone"}
    /\ UNCHANGED tries

\* deliver.
Send ==
    /\ outcome # "none"
    /\ tries < MaxAttempts
    /\ tries' = tries + 1
    /\ UNCHANGED outcome

\* mark_delivered, mark_failed, fail_exhausted.
Decide ==
    /\ outcome = "pending"
    /\ outcome' \in {"delivered", "failed"}
    /\ outcome' = "delivered" => tries > 0
    /\ UNCHANGED tries

\* The owner, the retention sweep or the erasure of the account removes it.
Remove ==
    /\ outcome # "none"
    /\ outcome' = "gone"
    /\ UNCHANGED tries

Next == Announce \/ Send \/ Decide \/ Remove

Spec == Init /\ [][Next]_<<outcome, tries>>
=============================================================================
