---------------------------- MODULE BatchPromise ----------------------------
(***************************************************************************)
(* What a batch promises its owner (module docstring of                    *)
(* serving/storage/batch_store.py, _settle and _finalize): every request   *)
(* gets exactly one result, the batch announces one outcome, only over     *)
(* finished requests, and afterwards nothing changes but the deletion of   *)
(* the whole batch.                                                        *)
(***************************************************************************)
CONSTANT Items  \* the batch's requests

VARIABLES result,  \* of each request: "open", how it ended, or "deleted"
          outcome  \* of the batch: "none", or how it ended

Ends == {"completed", "failed", "cancelled", "expired"}

Finished(res) == \A i \in Items : res[i] # "open"

\* Only a cancelled batch has cancelled requests, and only an expired one
\* expired requests.
Agrees(res, out) ==
    \A i \in Items : res[i] \in {"cancelled", "expired"} => out = res[i]

\* Requests that fail admission have their result from the start.
Init ==
    /\ result \in [Items -> {"open", "failed"}]
    /\ outcome = IF Finished(result) THEN "completed" ELSE "none"

\* Open requests end; with the last of them, or later, so does the batch.
Decide ==
    /\ outcome = "none"
    /\ \A i \in Items : result[i] # "deleted"
    /\ result' \in [Items -> {"open"} \cup Ends]
    /\ \A i \in Items : result[i] # "open" => result'[i] = result[i]
    /\ \/ outcome' = "none"
       \/ /\ outcome' \in Ends
          /\ Finished(result')
          /\ Agrees(result', outcome')

\* delete_batch, delete_user_batches, the retention sweep.
Forget ==
    /\ result' = [i \in Items |-> "deleted"]
    /\ UNCHANGED outcome

Next == Decide \/ Forget

Spec == Init /\ [][Next]_<<result, outcome>>
=============================================================================
