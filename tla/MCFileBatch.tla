---------------------------- MODULE MCFileBatch ----------------------------
(* FileBatch with two scheduler processes, looked at from two sides that    *)
(* would be too many states together: "file" has the faults of validators   *)
(* and sealers and a download, and no webhook; "outbox" has the webhook and *)
(* the stalls of senders, a file that validates, no other fault and no      *)
(* download of results.                                                     *)
EXTENDS FileBatch

VARIABLE focus

MCInit ==
    /\ FileBatchInit
    /\ focus \in {"file", "outbox"}
    /\ IF focus = "file"
         THEN hook = "none" /\ stalls = MaxStalls /\ faults = 0
         ELSE badLine = 0 /\ stalls = 0 /\ faults = MaxFaults

MCNext ==
    /\ FileBatchNext
    /\ UNCHANGED focus
    /\ focus = "file" => hook' = "none"
    /\ focus = "outbox" => dl' = dl

MCSpec == MCInit /\ [][MCNext]_<<fileBatchVars, focus>> /\ FileBatchFairness

=============================================================================
