-------------------------- MODULE MCBatchAdmission --------------------------
(***************************************************************************)
(* BatchAdmission explored from four sides, one at a time: retries under a *)
(* key, the caps, the uploaded file, and the erasure of the account.  A    *)
(* side leaves out the requests and the events the others are about.       *)
(***************************************************************************)
EXTENDS BatchAdmission, TLC

VARIABLE focus

mcVars == <<admissionVars, focus>>

MCCapChoices == {[active |-> 1, queued |-> 2], [active |-> 2, queued |-> 1]}

MCSymmetry == Permutations(Clients)

MCInit ==
    /\ AdmissionInit
    /\ focus \in {"keys", "caps", "file", "account"}
    /\ focus \in {"keys", "file"} => caps.active = 2
    /\ focus \in {"caps", "file"} => ofFile = {}

\* The requests a side sends.
Sends(r) ==
    r.at = "looked" =>
        /\ (r.key # NoKey) = (focus \in {"keys", "account"})
        /\ focus = "file" => r.via = "file"

MCNext ==
    /\ AdmissionNext
    /\ UNCHANGED focus
    /\ \A c \in Clients : Sends(client'[c])
    /\ focus \in {"keys", "caps"} => UNCHANGED <<upload, chosen>>
    /\ focus # "account" => UNCHANGED owner
    /\ focus = "account" => UNCHANGED <<chosen, dayPast>>
    /\ focus \in {"caps", "file"} => UNCHANGED dayPast

MCSpec == MCInit /\ [][MCNext]_mcVars

=============================================================================
