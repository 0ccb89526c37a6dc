---------------------------- MODULE LedgerPromise ----------------------------
(***************************************************************************)
(* What the spend ledger promises about the costs of an account (the       *)
(* docstring of serving/spend_ledger.py): what a request cost is recorded  *)
(* once and stands, is added to the counter table once at most however     *)
(* often its write is tried, is never taken out, and is closed (the ledger *)
(* no longer adds it to what a gate reads) only when it is in the table.   *)
(* A cost whose write nobody could confirm stays open.                     *)
(***************************************************************************)
EXTENDS Naturals

CONSTANTS Requests, Costs

VARIABLES owed,     \* what each request cost, 0 while it is not known
          charged,  \* how often that is in the table
          closed    \* the requests whose costs the ledger no longer adds

Init ==
    /\ owed = [r \in Requests |-> 0]
    /\ charged = [r \in Requests |-> 0]
    /\ closed = {}

\* record.
Owe(r, c) ==
    /\ owed[r] = 0
    /\ owed' = [owed EXCEPT ![r] = c]
    /\ UNCHANGED <<charged, closed>>

\* A transaction of increment_user_costs commits.
Charge(batch) ==
    /\ \A r \in batch : owed[r] # 0 /\ charged[r] = 0
    /\ charged' = [r \in Requests |-> IF r \in batch THEN 1 ELSE charged[r]]
    /\ UNCHANGED <<owed, closed>>

\* _land.
Close(batch) ==
    /\ \A r \in batch : charged[r] = 1
    /\ closed' = closed \cup batch
    /\ UNCHANGED <<owed, charged>>

Next ==
    \/ \E r \in Requests, c \in Costs : Owe(r, c)
    \/ \E batch \in SUBSET Requests : Charge(batch) \/ Close(batch)

Spec == Init /\ [][Next]_<<owed, charged, closed>>
=============================================================================
