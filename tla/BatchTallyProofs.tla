-------------------------- MODULE BatchTallyProofs --------------------------
(***************************************************************************)
(* Proofs about what a batch counts (BatchItems), for every number of      *)
(* items, workers and claims: the model's cap on live leases, the counters *)
(* of results and of costs, and that a finalized batch is complete and     *)
(* never changes.                                                          *)
(*                                                                         *)
(* They rest on the invariant of BatchItemsProofs and three more, each a   *)
(* predicate of rows: leases belong to running items (Leases), counters    *)
(* agree with the items (Agree) and with the attempts (Costed).  Every     *)
(* step is one of a few kinds (StepKinds); most end with _settle, which    *)
(* keeps each of the three on any rows it is handed.                       *)
(***************************************************************************)
EXTENDS BatchItemsProofs, TLAPS

\* A leaf that names no prover is tried with SMT, then with Zenon.
USE SMTT(30), ZenonT(30)

\* The kinds of steps that write items, attempts or counters.

\* retry_item and release_item, with the cost they report.
Requeues(a, cost, n) ==
    /\ Writable(a)
    /\ Settle(job, Billed(counts, cost), Unclaimed(a[1], n), Closed(a, cost))

\* cancel_batch, fail_batch and the sweep.
Closes(s) ==
    /\ Exists /\ job.phase = "runnable"
    /\ s = job.status \/ Claiming
    /\ Settle([job EXCEPT !.status = s], counts, item, attempt)

\* A step that writes none of them; only commit_seal changes the status, of a
\* batch that is no longer runnable, to its final status.
Quiet ==
    /\ UNCHANGED <<counts, item, attempt, renewing>>
    /\ job'.status \in {job.status} \cup FinalStatus
    /\ job'.phase = "runnable" => job.phase = "runnable"

Kinds ==
    \/ \E a \in Attempts, status \in {"completed", "failed"}, cost \in Costs :
         CompleteItem(a, status, cost)
    \/ \E a \in Attempts, cost \in Costs, n \in 0 .. MaxSeq : Requeues(a, cost, n)
    \/ \E s \in {"cancelling", "failed", "expired", job.status} : Closes(s)
    \/ \E w \in Workers, S \in SUBSET Items : Claim(w, S)
    \/ \E w \in Workers : Renew(w)
    \/ \E i \in Items : LeaseLapses(i)
    \/ RenewCommits
    \/ RenewFails
    \/ \E a \in Attempts : MarkDispatched(a)
    \/ Erase
    \/ Quiet

\* A released attempt is billed like a reported one: as unknown when its call
\* had begun, and not at all otherwise.
LEMMA ReleaseRequeues ==
    ASSUME IInv, NEW a \in Attempts, NEW dispatched \in BOOLEAN, ReleaseItem(a, dispatched)
    PROVE  \E cost \in Costs, n \in 0 .. MaxSeq : Requeues(a, cost, n)
<1>1. counts \in [Counters -> Nat] /\ item[a[1]] \in ItemRow
  BY TypeForm DEF IInv, ItemRows, Attempts
<1>2. item[a[1]].attempts \in 0 .. MaxSeq
  BY <1>1 DEF ItemRow
<1> DEFINE n == IF item[a[1]].attempts > 0 THEN item[a[1]].attempts - 1 ELSE 0
           cost == IF dispatched THEN "unknown" ELSE "not_billed"
<1>3. n \in 0 .. MaxSeq /\ cost \in Costs
  BY <1>2, BatchAssumption DEF Costs
<1>4. Billed(counts, cost) = IF dispatched THEN Plus(counts, "unknown", 1) ELSE counts
  <2>1. CASE dispatched
    BY <1>1, <2>1, Zenon DEF Billed, Plus, Counters
  <2>2. CASE ~ dispatched
    BY <1>1, <2>2 DEF Billed, Counters
  <2>3. QED
    BY <2>1, <2>2
<1>5. Requeues(a, cost, n)
  BY <1>4 DEF ReleaseItem, Requeues, Requeued
<1> HIDE DEF n, cost
<1>6. QED
  BY <1>3, <1>5

\* What a worker does with its attempt is of one of the kinds.
LEMMA WorkerKinds ==
    ASSUME IInv, NEW a \in Attempts, WorkerStep(a)
    PROVE  Kinds
<1>1. ReportCosts \subseteq Costs /\ item[a[1]] \in ItemRow
  BY TypeForm, BatchAssumption DEF IInv, ItemRows, Attempts, Costs
<1>2. item[a[1]].attempts \in 0 .. MaxSeq
  BY <1>1 DEF ItemRow
<1>3. ASSUME NEW dispatched \in BOOLEAN, ReleaseItem(a, dispatched)
      PROVE  Kinds
  BY <1>3, ReleaseRequeues DEF Kinds
<1>4. CASE MarkDispatched(a)
  BY <1>4 DEF Kinds
<1>5. ASSUME NEW ack \in BOOLEAN, NEW status \in {"completed", "failed"}, NEW cost \in ReportCosts,
             Complete(a, status, cost, ack)
      PROVE  Kinds
  BY <1>1, <1>5 DEF Kinds, Complete
<1>6. ASSUME NEW ack \in BOOLEAN, GiveUp(a, ack)
      PROVE  Kinds
  <2>1. "not_billed" \in Costs /\ CompleteItem(a, "failed", "not_billed")
    BY <1>6 DEF GiveUp, Costs
  <2>2. QED
    BY <2>1 DEF Kinds
<1>7. ASSUME NEW cost \in ReportCosts, Retry(a, cost)
      PROVE  Kinds
  <2>1. Requeues(a, cost, item[a[1]].attempts)
    BY <1>7 DEF Retry, Requeues, Requeued
  <2>2. QED
    BY <1>1, <1>2, <2>1 DEF Kinds
<1>8. ASSUME NEW dispatched \in BOOLEAN, Release(a, dispatched)
      PROVE  Kinds
  BY <1>3, <1>8 DEF Release
<1>9. ASSUME UNCHANGED <<job, counts, item, attempt, renewing>>
      PROVE  Kinds
  BY <1>9 DEF Kinds, Quiet
<1>10. CASE Reject(a)
  BY <1>3, <1>9, <1>10, Zenon DEF Reject
<1>11. CASE FailBatch(a)
  <2>1. CASE Exists /\ Claiming
    <3>1. Closes("failed")
      BY <1>11, <2>1 DEF FailBatch, Closes, Claiming
    <3>2. QED
      BY <3>1 DEF Kinds
  <2>2. CASE ~ (Exists /\ Claiming)
    BY <1>9, <1>11, <2>2 DEF FailBatch
  <2>3. QED
    BY <2>1, <2>2
<1>12. CASE Refused(a) \/ Dies(a)
  BY <1>9, <1>12 DEF Refused, Dies
<1>13. QED
  BY <1>4, <1>5, <1>6, <1>7, <1>8, <1>10, <1>11, <1>12 DEF WorkerStep

\* Every step is of one of the kinds.
LEMMA StepKinds ==
    ASSUME IInv, [Next]_vars
    PROVE  Kinds
<1>1. job \in Jobs /\ Judged(job, item)
  BY TypeForm DEF IInv
<1>2. ASSUME UNCHANGED <<job, counts, item, attempt, renewing>>
      PROVE  Kinds
  BY <1>2 DEF Kinds, Quiet
<1>3. CASE UNCHANGED vars
  BY <1>2, <1>3 DEF vars
<1>4. ASSUME NEW w \in Workers, Renew(w) \/ \E S \in SUBSET Items : Claim(w, S)
      PROVE  Kinds
  BY <1>4 DEF Kinds
<1>5. CASE \/ \E i \in Items : LeaseLapses(i)
           \/ RenewCommits
           \/ RenewFails
  BY <1>5 DEF Kinds
<1>6. CASE \E a \in Attempts : WorkerStep(a)
  BY <1>6, WorkerKinds
<1>7. CASE Cancel
  <2>1. Closes("cancelling")
    BY <1>7 DEF Cancel, Closes, Claiming, Exists
  <2>2. QED
    BY <2>1 DEF Kinds
<1>8. CASE SweepExpire
  <2>1. Closes("expired")
    BY <1>8 DEF SweepExpire, Closes, Claiming
  <2>2. QED
    BY <2>1 DEF Kinds
<1>9. CASE SweepSettle
  <2>1. [job EXCEPT !.status = job.status] = job
    BY <1>1 DEF Jobs
  <2>2. Closes(job.status)
    BY <1>9, <2>1 DEF SweepSettle, SettleCandidate, Closes
  <2>3. QED
    BY <2>2 DEF Kinds
<1>10. CASE CommitSeal
  <2>1. /\ job.row = "stored" /\ job.phase = "sealing"
        /\ job' = [job EXCEPT !.phase = "sealed", !.status = job.pending]
        /\ UNCHANGED <<counts, item, attempt, renewing>>
    BY <1>10 DEF CommitSeal
  <2>2. job'.phase = "sealed" /\ job'.status = job.pending /\ job.pending \in FinalStatus
    BY <1>1, <2>1 DEF Jobs, Judged
  <2>3. QED
    BY <2>1, <2>2 DEF Kinds, Quiet
<1>11. CASE WindowEnds \/ StartReading \/ StopReading
  BY <1>2, <1>11 DEF WindowEnds, StartReading, StopReading
<1>12. CASE Delete
  <2>1. CASE Erase
    BY <2>1 DEF Kinds
  <2>2. CASE ~ Erase
    <3>1. /\ job' = [job EXCEPT !.row = "hidden"]
          /\ UNCHANGED <<counts, item, attempt, renewing>>
      BY <1>12, <2>2 DEF Delete
    <3>2. job'.status = job.status /\ job'.phase = job.phase
      BY <1>1, <3>1 DEF Jobs
    <3>3. QED
      BY <3>1, <3>2 DEF Kinds, Quiet
  <2>3. QED
    BY <2>1, <2>2
<1>13. CASE Purge \/ DeleteUser
  BY <1>13 DEF Purge, DeleteUser, Kinds
<1>14. QED
  BY <1>3, <1>4, <1>5, <1>6, <1>7, <1>8, <1>9, <1>10, <1>11, <1>12, <1>13 DEF Next

-----------------------------------------------------------------------------
\* What _settle does to rows that its transaction hands it.
StaleOf(j, its) == IF j.phase = "runnable" /\ Verdict(j.status) # "none" THEN Stale(its) ELSE {}
SettledOf(j, its) ==
    IF j.phase = "runnable" /\ Verdict(j.status) # "none"
    THEN Queued(its) \cup (Stale(its) \ renewing)
    ELSE {}

\* The rows _settle closes get the verdict and lose their lease; the others
\* keep all but a lease that a heartbeat extends, and that ends the heartbeat.
LEMMA SettleItems ==
    ASSUME NEW j \in Jobs, NEW cs \in [Counters -> Nat],
           NEW its \in ItemRows, NEW ats \in AttemptRows,
           Settle(j, cs, its, ats)
    PROVE  /\ \A i \in Items : i \in SettledOf(j, its) => /\ item'[i].status = Verdict(j.status)
                                                          /\ item'[i].lease = "none"
                                                          /\ item'[i].seq = its[i].seq
                                                          /\ its[i].status \in OpenStatus
           /\ \A i \in Items : i \notin SettledOf(j, its) =>
                                 /\ item'[i].status = its[i].status
                                 /\ item'[i].seq = its[i].seq
                                 /\ \/ item'[i].lease = its[i].lease
                                    \/ i \in renewing /\ item'[i].lease = "live" /\ renewing' = {}
           /\ renewing' \in {renewing, {}}
<1> DEFINE stale == StaleOf(j, its)
           late  == stale \cap renewing
           settled == SettledOf(j, its)
<1>1. /\ item' = [i \in Items |->
                   IF i \in settled THEN [its[i] EXCEPT !.status = Verdict(j.status), !.lease = "none"]
                   ELSE IF late # {} /\ i \in renewing THEN [its[i] EXCEPT !.lease = "live"]
                   ELSE its[i]]
      /\ renewing' = IF late = {} THEN renewing ELSE {}
  <2>1. CASE j.phase = "runnable" /\ Verdict(j.status) # "none"
    <3>1. settled = Queued(its) \cup (Stale(its) \ (Stale(its) \cap renewing))
      BY <2>1 DEF SettledOf
    <3>2. QED
      BY <2>1, <3>1, Zenon DEF Settle, StaleOf
  <2>2. CASE ~ (j.phase = "runnable" /\ Verdict(j.status) # "none")
    BY <2>2, Zenon DEF Settle, StaleOf, SettledOf
  <2>3. QED
    BY <2>1, <2>2, ZenonT(40)
<1>2. \A i \in settled : i \in Items /\ its[i].status \in OpenStatus
  BY DEF SettledOf, Queued, Stale, OpenStatus
<1> HIDE DEF late, settled
<1>3. ASSUME NEW i \in Items, i \in settled
      PROVE  /\ item'[i].status = Verdict(j.status)
             /\ item'[i].lease = "none"
             /\ item'[i].seq = its[i].seq
  <2>1. item'[i] = [its[i] EXCEPT !.status = Verdict(j.status), !.lease = "none"] /\ its[i] \in ItemRow
    BY <1>1, <1>3, ZenonT(40) DEF ItemRows
  <2>2. QED
    BY <2>1 DEF ItemRow
<1>4. ASSUME NEW i \in Items, i \notin settled
      PROVE  /\ item'[i].status = its[i].status
             /\ item'[i].seq = its[i].seq
             /\ \/ item'[i].lease = its[i].lease
                \/ i \in renewing /\ item'[i].lease = "live" /\ renewing' = {}
  <2>1. CASE late # {} /\ i \in renewing
    <3>1. item'[i] = [its[i] EXCEPT !.lease = "live"] /\ its[i] \in ItemRow
      BY <1>1, <1>4, <2>1, ZenonT(40) DEF ItemRows
    <3>2. QED
      BY <1>1, <2>1, <3>1, ZenonT(40) DEF ItemRow
  <2>2. CASE ~ (late # {} /\ i \in renewing)
    BY <1>1, <1>4, <2>2, ZenonT(40)
  <2>3. QED
    BY <2>1, <2>2
<1>5. QED
  BY <1>1, <1>2, <1>3, <1>4, ZenonT(40) DEF settled

\* A settlement that concerns no item leaves each where it is.
LEMMA UnsettledStay ==
    ASSUME NEW j \in Jobs, NEW cs \in [Counters -> Nat],
           NEW its \in ItemRows, NEW ats \in AttemptRows,
           Settle(j, cs, its, ats), SettledOf(j, its) = {}
    PROVE  \A i \in Items : item'[i].status = its[i].status /\ item'[i].seq = its[i].seq
<1>1. \A i \in Items : i \notin SettledOf(j, its) => /\ item'[i].status = its[i].status
                                                    /\ item'[i].seq = its[i].seq
  BY SettleItems
<1>2. QED
  BY <1>1, ZenonT(40)

\* The counters _settle writes, and the attempts it abandons.
LEMMA SettleCounters ==
    ASSUME NEW j \in Jobs, NEW cs \in [Counters -> Nat],
           NEW its \in ItemRows, NEW ats \in AttemptRows,
           Settle(j, cs, its, ats)
    PROVE  LET n == Cardinality(SettledOf(j, its))
               v == Verdict(j.status)
           IN  /\ attempt' = Abandoned(its, ats, StaleOf(j, its))
               /\ counts'["unknown"] = cs["unknown"] + UnknownOf(its, ats, StaleOf(j, its))
               /\ counts'["billed"] = cs["billed"]
               /\ counts'["completed"] = cs["completed"]
               /\ counts'["cancelled"] = IF v = "cancelled" THEN cs["cancelled"] + n ELSE cs["cancelled"]
               /\ counts'["failed"] = IF v \in {"failed", "expired"} THEN cs["failed"] + n ELSE cs["failed"]
               /\ counts'["expired"] = IF v = "expired" THEN cs["expired"] + n ELSE cs["expired"]
<1> DEFINE n == Cardinality(SettledOf(j, its))
           v == Verdict(j.status)
           u == UnknownOf(its, ats, StaleOf(j, its))
<1>1. /\ attempt' = Abandoned(its, ats, StaleOf(j, its))
      /\ counts' = [cs EXCEPT !["unknown"]   = @ + u,
                              !["cancelled"] = IF v = "cancelled" THEN @ + n ELSE @,
                              !["failed"]    = IF v \in {"failed", "expired"} THEN @ + n ELSE @,
                              !["expired"]   = IF v = "expired" THEN @ + n ELSE @]
  <2>1. CASE j.phase = "runnable" /\ Verdict(j.status) # "none"
    <3>1. SettledOf(j, its) = Queued(its) \cup (Stale(its) \ (Stale(its) \cap renewing))
      BY <2>1 DEF SettledOf
    <3>2. QED
      BY <2>1, <3>1, ZenonT(40) DEF Settle, StaleOf
  <2>2. CASE ~ (j.phase = "runnable" /\ Verdict(j.status) # "none")
    BY <2>2, ZenonT(40) DEF Settle, StaleOf, SettledOf
  <2>3. QED
    BY <2>1, <2>2
<1> HIDE DEF n, v, u
<1>2. /\ counts'["unknown"] = cs["unknown"] + u
      /\ counts'["billed"] = cs["billed"]
      /\ counts'["completed"] = cs["completed"]
      /\ counts'["cancelled"] = IF v = "cancelled" THEN cs["cancelled"] + n ELSE cs["cancelled"]
      /\ counts'["failed"] = IF v \in {"failed", "expired"} THEN cs["failed"] + n ELSE cs["failed"]
      /\ counts'["expired"] = IF v = "expired" THEN cs["expired"] + n ELSE cs["expired"]
  BY <1>1 DEF Counters
<1>3. QED
  BY <1>1, <1>2 DEF n, v, u

-----------------------------------------------------------------------------
\* Only a running item has a lease or a heartbeat, and it runs under a claim.
Leases(its, rs) ==
    /\ \A i \in Items : its[i].lease # "none" => its[i].status = "running"
    /\ \A i \in Items : its[i].status = "running" => its[i].seq > 0
    /\ \A i \in rs : its[i].status = "running"

\* The items that count against the model's cap: those with a live lease, and
\* those whose lease a heartbeat is about to make live again.
Busy(its, rs) == {i \in Items : its[i].status = "running" /\ its[i].lease = "live"} \cup rs

LeaseInv == Leases(item, renewing) /\ Cardinality(Busy(item, renewing)) <= Cap

\* Fewer busy items are within the cap too.
LEMMA FewerBusy ==
    ASSUME IInv, LeaseInv, Leases(item', renewing'), renewing' \subseteq Items,
           Busy(item', renewing') \subseteq Busy(item, renewing)
    PROVE  LeaseInv'
<1>1. renewing \subseteq Items
  BY TypeForm DEF IInv
<1>2. IsFiniteSet(Busy(item, renewing)) /\ IsFiniteSet(Busy(item', renewing'))
  <2>1. Busy(item, renewing) \subseteq Items /\ Busy(item', renewing') \subseteq Items
    BY <1>1 DEF Busy
  <2>2. QED
    BY <2>1, BatchAssumption, FS_Subset
<1>3. /\ Cardinality(Busy(item', renewing')) <= Cardinality(Busy(item, renewing))
      /\ Cardinality(Busy(item', renewing')) \in Nat
      /\ Cardinality(Busy(item, renewing)) \in Nat
  BY <1>2, FS_Subset, FS_CardinalityType
<1>4. QED
  BY <1>3, BatchAssumption DEF LeaseInv

\* _settle takes leases away from the items it closes, and lets a heartbeat
\* that it waited for extend the others.
LEMMA SettleLeases ==
    ASSUME NEW j \in Jobs, NEW cs \in [Counters -> Nat],
           NEW its \in ItemRows, NEW ats \in AttemptRows,
           Settle(j, cs, its, ats), renewing \subseteq Items, Leases(its, renewing)
    PROVE  /\ Leases(item', renewing')
           /\ renewing' \subseteq renewing
           /\ Busy(item', renewing') \subseteq Busy(its, renewing)
<1>1. \A i \in renewing : i \notin SettledOf(j, its)
  BY DEF SettledOf, Queued, Leases
<1>2. \A i \in SettledOf(j, its) : i \in Items /\ Verdict(j.status) \in {"cancelled", "failed", "expired"}
  BY VerdictTypes DEF SettledOf, Queued, Stale
<1>3. ASSUME NEW i \in Items
      PROVE  /\ item'[i].lease # "none" => item'[i].status = "running"
             /\ item'[i].status = "running" => item'[i].seq > 0
             /\ i \in renewing => item'[i].status = "running"
             /\ item'[i].status = "running" /\ item'[i].lease = "live" => i \in Busy(its, renewing)
  <2>1. CASE i \in SettledOf(j, its)
    BY <1>1, <1>2, <2>1, SettleItems
  <2>2. CASE i \notin SettledOf(j, its)
    <3>1. /\ item'[i].status = its[i].status
          /\ item'[i].seq = its[i].seq
          /\ item'[i].lease = its[i].lease \/ i \in renewing
      BY <2>2, SettleItems
    <3>2. QED
      BY <3>1 DEF Leases, Busy
  <2>3. QED
    BY <2>1, <2>2
<1>4. renewing' \subseteq renewing
  BY SettleItems
<1>5. QED
  BY <1>3, <1>4 DEF Leases, Busy

\* A transaction that settles rows keeps the leases in order, provided it hands
\* over rows in order.
LEMMA SettleLeaseInv ==
    ASSUME IInv, LeaseInv,
           NEW j \in Jobs, NEW cs \in [Counters -> Nat],
           NEW its \in ItemRows, NEW ats \in AttemptRows,
           Settle(j, cs, its, ats), Leases(its, renewing),
           Busy(its, renewing) \subseteq Busy(item, renewing)
    PROVE  LeaseInv'
<1>1. renewing \subseteq Items
  BY TypeForm DEF IInv
<1>2. QED
  BY <1>1, SettleLeases, FewerBusy

\* The rows complete_item hands to _settle.
Finished(i, status) == [item EXCEPT ![i].status = status, ![i].lease = "none"]

\* They differ from the item rows in the status and the lease of one item.
LEMMA FinishedRows ==
    ASSUME item \in ItemRows, NEW i \in Items, NEW status \in {"completed", "failed"}
    PROVE  /\ Finished(i, status) \in ItemRows
           /\ \A k \in Items \ {i} : Finished(i, status)[k] = item[k]
           /\ Finished(i, status)[i].status = status
           /\ Finished(i, status)[i].lease = "none"
           /\ Finished(i, status)[i].seq = item[i].seq
BY ZenonT(40) DEF Finished, ItemRows, ItemRow, FinalStatus

\* The rows retry_item and release_item hand to _settle.
LEMMA UnclaimedRows ==
    ASSUME item \in ItemRows, NEW i \in Items, NEW n \in 0 .. MaxSeq
    PROVE  /\ Unclaimed(i, n) \in ItemRows
           /\ \A k \in Items \ {i} : Unclaimed(i, n)[k] = item[k]
           /\ Unclaimed(i, n)[i].status = "queued"
           /\ Unclaimed(i, n)[i].lease = "none"
           /\ Unclaimed(i, n)[i].seq = item[i].seq
<1> DEFINE row == [status |-> "queued", attempts |-> n, seq |-> item[i].seq,
                   owner |-> NoWorker, lease |-> "none"]
<1>1. row \in ItemRow
  BY DEF ItemRows, ItemRow, OpenStatus
<1>2. row.status = "queued" /\ row.lease = "none" /\ row.seq = item[i].seq
  OBVIOUS
<1>3. Unclaimed(i, n) = [item EXCEPT ![i] = row]
  BY DEF Unclaimed
<1> HIDE DEF row
<1>4. QED
  BY <1>1, <1>2, <1>3 DEF ItemRows

\* The counters and the attempts a report hands to _settle.
LEMMA ReportRows ==
    ASSUME IInv, NEW a \in Attempts, NEW cost \in Costs,
           NEW c \in Counters
    PROVE  /\ Billed(counts, cost) \in [Counters -> Nat]
           /\ Plus(Billed(counts, cost), c, 1) \in [Counters -> Nat]
           /\ Closed(a, cost) \in AttemptRows
<1>1. counts \in [Counters -> Nat] /\ attempt \in AttemptRows
  BY TypeForm DEF IInv
<1>2. Billed(counts, cost) \in [Counters -> Nat]
  BY <1>1 DEF Billed, Counters
<1>3. Plus(Billed(counts, cost), c, 1) \in [Counters -> Nat]
  BY <1>2 DEF Plus
<1>4. Closed(a, cost) \in AttemptRows
  BY <1>1 DEF Closed, AttemptRows
<1>5. QED
  BY <1>2, <1>3, <1>4

\* A worker's report as _settle gets it: the item ends or is requeued, without
\* a lease; the counters count its result and its cost.
Reports(a, status, cost, its, cs) ==
    /\ Writable(a)
    /\ \A k \in Items \ {a[1]} : its[k] = item[k]
    /\ its[a[1]].status = status /\ its[a[1]].lease = "none" /\ its[a[1]].seq = item[a[1]].seq
    /\ cs["completed"] = counts["completed"] + (IF status = "completed" THEN 1 ELSE 0)
    /\ cs["failed"] = counts["failed"] + (IF status = "failed" THEN 1 ELSE 0)
    /\ cs["cancelled"] = counts["cancelled"]
    /\ cs["expired"] = counts["expired"]
    /\ cs["billed"] = counts["billed"] + (IF cost = "billed" THEN 1 ELSE 0)
    /\ cs["unknown"] = counts["unknown"] + (IF cost = "unknown" THEN 1 ELSE 0)
    /\ Settle(job, cs, its, Closed(a, cost))

\* complete_item is such a report.
LEMMA CompleteReports ==
    ASSUME IInv, NEW a \in Attempts, NEW status \in {"completed", "failed"}, NEW cost \in Costs,
           CompleteItem(a, status, cost)
    PROVE  \E its \in ItemRows, cs \in [Counters -> Nat] : Reports(a, status, cost, its, cs)
<1>1. counts \in [Counters -> Nat] /\ item \in ItemRows /\ a[1] \in Items /\ status \in Counters
  BY TypeForm DEF IInv, Attempts, Counters
<1> DEFINE b  == Billed(counts, cost)
           cs == Plus(b, status, 1)
           its == Finished(a[1], status)
<1>2. Settle(job, cs, its, Closed(a, cost)) /\ Writable(a)
  BY DEF CompleteItem, Finished
<1>3. b \in [Counters -> Nat] /\ cs \in [Counters -> Nat]
  BY <1>1, ReportRows
<1>4. /\ b["completed"] = counts["completed"] /\ b["failed"] = counts["failed"]
      /\ b["cancelled"] = counts["cancelled"] /\ b["expired"] = counts["expired"]
      /\ b["billed"] = counts["billed"] + (IF cost = "billed" THEN 1 ELSE 0)
      /\ b["unknown"] = counts["unknown"] + (IF cost = "unknown" THEN 1 ELSE 0)
  BY <1>1 DEF Billed, Counters
<1> HIDE DEF b
<1>5. /\ cs["completed"] = b["completed"] + (IF status = "completed" THEN 1 ELSE 0)
      /\ cs["failed"] = b["failed"] + (IF status = "failed" THEN 1 ELSE 0)
      /\ cs["cancelled"] = b["cancelled"] /\ cs["expired"] = b["expired"]
      /\ cs["billed"] = b["billed"] /\ cs["unknown"] = b["unknown"]
  BY <1>3 DEF Plus, Counters
<1> HIDE DEF cs, its
<1>6. /\ its \in ItemRows
      /\ \A k \in Items \ {a[1]} : its[k] = item[k]
      /\ its[a[1]].status = status /\ its[a[1]].lease = "none" /\ its[a[1]].seq = item[a[1]].seq
  BY <1>1, FinishedRows DEF its
<1>7. Reports(a, status, cost, its, cs)
  BY <1>2, <1>4, <1>5, <1>6 DEF Reports
<1>8. QED
  BY <1>3, <1>6, <1>7

\* retry_item and release_item are such reports.
LEMMA RequeueReports ==
    ASSUME IInv, NEW a \in Attempts, NEW cost \in Costs, NEW n \in 0 .. MaxSeq,
           Requeues(a, cost, n)
    PROVE  \E its \in ItemRows, cs \in [Counters -> Nat] : Reports(a, "queued", cost, its, cs)
<1>1. counts \in [Counters -> Nat] /\ item \in ItemRows /\ a[1] \in Items
  BY TypeForm DEF IInv, Attempts
<1> DEFINE cs == Billed(counts, cost)
           its == Unclaimed(a[1], n)
<1>2. Settle(job, cs, its, Closed(a, cost)) /\ Writable(a)
  BY DEF Requeues
<1>3. cs \in [Counters -> Nat]
  <2>1. "billed" \in Counters
    BY DEF Counters
  <2>2. QED
    BY <2>1, ReportRows
<1>4. /\ cs["completed"] = counts["completed"] /\ cs["failed"] = counts["failed"]
      /\ cs["cancelled"] = counts["cancelled"] /\ cs["expired"] = counts["expired"]
      /\ cs["billed"] = counts["billed"] + (IF cost = "billed" THEN 1 ELSE 0)
      /\ cs["unknown"] = counts["unknown"] + (IF cost = "unknown" THEN 1 ELSE 0)
  BY <1>1 DEF Billed, Counters
<1>5. counts["completed"] + 0 = counts["completed"] /\ counts["failed"] + 0 = counts["failed"]
  BY <1>1 DEF Counters
<1> HIDE DEF cs, its
<1>6. /\ its \in ItemRows
      /\ \A k \in Items \ {a[1]} : its[k] = item[k]
      /\ its[a[1]].status = "queued" /\ its[a[1]].lease = "none" /\ its[a[1]].seq = item[a[1]].seq
  BY <1>1, UnclaimedRows DEF its
<1>7. Reports(a, "queued", cost, its, cs)
  BY <1>2, <1>4, <1>5, <1>6 DEF Reports
<1>8. QED
  BY <1>3, <1>6, <1>7

\* A report keeps the leases in order.
LEMMA ReportLeases ==
    ASSUME IInv, LeaseInv, NEW a \in Attempts, NEW status \in {"completed", "failed", "queued"},
           NEW cost \in Costs, NEW its \in ItemRows, NEW cs \in [Counters -> Nat],
           Reports(a, status, cost, its, cs)
    PROVE  LeaseInv'
<1>1. /\ job \in Jobs /\ renewing \subseteq Items /\ a[1] \in Items
      /\ Closed(a, cost) \in AttemptRows
  <2>1. "billed" \in Counters
    BY DEF Counters
  <2>2. QED
    BY <2>1, TypeForm, ReportRows DEF IInv, Attempts
<1>2. a[1] \notin renewing
  BY DEF Reports, Writable
<1>3. Leases(its, renewing)
  BY <1>1, <1>2 DEF Reports, LeaseInv, Leases
<1>4. Busy(its, renewing) \subseteq Busy(item, renewing)
  BY DEF Reports, Busy
<1>5. PICK j \in Jobs, ats \in AttemptRows : j = job /\ ats = Closed(a, cost)
  BY <1>1
<1>6. Settle(j, cs, its, ats)
  BY <1>5 DEF Reports
<1>7. QED
  BY <1>3, <1>4, <1>6, SettleLeaseInv

\* So does closing the batch.
LEMMA CloseLeases ==
    ASSUME IInv, LeaseInv, NEW s \in {"cancelling", "failed", "expired", job.status}, Closes(s)
    PROVE  LeaseInv'
<1>1. /\ job \in Jobs /\ counts \in [Counters -> Nat]
      /\ item \in ItemRows /\ attempt \in AttemptRows
  BY TypeForm DEF IInv
<1>2. [job EXCEPT !.status = s] \in Jobs
  BY <1>1 DEF Jobs
<1>3. PICK j \in Jobs, cs \in [Counters -> Nat], its \in ItemRows, ats \in AttemptRows :
        j = [job EXCEPT !.status = s] /\ cs = counts /\ its = item /\ ats = attempt
  BY <1>1, <1>2
<1>4. Settle(j, cs, its, ats)
  BY <1>3 DEF Closes
<1>5. Leases(its, renewing) /\ Busy(its, renewing) \subseteq Busy(item, renewing)
  BY <1>3 DEF LeaseInv
<1>6. QED
  BY <1>4, <1>5, SettleLeaseInv

\* claim_items adds to the busy items what the cap has room for, while no
\* heartbeat is uncommitted.
LEMMA ClaimLeases ==
    ASSUME IInv, LeaseInv, NEW w \in Workers, NEW S \in SUBSET Items, Claim(w, S)
    PROVE  LeaseInv'
<1>1. item \in ItemRows
  BY TypeForm DEF IInv
<1>2. /\ renewing = {} /\ renewing' = {}
      /\ Cardinality(Live) + Cardinality(S) <= Cap
      /\ item' = [i \in Items |->
                    IF i \in S THEN [status |-> "running", attempts |-> item[i].attempts + 1,
                                     seq |-> NextSeq(i), owner |-> w, lease |-> "live"]
                    ELSE item[i]]
  BY DEF Claim, ModelLock
<1>3. \A i \in Items : item[i].seq \in Nat
  BY <1>1, BatchAssumption DEF ItemRows, ItemRow
<1>4. \A i \in Items : /\ i \in S => /\ item'[i].status = "running" /\ item'[i].lease = "live"
                                     /\ item'[i].seq = item[i].seq + 1
                       /\ i \notin S => item'[i] = item[i]
  BY <1>2 DEF NextSeq
<1>5. Leases(item', renewing')
  <2>1. \A i \in Items : item[i].seq + 1 > 0
    BY <1>3
  <2>2. QED
    BY <1>2, <1>4, <2>1 DEF LeaseInv, Leases
<1>6. Busy(item', renewing') \subseteq Live \cup S
  BY <1>2, <1>4 DEF Busy, Live
<1>7. Cardinality(Busy(item', renewing')) <= Cap
  <2>1. IsFiniteSet(Live) /\ IsFiniteSet(S)
    BY BatchAssumption, FS_Subset DEF Live
  <2>2. /\ IsFiniteSet(Live \cup S)
        /\ Cardinality(Live \cup S) = Cardinality(Live) + Cardinality(S) - Cardinality(Live \cap S)
    BY <2>1, FS_Union
  <2>3. IsFiniteSet(Live \cap S)
    BY <2>1, FS_Subset
  <2>4. /\ Cardinality(Busy(item', renewing')) <= Cardinality(Live \cup S)
        /\ IsFiniteSet(Busy(item', renewing'))
    BY <1>6, <2>2, FS_Subset
  <2>5. /\ Cardinality(Live) \in Nat /\ Cardinality(S) \in Nat /\ Cardinality(Live \cap S) \in Nat
        /\ Cardinality(Busy(item', renewing')) \in Nat
    BY <2>1, <2>3, <2>4, FS_CardinalityType
  <2>6. QED
    BY <1>2, <2>2, <2>4, <2>5, BatchAssumption
<1>8. QED
  BY <1>5, <1>7 DEF LeaseInv

\* The other steps that write leases: time, and the two ends of a heartbeat.
LEMMA HeartbeatLeases ==
    ASSUME IInv, LeaseInv,
           \/ \E w \in Workers : Renew(w)
           \/ \E i \in Items : LeaseLapses(i)
           \/ RenewCommits
           \/ RenewFails
    PROVE  LeaseInv'
<1>1. item \in ItemRows /\ renewing \subseteq Items
  BY TypeForm DEF IInv
<1>2. \A k \in Items : item[k] \in ItemRow
  BY <1>1 DEF ItemRows
<1>3. ASSUME NEW w \in Workers, Renew(w)
      PROVE  LeaseInv'
  <2>1. /\ item' = item
        /\ \A i \in renewing' : i \in Items /\ item[i].status = "running" /\ item[i].lease = "live"
    BY <1>3 DEF Renew, Renewable, InFlight
  <2>2. Leases(item', renewing') /\ Busy(item', renewing') \subseteq Busy(item, renewing)
    BY <2>1 DEF LeaseInv, Leases, Busy
  <2>3. QED
    BY <2>1, <2>2, FewerBusy, ZenonT(40)
<1>4. ASSUME NEW i \in Items, LeaseLapses(i)
      PROVE  LeaseInv'
  <2>1. /\ renewing' = renewing /\ item[i].lease = "live"
        /\ item' = [item EXCEPT ![i] = [item[i] EXCEPT !.lease = "lapsed"]]
    BY <1>4 DEF LeaseLapses
  <2>2. /\ item'[i].lease = "lapsed" /\ item'[i].status = item[i].status /\ item'[i].seq = item[i].seq
        /\ \A k \in Items \ {i} : item'[k] = item[k]
    BY <1>1, <1>2, <2>1 DEF ItemRows, ItemRow
  <2>3. Leases(item', renewing')
    BY <1>1, <2>1, <2>2 DEF LeaseInv, Leases
  <2>4. Busy(item', renewing') \subseteq Busy(item, renewing)
    BY <2>1, <2>2 DEF Busy
  <2>5. QED
    BY <1>1, <2>1, <2>3, <2>4, FewerBusy, Zenon
<1>5. CASE RenewCommits
  <2>1. /\ renewing' = {}
        /\ \A i \in Items : item'[i] = IF i \in renewing THEN [item[i] EXCEPT !.lease = "live"]
                                       ELSE item[i]
    BY <1>5 DEF RenewCommits
  <2>2. \A i \in Items : /\ item'[i].status = item[i].status /\ item'[i].seq = item[i].seq
                         /\ i \notin renewing => item'[i].lease = item[i].lease
    BY <1>2, <2>1, Zenon DEF ItemRow
  <2>3. Leases(item', renewing') /\ Busy(item', renewing') \subseteq Busy(item, renewing)
    BY <2>1, <2>2 DEF LeaseInv, Leases, Busy
  <2>4. QED
    BY <2>1, <2>3, FewerBusy
<1>6. CASE RenewFails
  <2>1. renewing' = {} /\ item' = item
    BY <1>6 DEF RenewFails
  <2>2. Leases(item', renewing') /\ Busy(item', renewing') \subseteq Busy(item, renewing)
    BY <2>1 DEF LeaseInv, Leases, Busy
  <2>3. QED
    BY <2>1, <2>2, FewerBusy
<1>7. QED
  BY <1>3, <1>4, <1>5, <1>6

\* Every step keeps the leases in order.
LEMMA LeaseStep ==
    ASSUME IInv, LeaseInv, Kinds
    PROVE  LeaseInv'
<1>1. renewing \subseteq Items
  BY TypeForm DEF IInv
<1>2. ASSUME UNCHANGED <<item, renewing>>
      PROVE  LeaseInv'
  BY <1>2 DEF LeaseInv, Leases, Busy
<1>3. CASE \E a \in Attempts, status \in {"completed", "failed"}, cost \in Costs :
             CompleteItem(a, status, cost)
  BY <1>3, CompleteReports, ReportLeases
<1>4. CASE \E a \in Attempts, cost \in Costs, n \in 0 .. MaxSeq : Requeues(a, cost, n)
  <2>1. PICK a \in Attempts, cost \in Costs, n \in 0 .. MaxSeq : Requeues(a, cost, n)
    BY <1>4
  <2>2. PICK its \in ItemRows, cs \in [Counters -> Nat] : Reports(a, "queued", cost, its, cs)
    BY <2>1, RequeueReports
  <2>3. QED
    BY <2>2, ReportLeases
<1>5. CASE \E s \in {"cancelling", "failed", "expired", job.status} : Closes(s)
  BY <1>5, CloseLeases
<1>6. CASE \E w \in Workers, S \in SUBSET Items : Claim(w, S)
  BY <1>6, ClaimLeases
<1>7. CASE \/ \E w \in Workers : Renew(w)
           \/ \E i \in Items : LeaseLapses(i)
           \/ RenewCommits
           \/ RenewFails
  BY <1>7, HeartbeatLeases
<1>8. CASE \E a \in Attempts : MarkDispatched(a)
  BY <1>2, <1>8 DEF MarkDispatched
<1>9. CASE Quiet
  BY <1>2, <1>9 DEF Quiet
<1>10. CASE Erase
  <2>1. renewing' = {} /\ \A i \in Items : item'[i].status = "deleted" /\ item'[i].lease = "none"
    BY <1>10 DEF Erase, NoItem
  <2>2. Leases(item', renewing') /\ Busy(item', renewing') \subseteq Busy(item, renewing)
    BY <2>1 DEF Leases, Busy
  <2>3. QED
    BY <2>1, <2>2, FewerBusy
<1>11. QED
  BY <1>3, <1>4, <1>5, <1>6, <1>7, <1>8, <1>9, <1>10 DEF Kinds

\* A new batch has no leases.
LEMMA LeaseInit == Init => LeaseInv
<1> SUFFICES ASSUME Init PROVE LeaseInv
  OBVIOUS
<1>1. renewing = {} /\ \A i \in Items : item[i].status # "running" /\ item[i].lease = "none"
  BY DEF Init
<1>2. Leases(item, renewing)
  BY <1>1 DEF Leases
<1>3. Busy(item, renewing) = {}
  BY <1>1 DEF Busy
<1>4. QED
  BY <1>2, <1>3, FS_EmptySet, BatchAssumption DEF LeaseInv

\* The leases stay in order in every reachable state.
LEMMA LeaseInvariance == Spec => [](IInv /\ LeaseInv)
<1>1. IInv /\ LeaseInv /\ [Next]_vars => LeaseInv'
  BY StepKinds, LeaseStep
<1>2. QED
  BY Invariance, LeaseInit, <1>1, PTL DEF Spec

\* However many processes claim, renew and lose leases, a model never has more
\* live leases than its cap: claim_items waits for an uncommitted heartbeat, so
\* what that heartbeat makes live again was counted.
THEOREM BatchLiveWithinCap == Spec => []LiveWithinCap
<1>1. IInv /\ LeaseInv => LiveWithinCap
  <2> SUFFICES ASSUME IInv, LeaseInv PROVE LiveWithinCap
    OBVIOUS
  <2>1. renewing \subseteq Items
    BY TypeForm DEF IInv
  <2>2. Live \subseteq Busy(item, renewing) /\ Busy(item, renewing) \subseteq Items
    BY <2>1 DEF Live, Busy
  <2>3. IsFiniteSet(Busy(item, renewing))
    BY <2>2, BatchAssumption, FS_Subset
  <2>4. /\ Cardinality(Live) <= Cardinality(Busy(item, renewing)) /\ IsFiniteSet(Live)
        /\ Cardinality(Busy(item, renewing)) \in Nat
    BY <2>2, <2>3, FS_Subset, FS_CardinalityType
  <2>5. Cardinality(Live) \in Nat
    BY <2>4, FS_CardinalityType
  <2>6. QED
    BY <2>4, <2>5, BatchAssumption DEF LiveWithinCap, LeaseInv
<1>2. QED
  BY LeaseInvariance, <1>1, PTL

-----------------------------------------------------------------------------
\* Nothing of a finalized batch is written until it is deleted: no item runs, so
\* no report, claim, lease or heartbeat finds anything to write.
LEMMA FinalizedStays ==
    ASSUME IInv, LeaseInv, Kinds, Exists, Exists', job.phase # "runnable"
    PROVE  item' = item /\ counts' = counts
<1>1. job \in Jobs /\ item \in ItemRows
  BY TypeForm DEF IInv
<1>2. \A i \in Items : item[i].status # "running" /\ item[i].lease = "none"
  BY DEF IInv, Judged, Exists, OpenStatus, LeaseInv, Leases
<1>3. renewing = {}
  <2>1. renewing \subseteq Items
    BY TypeForm, ZenonT(40) DEF IInv
  <2>2. QED
    BY <1>2, <2>1 DEF LeaseInv, Leases
<1>4. ASSUME NEW a \in Attempts
      PROVE  ~ Holds(a)
  BY <1>2 DEF Holds, Attempts
<1>5. ASSUME NEW a \in Attempts, NEW status, NEW cost
      PROVE  ~ CompleteItem(a, status, cost)
  BY <1>4 DEF CompleteItem, Writable
<1>6. ASSUME NEW a \in Attempts, NEW cost, NEW n
      PROVE  ~ Requeues(a, cost, n)
  BY <1>4 DEF Requeues, Writable
<1>7. ASSUME NEW s
      PROVE  ~ Closes(s)
  BY DEF Closes
<1>8. ASSUME NEW w, NEW S
      PROVE  ~ Claim(w, S)
  BY DEF Claim, Claimable
<1>9. ASSUME NEW i \in Items
      PROVE  ~ LeaseLapses(i)
  BY <1>2 DEF LeaseLapses
<1>10. ~ RenewCommits /\ ~ RenewFails
  BY <1>3 DEF RenewCommits, RenewFails
<1>11. ~ Erase
  <2>1. Erase => job'.row = "gone"
    BY <1>1 DEF Erase, Jobs
  <2>2. QED
    BY <2>1 DEF Exists
<1>12. \/ \E w \in Workers : Renew(w)
       \/ \E a \in Attempts : MarkDispatched(a)
       \/ Quiet
  BY <1>5, <1>6, <1>7, <1>8, <1>9, <1>10, <1>11 DEF Kinds
<1>13. QED
  BY <1>12 DEF Renew, MarkDispatched, Quiet

\* A result is written once, and a finalized batch is frozen: not a late report,
\* a lapsed lease, a heartbeat that commits late nor another sweep changes an
\* item, the outcome or the counters again.
THEOREM BatchResultsStand == Spec => ResultsNeverChange
<1>1. IInv /\ LeaseInv /\ [Next]_vars =>
        [Exists' =>
           /\ \A i \in Items : item[i].status \in FinalStatus => item'[i].status = item[i].status
           /\ job.phase # "runnable" => /\ item' = item
                                        /\ job'.pending = job.pending
                                        /\ counts' = counts]_vars
  <2> SUFFICES ASSUME IInv, LeaseInv, [Next]_vars, Exists', ~ UNCHANGED vars
               PROVE  /\ \A i \in Items : item[i].status \in FinalStatus =>
                                            item'[i].status = item[i].status
                      /\ job.phase # "runnable" => /\ item' = item
                                                   /\ job'.pending = job.pending
                                                   /\ counts' = counts
    OBVIOUS
  <2>1. Keeps /\ Kinds
    BY NextIInv, StepKinds
  <2>2. Exists /\ \A i \in Items : item[i].status \in FinalStatus => item'[i].status = item[i].status
    BY <2>1 DEF Keeps, FinalStatus, OpenStatus
  <2>3. ASSUME job.phase # "runnable"
        PROVE  item' = item /\ job'.pending = job.pending /\ counts' = counts
    <3>1. job.pending # "none"
      BY <2>2, <2>3 DEF IInv, Judged, Exists, FinalStatus
    <3>2. QED
      BY <2>1, <2>2, <2>3, <3>1, FinalizedStays, ZenonT(40) DEF Keeps
  <2>4. QED
    BY <2>2, <2>3
<1>2. QED
  BY LeaseInvariance, <1>1, PTL DEF Spec, ResultsNeverChange

-----------------------------------------------------------------------------
\* How many rows have a status, and the counters that should say so.
Tally(its, s) == Cardinality({i \in Items : its[i].status = s})

Agree(cs, its) ==
    /\ cs["completed"] = Tally(its, "completed")
    /\ cs["failed"] = Tally(its, "failed") + Tally(its, "expired")
    /\ cs["cancelled"] = Tally(its, "cancelled")
    /\ cs["expired"] = Tally(its, "expired")

\* A tally is a number.
LEMMA TallyType ==
    ASSUME NEW its, NEW s
    PROVE  IsFiniteSet({i \in Items : its[i].status = s}) /\ Tally(its, s) \in Nat
<1>1. IsFiniteSet({i \in Items : its[i].status = s})
  BY BatchAssumption, FS_Subset
<1>2. QED
  BY <1>1, FS_CardinalityType DEF Tally

\* Two sets without a common element count together.
LEMMA Together ==
    ASSUME NEW A, NEW B, IsFiniteSet(A), IsFiniteSet(B), A \cap B = {}
    PROVE  /\ IsFiniteSet(A \cup B)
           /\ Cardinality(A \cup B) = Cardinality(A) + Cardinality(B)
           /\ Cardinality(A) \in Nat /\ Cardinality(B) \in Nat
<1>1. /\ IsFiniteSet(A \cup B)
      /\ Cardinality(A \cup B) = Cardinality(A) + Cardinality(B) - Cardinality(A \cap B)
  BY FS_Union
<1>2. Cardinality(A \cap B) = 0
  BY FS_EmptySet
<1>3. Cardinality(A) \in Nat /\ Cardinality(B) \in Nat
  BY FS_CardinalityType
<1>4. QED
  BY <1>1, <1>2, <1>3

\* The rows D move from other statuses to s.
LEMMA TallyMoves ==
    ASSUME NEW its, NEW its2, NEW s, NEW D \in SUBSET Items,
           \A i \in D : its[i].status # s /\ its2[i].status = s,
           \A i \in Items \ D : its2[i].status = s <=> its[i].status = s
    PROVE  Tally(its2, s) = Tally(its, s) + Cardinality(D)
<1> DEFINE T == {i \in Items : its[i].status = s}
<1>1. IsFiniteSet(T) /\ IsFiniteSet(D)
  BY BatchAssumption, FS_Subset
<1>2. {i \in Items : its2[i].status = s} = T \cup D /\ T \cap D = {}
  OBVIOUS
<1>3. QED
  BY <1>1, <1>2, Together, Zenon DEF Tally

\* No row moves to or from s.
LEMMA TallyStays ==
    ASSUME NEW its, NEW its2, NEW s,
           \A i \in Items : its2[i].status = s <=> its[i].status = s
    PROVE  Tally(its2, s) = Tally(its, s)
<1>1. {i \in Items : its2[i].status = s} = {i \in Items : its[i].status = s}
  OBVIOUS
<1>2. QED
  BY <1>1, ZenonT(40) DEF Tally

\* The items _settle closes move from an open status to the verdict.
LEMMA SettledTally ==
    ASSUME NEW j \in Jobs, NEW cs \in [Counters -> Nat],
           NEW its \in ItemRows, NEW ats \in AttemptRows,
           Settle(j, cs, its, ats),
           NEW s \in FinalStatus
    PROVE  /\ Cardinality(SettledOf(j, its)) \in Nat
           /\ Tally(item', s) = IF s = Verdict(j.status)
                                THEN Tally(its, s) + Cardinality(SettledOf(j, its))
                                ELSE Tally(its, s)
<1>1. PICK rows : rows = item'
  OBVIOUS
<1>2. PICK D \in SUBSET Items : D = SettledOf(j, its)
  <2>1. SettledOf(j, its) \in SUBSET Items
    BY DEF SettledOf, Queued, Stale
  <2>2. QED
    BY <2>1, ZenonT(40)
<1>3. /\ \A i \in D : rows[i].status = Verdict(j.status) /\ its[i].status \in OpenStatus
      /\ \A i \in Items \ D : rows[i].status = its[i].status
  BY <1>1, <1>2, SettleItems
<1>4. s \notin OpenStatus
  BY DEF FinalStatus, OpenStatus
<1>5. Cardinality(D) \in Nat
  BY BatchAssumption, FS_Subset, FS_CardinalityType
<1>6. CASE s = Verdict(j.status)
  <2>1. Tally(rows, s) = Tally(its, s) + Cardinality(D)
    BY <1>3, <1>4, <1>6, TallyMoves
  <2>2. QED
    BY <1>1, <1>2, <1>5, <1>6, <2>1, ZenonT(40)
<1>7. CASE s # Verdict(j.status)
  <2>1. \A i \in Items : rows[i].status = s <=> its[i].status = s
    BY <1>3, <1>4, <1>7
  <2>2. Tally(rows, s) = Tally(its, s)
    BY <2>1, TallyStays
  <2>3. QED
    BY <1>1, <1>2, <1>5, <1>7, <2>2, ZenonT(40)
<1>8. QED
  BY <1>6, <1>7

\* _settle counts the items it closes.
LEMMA SettleAgrees ==
    ASSUME NEW j \in Jobs, NEW cs \in [Counters -> Nat],
           NEW its \in ItemRows, NEW ats \in AttemptRows,
           Settle(j, cs, its, ats), Agree(cs, its)
    PROVE  Agree(counts', item')
<1> DEFINE n == Cardinality(SettledOf(j, its))
           v == Verdict(j.status)
<1>1. v \in {"none", "cancelled", "failed", "expired"}
  BY VerdictTypes
<1>2. \A s \in FinalStatus : Tally(its, s) \in Nat
  BY TallyType, Zenon
<1>3. n \in Nat /\ \A s \in FinalStatus : Tally(item', s) = IF s = v THEN Tally(its, s) + n
                                                            ELSE Tally(its, s)
  <2>1. "failed" \in FinalStatus
    BY DEF FinalStatus
  <2>2. QED
    BY <2>1, SettledTally
<1>4. /\ counts'["completed"] = cs["completed"]
      /\ counts'["cancelled"] = IF v = "cancelled" THEN cs["cancelled"] + n ELSE cs["cancelled"]
      /\ counts'["failed"] = IF v \in {"failed", "expired"} THEN cs["failed"] + n ELSE cs["failed"]
      /\ counts'["expired"] = IF v = "expired" THEN cs["expired"] + n ELSE cs["expired"]
  BY SettleCounters
<1> HIDE DEF n, v
<1>5. /\ Tally(item', "completed") = IF "completed" = v THEN Tally(its, "completed") + n ELSE Tally(its, "completed")
      /\ Tally(item', "cancelled") = IF "cancelled" = v THEN Tally(its, "cancelled") + n ELSE Tally(its, "cancelled")
      /\ Tally(item', "failed") = IF "failed" = v THEN Tally(its, "failed") + n ELSE Tally(its, "failed")
      /\ Tally(item', "expired") = IF "expired" = v THEN Tally(its, "expired") + n ELSE Tally(its, "expired")
  BY <1>3 DEF FinalStatus
<1>6. Tally(its, "failed") \in Nat /\ Tally(its, "expired") \in Nat
  BY <1>2 DEF FinalStatus
<1>7. QED
  BY <1>1, <1>3, <1>4, <1>5, <1>6 DEF Agree

\* A report counts its result.
LEMMA ReportAgrees ==
    ASSUME IInv, Agree(counts, item),
           NEW a \in Attempts, NEW status \in {"completed", "failed", "queued"},
           NEW cost \in Costs, NEW its \in ItemRows, NEW cs \in [Counters -> Nat],
           Reports(a, status, cost, its, cs)
    PROVE  Agree(counts', item')
<1>1. job \in Jobs /\ Closed(a, cost) \in AttemptRows /\ a[1] \in Items
  <2>1. "billed" \in Counters
    BY DEF Counters
  <2>2. QED
    BY <2>1, TypeForm, ReportRows DEF IInv, Attempts
<1>2. PICK rows : rows = item
  OBVIOUS
<1>3. /\ its[a[1]].status = status /\ rows[a[1]].status = "running"
      /\ \A i \in Items \ {a[1]} : its[i].status = rows[i].status
  BY <1>2 DEF Reports, Writable, Holds
<1>4. ASSUME NEW s \in FinalStatus
      PROVE  Tally(its, s) = Tally(rows, s) + (IF s = status THEN 1 ELSE 0)
  <2>1. s # "running" /\ Tally(rows, s) \in Nat
    BY TallyType, Zenon DEF FinalStatus
  <2>2. CASE s = status
    <3>1. PICK D \in SUBSET Items : D = {a[1]}
      BY <1>1, ZenonT(40)
    <3>2. Tally(its, s) = Tally(rows, s) + Cardinality(D)
      BY <1>3, <2>1, <2>2, <3>1, TallyMoves
    <3>3. Cardinality(D) = 1
      BY <3>1, FS_Singleton, Zenon
    <3>4. QED
      BY <2>2, <3>2, <3>3
  <2>3. CASE s # status
    <3>1. \A i \in Items : its[i].status = s <=> rows[i].status = s
      BY <1>3, <2>1, <2>3
    <3>2. Tally(its, s) = Tally(rows, s)
      BY <3>1, TallyStays
    <3>3. QED
      BY <2>1, <2>3, <3>2
  <2>4. QED
    BY <2>2, <2>3
<1>5. Agree(cs, its)
  <2>1. /\ Tally(its, "completed") = Tally(rows, "completed") + (IF "completed" = status THEN 1 ELSE 0)
        /\ Tally(its, "failed") = Tally(rows, "failed") + (IF "failed" = status THEN 1 ELSE 0)
        /\ Tally(its, "cancelled") = Tally(rows, "cancelled") + 0
        /\ Tally(its, "expired") = Tally(rows, "expired") + 0
    BY <1>4 DEF FinalStatus
  <2>2. /\ Tally(rows, "completed") \in Nat /\ Tally(rows, "failed") \in Nat
        /\ Tally(rows, "cancelled") \in Nat /\ Tally(rows, "expired") \in Nat
    BY TallyType, Zenon
  <2>3. /\ counts["completed"] = Tally(rows, "completed")
        /\ counts["failed"] = Tally(rows, "failed") + Tally(rows, "expired")
        /\ counts["cancelled"] = Tally(rows, "cancelled")
        /\ counts["expired"] = Tally(rows, "expired")
    BY <1>2 DEF Agree
  <2>4. /\ cs["completed"] = counts["completed"] + (IF status = "completed" THEN 1 ELSE 0)
        /\ cs["failed"] = counts["failed"] + (IF status = "failed" THEN 1 ELSE 0)
        /\ cs["cancelled"] = counts["cancelled"] /\ cs["expired"] = counts["expired"]
    BY DEF Reports
  <2>5. cs["completed"] = Tally(its, "completed")
    BY <2>1, <2>3, <2>4
  <2>6. cs["failed"] = Tally(its, "failed") + Tally(its, "expired")
    BY <2>1, <2>2, <2>3, <2>4
  <2>7. cs["cancelled"] = Tally(its, "cancelled") /\ cs["expired"] = Tally(its, "expired")
    BY <2>1, <2>2, <2>3, <2>4
  <2>8. QED
    BY <2>5, <2>6, <2>7 DEF Agree
<1>6. PICK j \in Jobs, ats \in AttemptRows : j = job /\ ats = Closed(a, cost)
  BY <1>1, ZenonT(40)
<1>7. Settle(j, cs, its, ats)
  BY <1>6 DEF Reports
<1>8. QED
  BY <1>5, <1>7, SettleAgrees

\* Every step keeps the counters in agreement with the items.
LEMMA AgreeStep ==
    ASSUME IInv, Agree(counts, item), Kinds
    PROVE  Agree(counts', item')
<1>1. /\ job \in Jobs /\ counts \in [Counters -> Nat]
      /\ item \in ItemRows /\ attempt \in AttemptRows
  BY TypeForm DEF IInv
<1>2. ASSUME \A s \in {"completed", "failed", "cancelled", "expired"} :
               /\ counts'[s] = counts[s]
               /\ \A i \in Items : item'[i].status = s <=> item[i].status = s
      PROVE  Agree(counts', item')
  <2>1. PICK rows, rows2 : rows = item /\ rows2 = item'
    OBVIOUS
  <2>2. \A s \in {"completed", "failed", "cancelled", "expired"} : Tally(rows2, s) = Tally(rows, s)
    BY <1>2, <2>1, TallyStays
  <2>3. Agree(counts', rows2)
    BY <1>2, <2>1, <2>2, ZenonT(40) DEF Agree
  <2>4. QED
    BY <2>1, <2>3
<1>3. CASE \E a \in Attempts, status \in {"completed", "failed"}, cost \in Costs :
             CompleteItem(a, status, cost)
  BY <1>3, CompleteReports, ReportAgrees, ZenonT(40)
<1>4. CASE \E a \in Attempts, cost \in Costs, n \in 0 .. MaxSeq : Requeues(a, cost, n)
  <2>1. PICK a \in Attempts, cost \in Costs, n \in 0 .. MaxSeq : Requeues(a, cost, n)
    BY <1>4
  <2>2. PICK its \in ItemRows, cs \in [Counters -> Nat] : Reports(a, "queued", cost, its, cs)
    BY <2>1, RequeueReports
  <2>3. QED
    BY <2>2, ReportAgrees
<1>5. ASSUME NEW s \in {"cancelling", "failed", "expired", job.status}, Closes(s)
      PROVE  Agree(counts', item')
  <2>1. [job EXCEPT !.status = s] \in Jobs
    BY <1>1, <1>5 DEF Jobs
  <2>2. PICK j \in Jobs, cs \in [Counters -> Nat], its \in ItemRows, ats \in AttemptRows :
          j = [job EXCEPT !.status = s] /\ cs = counts /\ its = item /\ ats = attempt
    BY <1>1, <2>1
  <2>3. Settle(j, cs, its, ats) /\ Agree(cs, its)
    BY <1>5, <2>2 DEF Closes
  <2>4. QED
    BY <2>3, SettleAgrees
<1>6. ASSUME NEW w \in Workers, NEW S \in SUBSET Items, Claim(w, S)
      PROVE  Agree(counts', item')
  <2>1. /\ S \subseteq Queued(item) \cup Stale(item)
        /\ counts' = Plus(counts, "unknown", UnknownOf(item, attempt, S \cap Stale(item)))
        /\ \A i \in Items : item'[i] = IF i \in S
                                       THEN [status |-> "running", attempts |-> item[i].attempts + 1,
                                             seq |-> NextSeq(i), owner |-> w, lease |-> "live"]
                                       ELSE item[i]
    BY <1>6 DEF Claim
  <2>2. \A i \in Items : /\ i \in S => item'[i].status = "running" /\ item[i].status \in OpenStatus
                         /\ i \notin S => item'[i].status = item[i].status
    <3>1. \A i \in S : item[i].status \in OpenStatus
      BY <2>1 DEF Queued, Stale, OpenStatus
    <3>2. ASSUME NEW i \in Items
          PROVE  /\ i \in S => item'[i].status = "running"
                 /\ i \notin S => item'[i].status = item[i].status
      <4>1. CASE i \in S
        <5>1. item'[i] = [status |-> "running", attempts |-> item[i].attempts + 1,
                          seq |-> NextSeq(i), owner |-> w, lease |-> "live"]
          BY <2>1, <4>1
        <5>2. QED
          BY <4>1, <5>1
      <4>2. CASE i \notin S
        BY <2>1, <4>2, Zenon
      <4>3. QED
        BY <4>1, <4>2, ZenonT(40)
    <3>3. QED
      BY <3>1, <3>2, ZenonT(40)
  <2>3. \A s \in {"completed", "failed", "cancelled", "expired"} : counts'[s] = counts[s]
    BY <1>1, <2>1 DEF Plus, Counters
  <2>4. QED
    BY <1>2, <2>2, <2>3 DEF OpenStatus
<1>7. CASE \E i \in Items : LeaseLapses(i)
  <2>1. PICK i \in Items : LeaseLapses(i)
    BY <1>7
  <2>2. item' = [item EXCEPT ![i] = [item[i] EXCEPT !.lease = "lapsed"]] /\ counts' = counts
    BY <2>1 DEF LeaseLapses
  <2>3. \A k \in Items : item'[k].status = item[k].status
    BY <1>1, <2>2 DEF ItemRows, ItemRow
  <2>4. QED
    BY <1>2, <2>2, <2>3
<1>8. CASE RenewCommits
  <2>1. \A i \in Items : item[i] \in ItemRow
    BY <1>1 DEF ItemRows
  <2>2. \A i \in Items : item'[i].status = item[i].status
    BY <1>8, <2>1 DEF RenewCommits, ItemRow
  <2>3. counts' = counts
    BY <1>8 DEF RenewCommits
  <2>4. QED
    BY <1>2, <2>2, <2>3
<1>9. CASE \/ \E w \in Workers : Renew(w)
           \/ RenewFails
           \/ \E a \in Attempts : MarkDispatched(a)
           \/ Quiet
  BY <1>2, <1>9 DEF Renew, RenewFails, MarkDispatched, Quiet
<1>10. CASE Erase
  <2>1. PICK rows : rows = item' /\ \A i \in Items : rows[i].status = "deleted"
    BY <1>10 DEF Erase, NoItem
  <2>2. ASSUME NEW s \in {"completed", "failed", "cancelled", "expired"}
        PROVE  Tally(rows, s) = 0
    <3>1. {i \in Items : rows[i].status = s} = {}
      BY <2>1
    <3>2. QED
      BY <3>1, FS_EmptySet DEF Tally
  <2>3. \A s \in {"completed", "failed", "cancelled", "expired"} : counts'[s] = 0
    BY <1>10 DEF Erase, Counters
  <2>4. QED
    BY <2>1, <2>2, <2>3 DEF Agree
<1>11. QED
  BY <1>3, <1>4, <1>5, <1>6, <1>7, <1>8, <1>9, <1>10, ZenonT(40) DEF Kinds

\* create_batch counts the requests that failed admission.
LEMMA AgreeInit == Init => Agree(counts, item)
<1> SUFFICES ASSUME Init PROVE Agree(counts, item)
  OBVIOUS
<1>1. PICK failed \in SUBSET Items :
        /\ item = [i \in Items |->
                     [status |-> IF i \in failed THEN "failed" ELSE "queued",
                      attempts |-> 0, seq |-> 0, owner |-> NoWorker, lease |-> "none"]]
        /\ counts = [c \in Counters |-> IF c = "failed" THEN Cardinality(failed) ELSE 0]
  BY DEF Init
<1>2. \A i \in Items : item[i].status = IF i \in failed THEN "failed" ELSE "queued"
  BY <1>1
<1>3. PICK rows : rows = item
  OBVIOUS
<1>4. {i \in Items : rows[i].status = "failed"} = failed
  BY <1>2, <1>3
<1>5. ASSUME NEW s \in {"completed", "cancelled", "expired"}
      PROVE  Tally(rows, s) = 0
  <2>1. {i \in Items : rows[i].status = s} = {}
    BY <1>2, <1>3
  <2>2. QED
    BY <2>1, FS_EmptySet DEF Tally
<1>6. /\ counts["completed"] = 0 /\ counts["cancelled"] = 0 /\ counts["expired"] = 0
      /\ counts["failed"] = Cardinality(failed)
  BY <1>1 DEF Counters
<1>7. Tally(rows, "failed") = Cardinality(failed) /\ Cardinality(failed) \in Nat
  <2>1. IsFiniteSet(failed)
    BY BatchAssumption, FS_Subset
  <2>2. QED
    BY <1>4, <2>1, FS_CardinalityType, Zenon DEF Tally
<1>8. QED
  BY <1>3, <1>5, <1>6, <1>7 DEF Agree

\* The counters agree with the items in every reachable state.
LEMMA AgreeInvariance == Spec => [](IInv /\ Agree(counts, item))
<1>1. IInv /\ Agree(counts, item) /\ [Next]_vars => Agree(counts, item)'
  BY StepKinds, AgreeStep
<1>2. QED
  BY Invariance, AgreeInit, <1>1, PTL DEF Spec

\* The counters the owner sees agree with the items, whatever mix of reports,
\* verdicts, late heartbeats and lost processes produced them.
THEOREM BatchCountersAgree == Spec => []CountsMatchItems
<1>1. IInv /\ Agree(counts, item) => CountsMatchItems
  BY DEF Agree, Tally, CountsMatchItems, Count
<1>2. QED
  BY AgreeInvariance, <1>1, PTL

\* Four sets without common elements count together.
LEMMA FourTogether ==
    ASSUME NEW A, NEW B, NEW C, NEW D,
           IsFiniteSet(A), IsFiniteSet(B), IsFiniteSet(C), IsFiniteSet(D),
           A \cap B = {}, (A \cup B) \cap C = {}, ((A \cup B) \cup C) \cap D = {}
    PROVE  Cardinality(((A \cup B) \cup C) \cup D) =
             ((Cardinality(A) + Cardinality(B)) + Cardinality(C)) + Cardinality(D)
<1>1. IsFiniteSet(A \cup B) /\ Cardinality(A \cup B) = Cardinality(A) + Cardinality(B)
  BY Together
<1>2. /\ IsFiniteSet((A \cup B) \cup C)
      /\ Cardinality((A \cup B) \cup C) = Cardinality(A \cup B) + Cardinality(C)
  BY <1>1, Together, Zenon
<1>3. Cardinality(((A \cup B) \cup C) \cup D) = Cardinality((A \cup B) \cup C) + Cardinality(D)
  BY <1>2, Together, ZenonT(40)
<1>4. QED
  BY <1>1, <1>2, <1>3

\* Where every item is final, every item is counted.
LEMMA FinalTally ==
    ASSUME NEW its, \A i \in Items : its[i].status \in FinalStatus
    PROVE  Cardinality(Items) = ((Tally(its, "completed") + Tally(its, "failed"))
                                 + Tally(its, "expired")) + Tally(its, "cancelled")
<1> DEFINE T(s) == {i \in Items : its[i].status = s}
<1>1. \A s : IsFiniteSet(T(s))
  BY TallyType, Zenon
<1>2. ((T("completed") \cup T("failed")) \cup T("expired")) \cup T("cancelled") = Items
  BY DEF FinalStatus
<1>3. /\ T("completed") \cap T("failed") = {}
      /\ (T("completed") \cup T("failed")) \cap T("expired") = {}
      /\ ((T("completed") \cup T("failed")) \cup T("expired")) \cap T("cancelled") = {}
  OBVIOUS
<1>4. \A s : Tally(its, s) = Cardinality(T(s))
  BY ZenonT(40) DEF Tally
<1> HIDE DEF T
<1>5. QED
  BY <1>1, <1>2, <1>3, <1>4, FourTogether

\* A batch is finalized only over final items, all of them counted, and its
\* outcome is the one its items tell of.
THEOREM BatchFinalizedComplete == Spec => []FinalizedIsComplete
<1>1. IInv /\ Agree(counts, item) => FinalizedIsComplete
  <2> SUFFICES ASSUME IInv, Agree(counts, item), Exists, job.phase # "runnable"
               PROVE  /\ Open(item) = {}
                      /\ job.pending \in FinalStatus
                      /\ counts["completed"] + counts["failed"] + counts["cancelled"] = Cardinality(Items)
                      /\ Count("cancelled") > 0 => job.pending = "cancelled"
                      /\ Count("expired") > 0 => job.pending = "expired"
                      /\ job.phase = "sealed" => job.status = job.pending
    BY ZenonT(40) DEF FinalizedIsComplete
  <2>1. /\ job.pending \in FinalStatus
        /\ job.phase = "sealed" => job.status = job.pending
        /\ \A i \in Items : /\ item[i].status \notin OpenStatus
                            /\ item[i].status \in {"cancelled", "expired"} => job.pending = item[i].status
                            /\ item[i].status # "deleted"
    BY DEF IInv, Judged, Exists
  <2>2. Open(item) = {}
    BY <2>1 DEF Open
  <2>3. ASSUME NEW s \in {"cancelled", "expired"}, Count(s) > 0
        PROVE  job.pending = s
    <3>1. {i \in Items : item[i].status = s} # {}
      BY <2>3, FS_EmptySet DEF Count
    <3>2. QED
      BY <2>1, <3>1
  <2>4. counts["completed"] + counts["failed"] + counts["cancelled"] = Cardinality(Items)
    <3>1. item \in ItemRows
      BY TypeForm DEF IInv
    <3>2. \A i \in Items : item[i].status \in FinalStatus
      BY <2>1, <3>1 DEF ItemRows, ItemRow
    <3>3. PICK rows : rows = item
      OBVIOUS
    <3>4. Cardinality(Items) = ((Tally(rows, "completed") + Tally(rows, "failed"))
                                + Tally(rows, "expired")) + Tally(rows, "cancelled")
      BY <3>2, <3>3, FinalTally
    <3>5. /\ Tally(rows, "completed") \in Nat /\ Tally(rows, "failed") \in Nat
          /\ Tally(rows, "cancelled") \in Nat /\ Tally(rows, "expired") \in Nat
      BY TallyType, Zenon
    <3>6. Agree(counts, rows)
      BY <3>3
    <3>7. QED
      BY <3>4, <3>5, <3>6 DEF Agree
  <2>5. QED
    BY <2>1, <2>2, <2>3, <2>4, ZenonT(40)
<1>2. QED
  BY AgreeInvariance, <1>1, PTL

-----------------------------------------------------------------------------
\* The attempts recorded with a cost, and the counters that should cover them.
Noted(ats, cost) == {a \in Attempts : ats[a] = cost}

Covered(cs, ats) ==
    /\ cs["billed"] >= Cardinality(Noted(ats, "billed"))
    /\ cs["unknown"] >= Cardinality(Noted(ats, "unknown"))

Exact(cs, ats) ==
    /\ cs["billed"] = Cardinality(Noted(ats, "billed"))
    /\ cs["unknown"] = Cardinality(Noted(ats, "unknown"))

\* The attempt of a running item is open.
Current(its, ats) ==
    \A i \in Items : its[i].status = "running" => ats[<<i, its[i].seq>>] \in OpenAttempt

\* While a batch is not closing, every cost is counted once, because the attempt
\* of a running item is still open; later a cost may be counted twice, never less.
Costed ==
    /\ Covered(counts, attempt)
    /\ job.status \in {"validating", "in_progress"} =>
         Exact(counts, attempt) /\ Current(item, attempt)

\* Attempts are finitely many.
LEMMA NotedType ==
    ASSUME NEW ats, NEW cost
    PROVE  IsFiniteSet(Noted(ats, cost)) /\ Cardinality(Noted(ats, cost)) \in Nat
<1>1. IsFiniteSet(1 .. MaxSeq)
  BY BatchAssumption, FS_Interval
<1>2. IsFiniteSet(Attempts)
  BY <1>1, BatchAssumption, FS_Product DEF Attempts
<1>3. IsFiniteSet(Noted(ats, cost))
  BY <1>2, FS_Subset, ZenonT(40) DEF Noted
<1>4. QED
  BY <1>3, FS_CardinalityType

\* As many current attempts as items.
LEMMA AttemptsOfItems ==
    ASSUME NEW D, IsFiniteSet(D), NEW its
    PROVE  /\ IsFiniteSet({<<i, its[i].seq>> : i \in D})
           /\ Cardinality({<<i, its[i].seq>> : i \in D}) = Cardinality(D)
<1> DEFINE T == {<<i, its[i].seq>> : i \in D}
           f == [i \in D |-> <<i, its[i].seq>>]
<1>1. f \in [D -> T] /\ \A t \in T : \E i \in D : f[i] = t
  OBVIOUS
<1>2. \A x, y \in D : f[x] = f[y] => x = y
  OBVIOUS
<1>3. f \in Bijection(D, T)
  <2> HIDE DEF f, T
  <2>1. DOMAIN f = D
    BY <1>1
  <2>2. QED
    BY <1>1, <1>2, <2>1 DEF Bijection, Injection, Surjection, IsInjective
<1>4. ExistsBijection(D, T)
  BY <1>3 DEF ExistsBijection
<1> HIDE DEF T
<1>5. IsFiniteSet(T) /\ Cardinality(T) = Cardinality(D)
  BY <1>4, FS_Bijection, ZenonT(40)
<1>6. QED
  BY <1>5 DEF T

\* _abandon_attempts records an unknown cost for each call it cuts off, and no
\* other cost.
LEMMA AbandonNotes ==
    ASSUME NEW its \in ItemRows, NEW ats \in AttemptRows, NEW S \in SUBSET Items,
           \A i \in S : its[i].seq > 0
    PROVE  LET left == Abandoned(its, ats, S)
           IN  /\ left \in AttemptRows
               /\ UnknownOf(its, ats, S) \in Nat
               /\ Noted(left, "billed") = Noted(ats, "billed")
               /\ Cardinality(Noted(left, "unknown")) =
                    Cardinality(Noted(ats, "unknown")) + UnknownOf(its, ats, S)
<1> DEFINE left == Abandoned(its, ats, S)
           D == {i \in S : ats[<<i, its[i].seq>>] = "dispatched"}
           T == {<<i, its[i].seq>> : i \in D}
<1>1. \A i \in S : its[i].seq \in 1 .. MaxSeq
  BY BatchAssumption DEF ItemRows, ItemRow
<1>2. \A i \in S : <<i, its[i].seq>> \in Attempts
  BY <1>1, ZenonT(40) DEF Attempts
<1>3. ASSUME NEW a \in Attempts
      PROVE  /\ a = <<a[1], a[2]>>
             /\ ats[a] \in {"absent"} \cup OpenAttempt \cup Costs
             /\ left[a] = IF a[1] \in S /\ ats[<<a[1], its[a[1]].seq>>] \in OpenAttempt /\ a[2] = its[a[1]].seq
                          THEN IF ats[a] = "dispatched" THEN "unknown" ELSE "not_billed"
                          ELSE ats[a]
  BY DEF Attempts, AttemptRows, Abandoned, Orphans
<1>4. ASSUME NEW a \in Attempts
      PROVE  /\ left[a] \in {"absent"} \cup OpenAttempt \cup Costs
             /\ left[a] = "billed" <=> ats[a] = "billed"
             /\ left[a] = "unknown" <=> ats[a] = "unknown" \/ a \in T
             /\ a \in T => ats[a] = "dispatched"
  <2>1. a \in T <=> a[1] \in S /\ a[2] = its[a[1]].seq /\ ats[a] = "dispatched"
    <3>1. ASSUME a \in T
          PROVE  a[1] \in S /\ a[2] = its[a[1]].seq /\ ats[a] = "dispatched"
      <4>1. PICK i \in D : a = <<i, its[i].seq>>
        BY <3>1
      <4>2. a[1] = i /\ a[2] = its[i].seq
        BY <4>1
      <4>3. QED
        BY <4>1, <4>2
    <3>2. ASSUME a[1] \in S, a[2] = its[a[1]].seq, ats[a] = "dispatched"
          PROVE  a \in T
      <4>1. a = <<a[1], its[a[1]].seq>>
        BY <1>3, <3>2, Zenon
      <4>2. a[1] \in D
        BY <3>2, <4>1
      <4>3. QED
        BY <4>1, <4>2
    <3>3. QED
      BY <3>1, <3>2
  <2>2. a[1] \in S /\ a[2] = its[a[1]].seq => ats[<<a[1], its[a[1]].seq>>] = ats[a]
    BY <1>3
  <2> HIDE DEF T, D, left
  <2>3. QED
    BY <1>3, <2>1, <2>2, ZenonT(40) DEF OpenAttempt, Costs
<1>5. left \in AttemptRows
  <2>1. left = [a \in Attempts |-> left[a]]
    BY DEF Abandoned
  <2> HIDE DEF left, T
  <2>2. QED
    BY <1>4, <2>1 DEF AttemptRows
<1>6. T \subseteq Attempts
  BY <1>2, Zenon
<1>7. IsFiniteSet(D)
  BY BatchAssumption, FS_Subset, Zenon
<1>8. IsFiniteSet(T) /\ Cardinality(T) = Cardinality(D)
  BY <1>7, AttemptsOfItems, ZenonT(40)
<1>9. UnknownOf(its, ats, S) = Cardinality(D)
  BY DEF UnknownOf
<1> HIDE DEF left, D, T
<1>10. Noted(left, "billed") = Noted(ats, "billed")
  BY <1>4 DEF Noted
<1>11. Noted(left, "unknown") = Noted(ats, "unknown") \cup T /\ Noted(ats, "unknown") \cap T = {}
  BY <1>4, <1>6 DEF Noted
<1>12. Cardinality(Noted(left, "unknown")) = Cardinality(Noted(ats, "unknown")) + Cardinality(T)
  BY <1>8, <1>11, NotedType, Together, ZenonT(40)
<1>13. UnknownOf(its, ats, S) \in Nat
  BY <1>7, <1>9, FS_CardinalityType
<1>14. QED
  BY <1>5, <1>8, <1>9, <1>10, <1>12, <1>13, ZenonT(40) DEF left

\* _settle leaves an open batch open only if it was handed one.
LEMMA SettleStatus ==
    ASSUME NEW j \in Jobs, NEW cs, NEW its, NEW ats, Settle(j, cs, its, ats),
           job'.status \in {"validating", "in_progress"}
    PROVE  j.status = job'.status /\ Verdict(j.status) = "none"
<1>1. job' = j \/ (job' = Finalized(j, Final(j.status)) /\ Final(j.status) # "none")
  BY Zenon DEF Settle
<1>2. /\ Finalized(j, Final(j.status)).status \in {j.status, Final(j.status)}
      /\ Final(j.status) # "none" => Final(j.status) \in FinalStatus
  BY VerdictTypes DEF Finalized, Jobs
<1>3. job'.status = j.status
  BY <1>1, <1>2 DEF FinalStatus
<1>4. QED
  BY <1>3 DEF Verdict

\* _settle counts the calls it cuts off.
LEMMA SettleCosts ==
    ASSUME NEW j \in Jobs, NEW cs \in [Counters -> Nat],
           NEW its \in ItemRows, NEW ats \in AttemptRows,
           Settle(j, cs, its, ats), Leases(its, renewing), Covered(cs, ats),
           j.status \in {"validating", "in_progress"} => Exact(cs, ats) /\ Current(its, ats)
    PROVE  Costed'
<1>1. PICK S \in SUBSET Items : S = StaleOf(j, its)
  <2>1. StaleOf(j, its) \in SUBSET Items
    BY ZenonT(40) DEF StaleOf, Stale
  <2>2. QED
    BY <2>1, ZenonT(40)
<1>2. \A i \in S : its[i].seq > 0
  BY <1>1 DEF StaleOf, Stale, Leases
<1>3. PICK left : left = Abandoned(its, ats, S)
  OBVIOUS
<1>4. /\ UnknownOf(its, ats, S) \in Nat
      /\ Noted(left, "billed") = Noted(ats, "billed")
      /\ Cardinality(Noted(left, "unknown")) = Cardinality(Noted(ats, "unknown")) + UnknownOf(its, ats, S)
  BY <1>2, <1>3, AbandonNotes, ZenonT(40)
<1>5. /\ attempt' = left
      /\ counts'["unknown"] = cs["unknown"] + UnknownOf(its, ats, S)
      /\ counts'["billed"] = cs["billed"]
  BY <1>1, <1>3, SettleCounters
<1>6. /\ Cardinality(Noted(ats, "unknown")) \in Nat /\ Cardinality(Noted(ats, "billed")) \in Nat
      /\ cs["unknown"] \in Nat /\ cs["billed"] \in Nat
  BY NotedType DEF Counters
<1>7. Covered(counts', left)
  BY <1>4, <1>5, <1>6 DEF Covered
<1>8. ASSUME job'.status \in {"validating", "in_progress"}
      PROVE  Exact(counts', left) /\ Current(item', left)
  <2>1. j.status \in {"validating", "in_progress"} /\ Verdict(j.status) = "none"
    BY <1>8, SettleStatus
  <2>2. S = {} /\ SettledOf(j, its) = {}
    BY <1>1, <2>1, ZenonT(40) DEF StaleOf, SettledOf
  <2>3. Exact(counts', left)
    BY <1>4, <1>5, <1>6, <2>1 DEF Exact
  <2>4. left = ats
    BY <1>3, <2>2, ZenonT(40) DEF Abandoned, Orphans, AttemptRows
  <2>5. \A i \in Items : item'[i].status = its[i].status /\ item'[i].seq = its[i].seq
    BY <2>2, UnsettledStay, ZenonT(40)
  <2>6. QED
    BY <2>1, <2>3, <2>4, <2>5, ZenonT(40) DEF Current
<1>9. QED
  BY <1>5, <1>7, <1>8 DEF Costed

\* An attempt is closed with its cost, once.
LEMMA ClosedNotes ==
    ASSUME IInv, NEW a \in Attempts, NEW cost \in Costs, NEW c \in {"billed", "unknown"}
    PROVE  Cardinality(Noted(Closed(a, cost), c)) =
             Cardinality(Noted(attempt, c)) + (IF attempt[a] \in OpenAttempt /\ c = cost THEN 1 ELSE 0)
<1>1. attempt \in AttemptRows
  BY TypeForm DEF IInv
<1>2. PICK old \in AttemptRows : old = attempt
  BY <1>1
<1>3. IsFiniteSet(Noted(old, c)) /\ Cardinality(Noted(old, c)) \in Nat
  BY NotedType
<1>4. CASE attempt[a] \in OpenAttempt /\ c = cost
  <2>1. Closed(a, cost) = [old EXCEPT ![a] = c] /\ old[a] # c
    BY <1>2, <1>4 DEF Closed, OpenAttempt
  <2>2. Noted(Closed(a, cost), c) = Noted(old, c) \cup {a} /\ a \notin Noted(old, c)
    BY <2>1 DEF Noted, AttemptRows
  <2>3. Cardinality(Noted(old, c) \cup {a}) = Cardinality(Noted(old, c)) + 1
    BY <1>3, <2>2, FS_AddElement, Zenon
  <2>4. QED
    BY <1>2, <1>4, <2>2, <2>3
<1>5. CASE ~ (attempt[a] \in OpenAttempt /\ c = cost)
  <2>1. Noted(Closed(a, cost), c) = Noted(old, c)
    <3>1. CASE attempt[a] \in OpenAttempt
      <4>1. Closed(a, cost) = [old EXCEPT ![a] = cost] /\ old[a] # c /\ cost # c
        BY <1>2, <1>5, <3>1 DEF Closed, OpenAttempt
      <4>2. QED
        BY <4>1 DEF Noted, AttemptRows
    <3>2. CASE attempt[a] \notin OpenAttempt
      BY <1>2, <3>2 DEF Closed
    <3>3. QED
      BY <3>1, <3>2
  <2>2. QED
    BY <1>2, <1>3, <1>5, <2>1
<1>6. QED
  BY <1>4, <1>5

\* A report counts its cost, even when the attempt was closed under it.
LEMMA ReportCosted ==
    ASSUME IInv, LeaseInv, Costed,
           NEW a \in Attempts, NEW status \in {"completed", "failed", "queued"},
           NEW cost \in Costs, NEW its \in ItemRows, NEW cs \in [Counters -> Nat],
           Reports(a, status, cost, its, cs)
    PROVE  Costed'
<1>1. /\ job \in Jobs /\ Closed(a, cost) \in AttemptRows /\ a[1] \in Items
      /\ counts \in [Counters -> Nat] /\ attempt \in AttemptRows /\ a = <<a[1], a[2]>>
  <2>1. "billed" \in Counters
    BY DEF Counters
  <2>2. QED
    BY <2>1, TypeForm, ReportRows DEF IInv, Attempts
<1>2. PICK j \in Jobs, ats \in AttemptRows : j = job /\ ats = Closed(a, cost)
  BY <1>1
<1>3. /\ Cardinality(Noted(ats, "billed")) =
           Cardinality(Noted(attempt, "billed")) + (IF attempt[a] \in OpenAttempt /\ "billed" = cost THEN 1 ELSE 0)
      /\ Cardinality(Noted(ats, "unknown")) =
           Cardinality(Noted(attempt, "unknown")) + (IF attempt[a] \in OpenAttempt /\ "unknown" = cost THEN 1 ELSE 0)
  BY <1>2, ClosedNotes, ZenonT(40)
<1>4. /\ cs["billed"] = counts["billed"] + (IF cost = "billed" THEN 1 ELSE 0)
      /\ cs["unknown"] = counts["unknown"] + (IF cost = "unknown" THEN 1 ELSE 0)
  BY DEF Reports
<1>5. /\ Cardinality(Noted(attempt, "billed")) \in Nat /\ Cardinality(Noted(attempt, "unknown")) \in Nat
      /\ counts["billed"] \in Nat /\ counts["unknown"] \in Nat
  BY <1>1, NotedType DEF Counters
<1>6. Covered(cs, ats)
  BY <1>3, <1>4, <1>5 DEF Costed, Covered
<1>7. /\ \A k \in Items \ {a[1]} : its[k] = item[k]
      /\ its[a[1]].status = status /\ a[1] \notin renewing
      /\ item[a[1]].status = "running" /\ item[a[1]].seq = a[2]
      /\ Settle(job, cs, its, Closed(a, cost))
  BY DEF Reports, Writable, Holds
<1>8. ASSUME j.status \in {"validating", "in_progress"}
      PROVE  Exact(cs, ats) /\ Current(its, ats)
  <2>1. Exact(counts, attempt) /\ Current(item, attempt)
    BY <1>2, <1>8 DEF Costed
  <2>2. attempt[a] \in OpenAttempt
    BY <1>1, <1>7, <2>1, ZenonT(40) DEF Current
  <2>3. Exact(cs, ats)
    BY <1>3, <1>4, <1>5, <2>1, <2>2, ZenonT(40) DEF Exact
  <2>4. \A b \in Attempts : b # a => ats[b] = attempt[b]
    BY <1>1, <1>2 DEF Closed, AttemptRows
  <2>5. ASSUME NEW i \in Items, its[i].status = "running"
        PROVE  ats[<<i, its[i].seq>>] \in OpenAttempt
    <3>1. i # a[1] /\ its[i] = item[i]
      BY <1>7, <2>5, ZenonT(40)
    <3>2. attempt[<<i, item[i].seq>>] \in OpenAttempt
      BY <2>1, <2>5, <3>1, ZenonT(40) DEF Current
    <3>3. <<i, item[i].seq>> \in Attempts
      <4>1. item[i].seq \in 1 .. MaxSeq
        <5>1. item \in ItemRows
          BY TypeForm DEF IInv
        <5>2. item[i].seq \in 0 .. MaxSeq
          BY <5>1, ZenonT(40) DEF ItemRows, ItemRow
        <5>3. item[i].seq > 0
          BY <2>5, <3>1 DEF LeaseInv, Leases
        <5>4. PICK n : n = item[i].seq
          OBVIOUS
        <5>5. n \in 0 .. MaxSeq /\ n > 0 /\ MaxSeq \in Nat
          BY <5>2, <5>3, <5>4, BatchAssumption, ZenonT(40)
        <5>6. n \in 1 .. MaxSeq
          BY <5>5
        <5>7. QED
          BY <5>4, <5>6, ZenonT(40)
      <4>2. QED
        BY <4>1, ZenonT(40) DEF Attempts
    <3>4. <<i, item[i].seq>> # a
      BY <3>1
    <3>5. QED
      BY <2>4, <3>1, <3>2, <3>3, <3>4, ZenonT(40)
  <2>6. QED
    BY <2>3, <2>5, ZenonT(40) DEF Current
<1>9. Leases(its, renewing)
  <2>1. renewing \subseteq Items
    BY TypeForm DEF IInv
  <2>2. its[a[1]].lease = "none"
    BY ZenonT(40) DEF Reports
  <2>3. QED
    BY <1>7, <2>1, <2>2 DEF LeaseInv, Leases
<1>10. Settle(j, cs, its, ats)
  BY <1>2, <1>7, ZenonT(40)
<1>11. QED
  BY <1>6, <1>8, <1>9, <1>10, SettleCosts, ZenonT(40)

\* claim_items closes the attempts it takes over, with their costs, and opens
\* new ones.
LEMMA ClaimCosted ==
    ASSUME IInv, LeaseInv, Costed, NEW w \in Workers, NEW S \in SUBSET Items, Claim(w, S)
    PROVE  Costed'
<1>1. /\ item \in ItemRows /\ attempt \in AttemptRows /\ counts \in [Counters -> Nat]
      /\ job \in Jobs /\ Fenced(item, attempt)
  BY TypeForm DEF IInv
<1>2. PICK its \in ItemRows, ats \in AttemptRows : its = item /\ ats = attempt
  BY <1>1
<1>3. PICK R \in SUBSET Items : R = S \cap Stale(item)
  BY ZenonT(40)
<1>4. PICK left : left = Abandoned(its, ats, R)
  OBVIOUS
<1>5. /\ job.status \in {"validating", "in_progress"}
      /\ \A i \in S : its[i].seq < MaxSeq
      /\ \A i \in Items : item'[i] = IF i \in S
                                     THEN [status |-> "running", attempts |-> item[i].attempts + 1,
                                           seq |-> NextSeq(i), owner |-> w, lease |-> "live"]
                                     ELSE item[i]
      /\ counts' = Plus(counts, "unknown", UnknownOf(its, ats, R))
  BY <1>2, <1>3 DEF Claim, Claimable
<1>6. \A a \in Attempts : attempt'[a] = IF a[1] \in S /\ a[2] = its[a[1]].seq + 1 THEN "open" ELSE left[a]
  BY <1>2, <1>3, <1>4, ZenonT(40) DEF Claim, NextSeq
<1>7. \A i \in R : its[i].seq > 0
  BY <1>2, <1>3, ZenonT(40) DEF LeaseInv, Leases, Stale
<1>8. /\ UnknownOf(its, ats, R) \in Nat
      /\ Noted(left, "billed") = Noted(ats, "billed")
      /\ Cardinality(Noted(left, "unknown")) = Cardinality(Noted(ats, "unknown")) + UnknownOf(its, ats, R)
  BY <1>4, <1>7, AbandonNotes
<1>9. Exact(counts, ats) /\ Current(its, ats)
  BY <1>2, <1>5, ZenonT(40) DEF Costed
<1>10. \A i \in Items : its[i].seq \in Nat
  BY BatchAssumption DEF ItemRows, ItemRow
<1>11. ASSUME NEW a \in Attempts
       PROVE  /\ a[1] \notin R \/ a[2] # its[a[1]].seq => left[a] = ats[a]
              /\ a[1] \in S /\ a[2] = its[a[1]].seq + 1 => ats[a] = "absent" /\ left[a] = "absent"
  <2>1. a[1] \in Items /\ a[2] \in Nat
    BY BatchAssumption DEF Attempts
  <2>2. a[1] \notin R \/ a[2] # its[a[1]].seq => left[a] = ats[a]
    BY <1>4, ZenonT(40) DEF Abandoned, Orphans
  <2>3. ats[a] = "absent" <=> a[2] > its[a[1]].seq
    BY <1>1, <1>2, ZenonT(40) DEF Fenced
  <2>4. a[2] = its[a[1]].seq + 1 => a[2] > its[a[1]].seq /\ a[2] # its[a[1]].seq
    BY <1>10, <2>1
  <2>5. QED
    BY <2>2, <2>3, <2>4
<1>12. ASSUME NEW c \in {"billed", "unknown"}
       PROVE  Noted(attempt', c) = Noted(left, c)
  BY <1>6, <1>11 DEF Noted
<1>13. Exact(counts', attempt')
  <2>1. /\ counts'["billed"] = counts["billed"]
        /\ counts'["unknown"] = counts["unknown"] + UnknownOf(its, ats, R)
    BY <1>1, <1>5, ZenonT(40) DEF Plus, Counters
  <2>2. /\ Noted(attempt', "billed") = Noted(left, "billed")
        /\ Noted(attempt', "unknown") = Noted(left, "unknown")
    BY <1>12
  <2>3. QED
    BY <1>8, <1>9, <2>1, <2>2 DEF Exact
<1>14. Covered(counts', attempt')
  <2>1. PICK ats2 : ats2 = attempt'
    OBVIOUS
  <2>2. /\ Cardinality(Noted(ats2, "billed")) \in Nat
        /\ Cardinality(Noted(ats2, "unknown")) \in Nat
    BY NotedType
  <2>3. QED
    BY <1>13, <2>1, <2>2 DEF Exact, Covered
<1>15. ASSUME NEW i \in Items, item'[i].status = "running"
       PROVE  attempt'[<<i, item'[i].seq>>] \in OpenAttempt
  <2>1. CASE i \in S
    <3>1. item'[i].seq = its[i].seq + 1
      <4>1. PICK m, n : m = item[i].attempts + 1 /\ n = NextSeq(i)
        BY ZenonT(40)
      <4>2. item'[i] = [status |-> "running", attempts |-> m, seq |-> n, owner |-> w, lease |-> "live"]
        BY <1>5, <2>1, <4>1, ZenonT(40)
      <4>3. item'[i].seq = n
        BY <4>2
      <4>4. QED
        BY <1>2, <4>1, <4>3 DEF NextSeq
    <3>2. <<i, its[i].seq + 1>> \in Attempts
      <4>1. PICK n : n = its[i].seq
        OBVIOUS
      <4>2. n \in Nat /\ n < MaxSeq /\ MaxSeq \in Nat
        BY <1>5, <1>10, <2>1, <4>1, BatchAssumption, ZenonT(40)
      <4>3. n + 1 \in 1 .. MaxSeq
        BY <4>2
      <4>4. QED
        BY <4>1, <4>3 DEF Attempts
    <3>3. attempt'[<<i, its[i].seq + 1>>] = "open"
      BY <1>6, <2>1, <3>2, ZenonT(40)
    <3>4. QED
      BY <3>1, <3>3, ZenonT(40) DEF OpenAttempt
  <2>2. CASE i \notin S
    <3>1. item'[i] = its[i] /\ its[i].status = "running"
      BY <1>2, <1>5, <1>15, <2>2, ZenonT(40)
    <3>2. its[i].seq > 0
      BY <1>2, <3>1, ZenonT(40) DEF LeaseInv, Leases
    <3>3. <<i, its[i].seq>> \in Attempts
      <4>1. its[i].seq \in 0 .. MaxSeq
        BY DEF ItemRows, ItemRow
      <4>2. QED
        BY <3>2, <4>1, BatchAssumption DEF Attempts
    <3>4. attempt'[<<i, its[i].seq>>] = ats[<<i, its[i].seq>>]
      BY <1>3, <1>6, <1>11, <2>2, <3>3, ZenonT(40)
    <3>5. QED
      BY <1>9, <3>1, <3>4 DEF Current
  <2>3. QED
    BY <2>1, <2>2, ZenonT(40)
<1>16. QED
  BY <1>13, <1>14, <1>15, ZenonT(40) DEF Costed, Current

\* Steps that record no cost and end no attempt.
LEMMA FrameCosted ==
    ASSUME IInv, Costed, counts' = counts,
           job'.status \in {job.status} \cup FinalStatus,
           \A i \in Items : item'[i].status = item[i].status /\ item'[i].seq = item[i].seq,
           attempt' = attempt \/ \E a \in Attempts : MarkDispatched(a)
    PROVE  Costed'
<1>1. attempt \in AttemptRows
  BY TypeForm DEF IInv
<1>2. \A b : attempt'[b] = attempt[b] \/ (attempt[b] \in OpenAttempt /\ attempt'[b] \in OpenAttempt)
  <2>1. CASE \E a \in Attempts : MarkDispatched(a)
    <3>1. PICK a \in Attempts : MarkDispatched(a)
      BY <2>1
    <3>2. attempt[a] \in OpenAttempt /\ attempt' = [attempt EXCEPT ![a] = "dispatched"]
      BY <3>1 DEF MarkDispatched
    <3>3. QED
      BY <1>1, <3>2 DEF AttemptRows, OpenAttempt
  <2>2. QED
    BY <2>1
<1>3. ASSUME NEW c \in {"billed", "unknown"}
      PROVE  Noted(attempt', c) = Noted(attempt, c)
  BY <1>2, ZenonT(40) DEF Noted, OpenAttempt
<1>4. Covered(counts', attempt') /\ (Exact(counts, attempt) => Exact(counts', attempt'))
  <2>1. /\ Noted(attempt', "billed") = Noted(attempt, "billed")
        /\ Noted(attempt', "unknown") = Noted(attempt, "unknown")
    BY <1>3, ZenonT(40)
  <2>2. QED
    BY <2>1 DEF Costed, Covered, Exact
<1>5. Current(item, attempt) => Current(item', attempt')
  BY <1>2, ZenonT(40) DEF Current
<1>6. job'.status \in {"validating", "in_progress"} => job.status \in {"validating", "in_progress"}
  BY DEF FinalStatus
<1>7. QED
  BY <1>4, <1>5, <1>6, ZenonT(40) DEF Costed

\* Every step keeps every cost counted.
LEMMA CostStep ==
    ASSUME IInv, LeaseInv, Costed, Kinds
    PROVE  Costed'
<1>1. /\ job \in Jobs /\ counts \in [Counters -> Nat]
      /\ item \in ItemRows /\ attempt \in AttemptRows
  BY TypeForm DEF IInv
<1>2. \A i \in Items : item[i] \in ItemRow
  BY <1>1 DEF ItemRows
<1>3. CASE \E a \in Attempts, status \in {"completed", "failed"}, cost \in Costs :
             CompleteItem(a, status, cost)
  BY <1>3, CompleteReports, ReportCosted
<1>4. CASE \E a \in Attempts, cost \in Costs, n \in 0 .. MaxSeq : Requeues(a, cost, n)
  <2>1. PICK a \in Attempts, cost \in Costs, n \in 0 .. MaxSeq : Requeues(a, cost, n)
    BY <1>4
  <2>2. PICK its \in ItemRows, cs \in [Counters -> Nat] : Reports(a, "queued", cost, its, cs)
    BY <2>1, RequeueReports, ZenonT(40)
  <2>3. QED
    BY <2>2, ReportCosted
<1>5. ASSUME NEW s \in {"cancelling", "failed", "expired", job.status}, Closes(s)
      PROVE  Costed'
  <2>1. [job EXCEPT !.status = s] \in Jobs /\ [job EXCEPT !.status = s].status = s
    BY <1>1, <1>5 DEF Jobs
  <2>2. PICK j \in Jobs, cs \in [Counters -> Nat], its \in ItemRows, ats \in AttemptRows :
          j = [job EXCEPT !.status = s] /\ cs = counts /\ its = item /\ ats = attempt
    BY <1>1, <2>1
  <2>3. Settle(j, cs, its, ats) /\ Covered(cs, ats) /\ Leases(its, renewing)
    BY <1>5, <2>2 DEF Closes, Costed, LeaseInv
  <2>4. j.status \in {"validating", "in_progress"} => Exact(cs, ats) /\ Current(its, ats)
    BY <2>1, <2>2 DEF Costed
  <2>5. QED
    BY <2>3, <2>4, SettleCosts
<1>6. CASE \E w \in Workers, S \in SUBSET Items : Claim(w, S)
  BY <1>6, ClaimCosted
<1>7. CASE \E i \in Items : LeaseLapses(i)
  <2>1. PICK i \in Items : LeaseLapses(i)
    BY <1>7
  <2>2. /\ item' = [item EXCEPT ![i] = [item[i] EXCEPT !.lease = "lapsed"]]
        /\ counts' = counts /\ attempt' = attempt /\ job' = job
    BY <2>1 DEF LeaseLapses
  <2>3. \A k \in Items : item'[k].status = item[k].status /\ item'[k].seq = item[k].seq
    BY <1>1, <1>2, <2>2, ZenonT(40) DEF ItemRows, ItemRow
  <2>4. QED
    BY <2>2, <2>3, FrameCosted
<1>8. CASE RenewCommits
  <2>1. \A i \in Items : item'[i].status = item[i].status /\ item'[i].seq = item[i].seq
    BY <1>2, <1>8 DEF RenewCommits, ItemRow
  <2>2. counts' = counts /\ attempt' = attempt /\ job' = job
    BY <1>8 DEF RenewCommits
  <2>3. QED
    BY <2>1, <2>2, FrameCosted
<1>9. CASE (\E w \in Workers : Renew(w)) \/ RenewFails \/ Quiet
  <2>1. /\ counts' = counts /\ attempt' = attempt /\ item' = item
        /\ job'.status \in {job.status} \cup FinalStatus
    BY <1>9 DEF Renew, RenewFails, Quiet
  <2>2. QED
    BY <2>1, FrameCosted
<1>10. CASE \E a \in Attempts : MarkDispatched(a)
  <2>1. counts' = counts /\ item' = item /\ job' = job
    BY <1>10, ZenonT(40) DEF MarkDispatched
  <2>2. QED
    BY <1>10, <2>1, FrameCosted
<1>11. CASE Erase
  <2>1. \A i \in Items : item'[i].status = "deleted"
    BY <1>11 DEF Erase, NoItem
  <2>2. ASSUME NEW c \in {"billed", "unknown"}
        PROVE  Cardinality(Noted(attempt', c)) = 0 /\ counts'[c] = 0
    <3>1. Noted(attempt', c) = {} /\ counts'[c] = 0
      BY <1>11 DEF Erase, Noted, Counters
    <3>2. QED
      BY <3>1, FS_EmptySet
  <2>3. /\ Cardinality(Noted(attempt', "billed")) = 0 /\ counts'["billed"] = 0
        /\ Cardinality(Noted(attempt', "unknown")) = 0 /\ counts'["unknown"] = 0
    BY <2>2
  <2>4. QED
    BY <2>1, <2>3 DEF Costed, Covered, Exact, Current
<1>12. QED
  BY <1>3, <1>4, <1>5, <1>6, <1>7, <1>8, <1>9, <1>10, <1>11, ZenonT(40) DEF Kinds

\* A new batch has no attempts and no costs.
LEMMA CostInit == Init => Costed
<1> SUFFICES ASSUME Init PROVE Costed
  OBVIOUS
<1>1. \A i \in Items : item[i].status # "running"
  BY DEF Init
<1>2. counts["billed"] = 0 /\ counts["unknown"] = 0
  BY ZenonT(40) DEF Init, Counters
<1>3. Noted(attempt, "billed") = {} /\ Noted(attempt, "unknown") = {}
  BY DEF Init, Noted
<1>4. Cardinality(Noted(attempt, "billed")) = 0 /\ Cardinality(Noted(attempt, "unknown")) = 0
  BY <1>3, FS_EmptySet
<1>5. QED
  BY <1>1, <1>2, <1>4 DEF Costed, Covered, Exact, Current

\* No attempt's cost is lost, and none is counted twice until the batch closes:
\* claims, reports, abandoned calls and their repetitions included.
THEOREM BatchCostsCovered == Spec => []NoCostLost
<1>1. IInv /\ LeaseInv /\ Costed /\ [Next]_vars => Costed'
  BY StepKinds, CostStep, ZenonT(40)
<1>2. Costed => NoCostLost
  BY DEF Costed, Covered, Exact, Noted, NoCostLost, Recorded
<1>3. QED
  BY LeaseInvariance, CostInit, <1>1, <1>2, PTL DEF Spec
=============================================================================
