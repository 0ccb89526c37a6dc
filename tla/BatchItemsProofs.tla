-------------------------- MODULE BatchItemsProofs --------------------------
(***************************************************************************)
(* Proofs about BatchItems, for every number of items, workers and claims: *)
(* its type invariant, the fencing of attempts, and that the batch keeps   *)
(* the promise of BatchPromise.                                            *)
(*                                                                         *)
(* All rest on one inductive invariant, IInv.  Its core, Fenced and        *)
(* Judged, are predicates of rows: _settle is called on rows that its      *)
(* transaction has already changed, so what it preserves is stated for any *)
(* rows (SettleSound), and each transaction is shown to hand it such rows. *)
(***************************************************************************)
EXTENDS BatchItems, FiniteSetTheorems, TLAPS

\* A leaf that names no prover is tried with SMT, then with Zenon.
USE SMTT(30), ZenonT(30)

ItemRow == [status : OpenStatus \cup FinalStatus \cup {"deleted"},
            attempts : 0 .. MaxSeq,
            seq : 0 .. MaxSeq,
            owner : Workers \cup {NoWorker},
            lease : {"none", "live", "lapsed"}]
ItemRows == [Items -> ItemRow]
AttemptRows == [Attempts -> {"absent"} \cup OpenAttempt \cup Costs]
Tasks == [Attempts -> [stage : {"none", "claimed", "calling", "rejecting"},
                       worker : Workers \cup {NoWorker},
                       tries : 0 .. MaxSeq]]

\* The rows of a batch agree: attempts are numbered without gaps and open only
\* under a running item; an item carries the verdict of its batch only; only a
\* batch without open items is finalized.
Fenced(its, ats) ==
    /\ \A i \in Items : its[i].attempts <= its[i].seq
    /\ \A a \in Attempts : /\ ats[a] = "absent" <=> a[2] > its[a[1]].seq
                           /\ ats[a] \in OpenAttempt => /\ a[2] = its[a[1]].seq
                                                        /\ its[a[1]].status = "running"

Judged(j, its) ==
    /\ j.row = "gone" => \A i \in Items : its[i].status = "deleted"
    /\ j.row # "gone" => \A i \in Items : its[i].status # "deleted"
    /\ j.row # "gone" /\ j.phase = "runnable" =>
         /\ j.pending = "none"
         /\ j.status \in {"validating", "in_progress", "cancelling", "failed", "expired"}
         /\ \A i \in Items : /\ its[i].status = "cancelled" => j.status = "cancelling"
                             /\ its[i].status = "expired" => j.status = "expired"
    /\ j.row # "gone" /\ j.phase # "runnable" =>
         /\ j.pending \in FinalStatus
         /\ j.phase = "sealing" => j.pending = Final(j.status)
         /\ j.phase = "sealed" => j.status = j.pending
         /\ \A i \in Items : /\ its[i].status \notin OpenStatus
                             /\ its[i].status \in {"cancelled", "expired"} =>
                                  j.pending = its[i].status

\* A worker's task of the current attempt is the owner's.
Owned ==
    \A a \in Attempts :
        task[a].stage \in {"claimed", "calling"} /\ a[2] = item[a[1]].seq =>
            item[a[1]].owner \in {task[a].worker, NoWorker}

IInv ==
    /\ TypeOK
    /\ Fenced(item, attempt)
    /\ Judged(job, item)
    /\ NothingQueuedAfterVerdict
    /\ Owned

\* What no step of a sound batch undoes: results, the outcome, a verdict.
Keeps ==
    /\ \A i \in Items : Exists' /\ item[i].status \notin OpenStatus =>
                            item'[i].status = item[i].status
    /\ job.pending # "none" \/ ~ Exists' => job'.pending = job.pending
    /\ Exists' => Exists
    /\ Verdict(job.status) # "none" => job'.status \in {job.status, Verdict(job.status)}
    /\ job.phase = "sealing" => job'.phase # "runnable"
    /\ job.phase = "sealed" => job'.phase = "sealed" /\ job'.status = job.status

-----------------------------------------------------------------------------
\* What _settle does, to any rows.
SettleEffect(j, cs, its, ats) ==
    /\ counts' \in [Counters -> Nat]
    /\ item' \in ItemRows
    /\ attempt' \in AttemptRows
    /\ job' \in Jobs
    /\ event' \in BOOLEAN
    /\ renewing' \in SUBSET Items
    /\ \A i \in Items : /\ item'[i].attempts = its[i].attempts
                        /\ item'[i].seq = its[i].seq
                        /\ item'[i].owner = its[i].owner
                        /\ item'[i].status # its[i].status =>
                             /\ its[i].status \in OpenStatus
                             /\ j.phase = "runnable"
                             /\ Verdict(j.status) # "none"
                             /\ item'[i].status = Verdict(j.status)
    /\ \A a \in Attempts :
         /\ attempt'[a] # ats[a] => ats[a] \in OpenAttempt /\ attempt'[a] \in Costs
         /\ attempt'[a] \in OpenAttempt => item'[a[1]].status = its[a[1]].status
    /\ j.phase = "runnable" /\ Verdict(j.status) # "none" =>
         \A i \in Items : item'[i].status # "queued"
    /\ \/ job' = j
       \/ /\ j.phase = "runnable"
          /\ Final(j.status) # "none"
          /\ job' = Finalized(j, Final(j.status))
          /\ \A i \in Items : item'[i].status \notin OpenStatus

\* Verdicts and final statuses are statuses of items and batches.
LEMMA VerdictTypes ==
    ASSUME NEW s
    PROVE  /\ Verdict(s) \in {"none", "cancelled", "failed", "expired"}
           /\ Final(s) \in FinalStatus \cup {"none"}
BY DEF Verdict, Final, FinalStatus

\* A set of items can be counted.
LEMMA SubsetCount ==
    ASSUME NEW S \in SUBSET Items
    PROVE  Cardinality(S) \in Nat
BY BatchAssumption, FS_Subset, FS_CardinalityType

\* An item row that takes a verdict is still an item row.
LEMMA RowSettled ==
    ASSUME NEW r \in ItemRow, NEW v \in FinalStatus
    PROVE  [r EXCEPT !.status = v, !.lease = "none"] \in ItemRow
BY Zenon DEF ItemRow

\* _finalize yields a batch row.
LEMMA FinalizedType ==
    ASSUME NEW j \in Jobs, NEW f \in FinalStatus
    PROVE  Finalized(j, f) \in Jobs
<1>1. CASE j.surface = "file"
  <2>1. Finalized(j, f) = [j EXCEPT !.phase = "sealing", !.pending = f]
    BY <1>1 DEF Finalized
  <2>2. QED
    BY <2>1, Zenon DEF Jobs
<1>2. CASE j.surface # "file"
  <2> DEFINE j1 == [j EXCEPT !.phase = "sealed"]
             j2 == [j1 EXCEPT !.pending = f]
             j3 == [j2 EXCEPT !.status = f]
  <2>1. Finalized(j, f) = j3
    BY <1>2 DEF Finalized
  <2>2. f \in {"failed", "expired", "completed", "cancelled"}
    BY DEF FinalStatus
  <2>3. j1 \in Jobs
    BY DEF Jobs
  <2>4. j2 \in Jobs
    <3> HIDE DEF j1
    <3> QED BY <2>3 DEF Jobs
  <2>5. j3 \in Jobs
    <3> HIDE DEF j2
    <3> QED BY <2>2, <2>4 DEF Jobs
  <2>6. QED
    BY <2>1, <2>5
<1>3. QED
  BY <1>1, <1>2

\* The settled rows, the abandoned attempts, the counters and the batch row.
LEMMA SettleEffects ==
    ASSUME TypeOK,
           NEW j \in Jobs, NEW cs \in [Counters -> Nat],
           NEW its \in ItemRows, NEW ats \in AttemptRows,
           Fenced(its, ats),
           Settle(j, cs, its, ats)
    PROVE  SettleEffect(j, cs, its, ats)
<1> DEFINE verdict == Verdict(j.status)
           closing == j.phase = "runnable" /\ verdict # "none"
           stale   == IF closing THEN Stale(its) ELSE {}
           late    == stale \cap renewing
           settled == IF closing THEN Queued(its) \cup (stale \ late) ELSE {}
           unknown == UnknownOf(its, ats, stale)
           n       == Cardinality(settled)
           its2 == [i \in Items |->
                      IF i \in settled THEN [its[i] EXCEPT !.status = verdict, !.lease = "none"]
                      ELSE IF late # {} /\ i \in renewing THEN [its[i] EXCEPT !.lease = "live"]
                      ELSE its[i]]
           ends == j.phase = "runnable" /\ Final(j.status) # "none" /\ Open(its2) = {}
<1>1. /\ item' = its2
      /\ attempt' = Abandoned(its, ats, stale)
      /\ counts' = [cs EXCEPT !["unknown"]   = @ + unknown,
                              !["cancelled"] = IF verdict = "cancelled" THEN @ + n ELSE @,
                              !["failed"]    = IF verdict \in {"failed", "expired"} THEN @ + n ELSE @,
                              !["expired"]   = IF verdict = "expired" THEN @ + n ELSE @]
      /\ job' = IF ends THEN Finalized(j, Final(j.status)) ELSE j
      /\ event' = (event \/ (ends /\ j.surface = "inline"))
      /\ renewing' = IF late = {} THEN renewing ELSE {}
  BY Zenon DEF Settle
<1>2. /\ verdict \in {"none", "cancelled", "failed", "expired"}
      /\ Final(j.status) \in FinalStatus \cup {"none"}
  BY VerdictTypes
<1>3. /\ stale \in SUBSET Items
      /\ settled \in SUBSET Items
      /\ settled # {} => closing
      /\ \A i \in settled : its[i].status = "queued" \/ i \in stale
      /\ \A i \in stale : closing /\ its[i].status = "running"
  BY DEF Stale, Queued
<1>4. unknown \in Nat /\ n \in Nat
  <2>1. {i \in stale : ats[<<i, its[i].seq>>] = "dispatched"} \in SUBSET Items
    BY <1>3
  <2>2. unknown \in Nat
    BY <2>1, SubsetCount, Zenon DEF UnknownOf
  <2>3. n \in Nat
    BY <1>3, SubsetCount
  <2>4. QED
    BY <2>2, <2>3
<1>5. counts' \in [Counters -> Nat]
  <2> HIDE DEF closing, stale, late, settled, unknown, n, verdict, its2, ends
  <2> DEFINE c1 == [cs EXCEPT !["unknown"] = @ + unknown]
             c2 == [c1 EXCEPT !["cancelled"] = IF verdict = "cancelled" THEN @ + n ELSE @]
             c3 == [c2 EXCEPT !["failed"] = IF verdict \in {"failed", "expired"} THEN @ + n ELSE @]
             c4 == [c3 EXCEPT !["expired"] = IF verdict = "expired" THEN @ + n ELSE @]
  <2>1. c1 \in [Counters -> Nat]
    BY <1>4 DEF Counters
  <2>2. c2 \in [Counters -> Nat]
    <3> HIDE DEF c1
    <3> QED BY <1>4, <2>1 DEF Counters
  <2>3. c3 \in [Counters -> Nat]
    <3> HIDE DEF c2
    <3> QED BY <1>4, <2>2 DEF Counters
  <2>4. c4 \in [Counters -> Nat]
    <3> HIDE DEF c3
    <3> QED BY <1>4, <2>3 DEF Counters
  <2>5. QED
    BY <1>1, <2>4
<1>6. item' \in ItemRows
  <2>1. \A i \in Items : its2[i] \in ItemRow
    <3> SUFFICES ASSUME NEW i \in Items PROVE its2[i] \in ItemRow
      BY Zenon
    <3>1. its[i] \in ItemRow
      BY DEF ItemRows
    <3>2. CASE i \in settled
      <4>1. verdict \in FinalStatus
        BY <1>2, <1>3, <3>2 DEF FinalStatus
      <4>2. its2[i] = [its[i] EXCEPT !.status = verdict, !.lease = "none"]
        BY <3>2
      <4> HIDE DEF verdict, settled, its2
      <4>3. QED
        BY <3>1, <4>1, <4>2, RowSettled, ZenonT(60)
    <3>3. CASE i \notin settled
      <4> HIDE DEF verdict, stale, late, settled
      <4>1. its2[i] = its[i] \/ its2[i] = [its[i] EXCEPT !.lease = "live"]
        BY <3>3
      <4>2. QED
        BY <3>1, <4>1 DEF ItemRow
    <3>4. QED
      BY <3>2, <3>3
  <2>2. QED
    BY <1>1, <2>1, Zenon DEF ItemRows
<1>7. \A i \in Items : /\ its2[i].attempts = its[i].attempts
                       /\ its2[i].seq = its[i].seq
                       /\ its2[i].owner = its[i].owner
                       /\ its2[i].status = IF i \in settled THEN verdict ELSE its[i].status
  <2> TAKE i \in Items
  <2>1. its[i] \in ItemRow
    BY DEF ItemRows
  <2>2. CASE i \in settled
    <3>1. its2[i] = [its[i] EXCEPT !.status = verdict, !.lease = "none"]
      BY <2>2
    <3>2. QED
      BY <2>1, <2>2, <3>1 DEF ItemRow
  <2>3. CASE i \notin settled
    <3> HIDE DEF verdict, stale, late, settled
    <3>1. its2[i] = its[i] \/ its2[i] = [its[i] EXCEPT !.lease = "live"]
      BY <2>3
    <3>2. QED
      BY <2>1, <2>3, <3>1 DEF ItemRow
  <2>4. QED
    BY <2>2, <2>3
<1>8. attempt' \in AttemptRows
  BY <1>1, Zenon DEF Abandoned, AttemptRows, Costs
<1>9. \A a \in Attempts :
        /\ attempt'[a] # ats[a] => ats[a] \in OpenAttempt /\ attempt'[a] \in Costs
        /\ attempt'[a] \in OpenAttempt => item'[a[1]].status = its[a[1]].status
  <2> TAKE a \in Attempts
  <2>1. a = <<a[1], a[2]>> /\ a[1] \in Items
    BY DEF Attempts
  <2>2. attempt'[a] = IF a[1] \in Orphans(its, ats, stale) /\ a[2] = its[a[1]].seq
                      THEN IF ats[a] = "dispatched" THEN "unknown" ELSE "not_billed"
                      ELSE ats[a]
    BY <1>1, Zenon DEF Abandoned
  <2>3. a[1] \in Orphans(its, ats, stale) /\ a[2] = its[a[1]].seq
           <=> a[1] \in stale /\ a[2] = its[a[1]].seq /\ ats[a] \in OpenAttempt
    BY <2>1 DEF Orphans
  <2>4. attempt'[a] # ats[a] => ats[a] \in OpenAttempt /\ attempt'[a] \in Costs
    BY <2>2, <2>3 DEF Costs
  <2>5. ASSUME attempt'[a] \in OpenAttempt
        PROVE  item'[a[1]].status = its[a[1]].status
    <3>1. ats[a] \in OpenAttempt /\ a[1] \notin stale
      BY <2>2, <2>3, <2>5 DEF OpenAttempt, Fenced
    <3>2. its[a[1]].status = "running"
      BY <3>1 DEF Fenced
    <3>3. a[1] \notin settled
      BY <1>3, <3>1, <3>2
    <3>4. QED
      BY <1>1, <1>7, <2>1, <3>3, Zenon
  <2>6. QED
    BY <2>4, <2>5
<1>10. closing => \A i \in Items : item'[i].status # "queued"
  BY <1>1, <1>2, <1>7, ZenonT(40) DEF Queued
<1>11. \A i \in Items : item'[i].status # its[i].status =>
         /\ its[i].status \in OpenStatus
         /\ j.phase = "runnable"
         /\ verdict # "none"
         /\ item'[i].status = verdict
  BY <1>1, <1>3, <1>7, ZenonT(40) DEF OpenStatus
<1>12. \/ job' = j
       \/ /\ j.phase = "runnable"
          /\ Final(j.status) # "none"
          /\ job' = Finalized(j, Final(j.status))
          /\ \A i \in Items : item'[i].status \notin OpenStatus
  BY <1>1, Zenon DEF Open
<1>13. job' \in Jobs
  BY <1>2, <1>12, FinalizedType
<1>14. event' \in BOOLEAN /\ renewing' \in SUBSET Items
  BY <1>1, Zenon DEF TypeOK
<1>15. QED
  BY <1>1, <1>5, <1>6, <1>7, <1>8, <1>9, <1>10, <1>11, <1>12, <1>13, <1>14, ZenonT(40) DEF SettleEffect

\* The type invariant, in the names used here.
LEMMA TypeForm ==
    TypeOK <=> /\ job \in Jobs
               /\ counts \in [Counters -> Nat]
               /\ item \in ItemRows
               /\ attempt \in AttemptRows
               /\ event \in BOOLEAN
               /\ window \in {"none", "open", "over"}
               /\ reading \in BOOLEAN
               /\ renewing \in SUBSET Items
               /\ task \in Tasks
BY DEF TypeOK, ItemRows, ItemRow, AttemptRows, Tasks

\* The type invariant of the next state, in the names used here.
LEMMA TypeNext ==
    ASSUME job' \in Jobs, counts' \in [Counters -> Nat], item' \in ItemRows,
           attempt' \in AttemptRows, event' \in BOOLEAN,
           window' \in {"none", "open", "over"}, reading' \in BOOLEAN,
           renewing' \in SUBSET Items, task' \in Tasks
    PROVE  TypeOK'
BY DEF TypeOK, ItemRows, ItemRow, AttemptRows, Tasks

\* Sound rows settle to sound rows, and leave nothing queued under a verdict.
LEMMA SettleSound ==
    ASSUME NEW j \in Jobs, NEW cs \in [Counters -> Nat],
           NEW its \in ItemRows, NEW ats \in AttemptRows,
           Fenced(its, ats), Judged(j, its), j.row # "gone",
           SettleEffect(j, cs, its, ats)
    PROVE  Fenced(item', attempt') /\ Judged(job', item') /\ NothingQueuedAfterVerdict'
<1>1. Fenced(item', attempt')
  <2>1. \A i \in Items : item'[i].attempts <= item'[i].seq
    BY DEF Fenced, SettleEffect
  <2>2. ASSUME NEW a \in Attempts
        PROVE  /\ attempt'[a] = "absent" <=> a[2] > item'[a[1]].seq
               /\ attempt'[a] \in OpenAttempt => /\ a[2] = item'[a[1]].seq
                                                  /\ item'[a[1]].status = "running"
    <3>1. a[1] \in Items /\ item'[a[1]].seq = its[a[1]].seq
      BY DEF Attempts, SettleEffect
    <3>2. attempt'[a] # ats[a] => ats[a] \in OpenAttempt /\ attempt'[a] \in Costs
      BY DEF SettleEffect
    <3>3. attempt'[a] = "absent" <=> ats[a] = "absent"
      BY <3>2 DEF OpenAttempt, Costs
    <3>4. attempt'[a] \in OpenAttempt => attempt'[a] = ats[a]
      BY <3>2 DEF OpenAttempt, Costs
    <3>5. attempt'[a] \in OpenAttempt => item'[a[1]].status = its[a[1]].status
      BY DEF SettleEffect
    <3>6. QED
      BY <3>1, <3>3, <3>4, <3>5 DEF Fenced
  <2>3. QED
    BY <2>1, <2>2 DEF Fenced
<1>2. Verdict(j.status) \in {"none", "cancelled", "failed", "expired"}
  BY VerdictTypes
<1>3. \A i \in Items :
        \/ item'[i].status = its[i].status
        \/ /\ its[i].status \in OpenStatus
           /\ j.phase = "runnable"
           /\ item'[i].status = Verdict(j.status)
           /\ Verdict(j.status) # "none"
  BY DEF SettleEffect
<1>4. \A i \in Items : item'[i].status # "deleted"
  BY <1>2, <1>3 DEF Judged
<1>5. CASE job' = j
  <2>1. CASE j.phase = "runnable"
    <3>1. \A i \in Items : /\ item'[i].status = "cancelled" => j.status = "cancelling"
                           /\ item'[i].status = "expired" => j.status = "expired"
      BY <1>3, <2>1 DEF Judged, Verdict, OpenStatus
    <3>2. Judged(job', item')
      BY <1>4, <1>5, <2>1, <3>1 DEF Judged
    <3>3. Verdict(j.status) # "none" => \A i \in Items : item'[i].status # "queued"
      BY <2>1 DEF SettleEffect
    <3>4. QED
      BY <1>1, <1>5, <3>2, <3>3 DEF NothingQueuedAfterVerdict, Queued
  <2>2. CASE j.phase # "runnable"
    <3>1. \A i \in Items : item'[i].status = its[i].status /\ its[i].status \notin OpenStatus
      BY <1>3, <2>2 DEF Judged
    <3>2. Judged(job', item')
      BY <1>4, <1>5, <2>2, <3>1 DEF Judged
    <3>3. QED
      BY <1>1, <3>1, <3>2 DEF NothingQueuedAfterVerdict, Queued, OpenStatus
  <2>3. QED
    BY <2>1, <2>2
<1>6. CASE /\ j.phase = "runnable"
           /\ Final(j.status) # "none"
           /\ job' = Finalized(j, Final(j.status))
           /\ \A i \in Items : item'[i].status \notin OpenStatus
  <2>1. Final(j.status) \in FinalStatus
    BY <1>6, VerdictTypes
  <2>2. /\ job'.row = j.row
        /\ job'.phase \in {"sealing", "sealed"}
        /\ job'.pending = Final(j.status)
        /\ job'.phase = "sealing" => job'.status = j.status
        /\ job'.phase = "sealed" => job'.status = Final(j.status)
    BY <1>6 DEF Finalized, Jobs
  <2>3. \A i \in Items : item'[i].status \in {"cancelled", "expired"} =>
                           Final(j.status) = item'[i].status
    BY <1>3, <1>6 DEF Judged, Verdict, Final, OpenStatus
  <2>4. Judged(job', item')
    BY <1>4, <1>6, <2>1, <2>2, <2>3 DEF Judged
  <2>5. QED
    BY <1>1, <1>6, <2>4 DEF NothingQueuedAfterVerdict, Queued, OpenStatus
<1>7. QED
  BY <1>5, <1>6 DEF SettleEffect

\* A transaction that settles sound rows preserves the invariant, provided it
\* keeps each item's attempt and claim or gives the claim up, and starts no task.
LEMMA SettlePreserves ==
    ASSUME IInv,
           NEW j \in Jobs, NEW cs \in [Counters -> Nat],
           NEW its \in ItemRows, NEW ats \in AttemptRows,
           Fenced(its, ats), Judged(j, its), j.row # "gone",
           job.phase = "runnable", Exists,
           j.phase = "runnable", j.status = job.status \/ Claiming,
           Settle(j, cs, its, ats),
           \A i \in Items : /\ its[i].seq = item[i].seq
                            /\ its[i].owner \in {item[i].owner, NoWorker}
                            /\ \/ its[i].status = item[i].status
                               \/ item[i].status \in OpenStatus,
           task' \in Tasks,
           \A a \in Attempts : task'[a].stage \in {"claimed", "calling"} =>
                                  /\ task[a].stage \in {"claimed", "calling"}
                                  /\ task'[a].worker = task[a].worker,
           UNCHANGED <<window, reading>>
    PROVE  IInv' /\ Keeps
<1>1. SettleEffect(j, cs, its, ats)
  BY SettleEffects DEF IInv
<1>2. Fenced(item', attempt') /\ Judged(job', item') /\ NothingQueuedAfterVerdict'
  BY <1>1, SettleSound
<1>3. TypeOK'
  BY <1>1, TypeForm, TypeNext DEF IInv, SettleEffect
<1>4. Owned'
  <2>1. \A i \in Items : item'[i].seq = its[i].seq /\ item'[i].owner = its[i].owner
    BY <1>1 DEF SettleEffect
  <2>2. \A a \in Attempts : a[1] \in Items
    BY ZenonT(40) DEF Attempts
  <2>3. QED
    BY <2>1, <2>2, ZenonT(40) DEF IInv, Owned
<1>5. Keeps
  <2>1. job.pending = "none" /\ job.row # "gone"
    BY ZenonT(40) DEF IInv, Judged, Exists
  <2>2. \A i \in Items : item[i].status \notin OpenStatus => item'[i].status = item[i].status
    BY <1>1 DEF SettleEffect
  <2>3. job'.row # "gone" /\ (job'.status = j.status \/ job'.status = Final(j.status))
    <3>1. job' = j \/ job' = Finalized(j, Final(j.status))
      BY <1>1 DEF SettleEffect
    <3>2. /\ Finalized(j, Final(j.status)).row = j.row
          /\ Finalized(j, Final(j.status)).status \in {j.status, Final(j.status)}
      BY DEF Finalized, Jobs
    <3>3. QED
      BY <3>1, <3>2
  <2>4. Verdict(job.status) # "none" => job'.status \in {job.status, Verdict(job.status)}
    BY <2>3, ZenonT(40) DEF Claiming, Verdict, Final
  <2>5. QED
    BY <2>1, <2>2, <2>3, <2>4, ZenonT(40) DEF Keeps, Exists
<1>6. QED
  BY <1>2, <1>3, <1>4, <1>5 DEF IInv

-----------------------------------------------------------------------------
\* A worker's report: the item it holds ends or is requeued, its attempt is
\* closed, and the batch settles.
LEMMA ReportPreserves ==
    ASSUME IInv,
           NEW a \in Attempts, Holds(a),
           NEW cs \in [Counters -> Nat], NEW its \in ItemRows, NEW cost \in Costs,
           \A i \in Items \ {a[1]} : its[i] = item[i],
           its[a[1]].status \in {"completed", "failed", "queued"},
           its[a[1]].seq = item[a[1]].seq,
           its[a[1]].attempts <= item[a[1]].attempts,
           its[a[1]].owner \in {item[a[1]].owner, NoWorker},
           Settle(job, cs, its, Closed(a, cost)),
           task' \in Tasks,
           \A b \in Attempts : task'[b].stage \in {"claimed", "calling"} =>
                                  /\ task[b].stage \in {"claimed", "calling"}
                                  /\ task'[b].worker = task[b].worker,
           UNCHANGED <<window, reading>>
    PROVE  IInv' /\ Keeps
<1>1. /\ job \in Jobs
      /\ attempt \in AttemptRows
      /\ item \in ItemRows
      /\ Fenced(item, attempt)
      /\ Judged(job, item)
  BY TypeForm, ZenonT(40) DEF IInv
<1>2. a[1] \in Items /\ item[a[1]].status = "running" /\ item[a[1]].seq = a[2]
  BY DEF Holds, Attempts
<1>3. PICK j \in Jobs : j = job
  BY <1>1
<1>4. Closed(a, cost) \in AttemptRows
  BY <1>1 DEF Closed, AttemptRows
<1>5. PICK ats \in AttemptRows : ats = Closed(a, cost)
  BY <1>4
<1>6. Settle(j, cs, its, ats)
  BY <1>3, <1>5
<1>7. /\ \A b \in Attempts : b # a => ats[b] = attempt[b]
      /\ ats[a] = IF attempt[a] \in OpenAttempt THEN cost ELSE attempt[a]
  BY <1>1, <1>5 DEF Closed, AttemptRows
<1>8. Fenced(its, ats)
  <2>1. \A i \in Items : its[i].attempts <= its[i].seq
    <3> TAKE i \in Items
    <3>1. item[i].attempts <= item[i].seq
      BY <1>1, ZenonT(40) DEF Fenced
    <3>2. CASE i # a[1]
      BY <3>1, <3>2
    <3>3. CASE i = a[1]
      <4>1. /\ its[i].attempts \in Int /\ its[i].seq \in Int
            /\ item[i].attempts \in Int /\ item[i].seq \in Int
        <5>1. its[i] \in ItemRow /\ item[i] \in ItemRow
          BY <1>1 DEF ItemRows
        <5>2. QED
          BY <5>1, BatchAssumption DEF ItemRow
      <4>2. QED
        BY <3>1, <3>3, <4>1
    <3>4. QED
      BY <3>2, <3>3
  <2>2. ASSUME NEW b \in Attempts
        PROVE  /\ ats[b] = "absent" <=> b[2] > its[b[1]].seq
               /\ ats[b] \in OpenAttempt => b[2] = its[b[1]].seq /\ its[b[1]].status = "running"
    <3>1. /\ attempt[b] = "absent" <=> b[2] > item[b[1]].seq
          /\ attempt[b] \in OpenAttempt => b[2] = item[b[1]].seq /\ item[b[1]].status = "running"
      BY <1>1 DEF Fenced
    <3>2. b[1] \in Items /\ its[b[1]].seq = item[b[1]].seq
      BY ZenonT(40) DEF Attempts
    <3>3. CASE b = a
      BY <1>7, <3>1, <3>2, <3>3, ZenonT(40) DEF OpenAttempt, Costs
    <3>4. CASE b # a /\ b[1] = a[1]
      <4>1. b[2] # a[2]
        BY <3>4 DEF Attempts
      <4>2. QED
        BY <1>2, <1>7, <3>1, <3>2, <3>4, <4>1
    <3>5. CASE b[1] # a[1]
      BY <1>7, <3>1, <3>2, <3>5, ZenonT(40)
    <3>6. QED
      BY <3>3, <3>4, <3>5, ZenonT(40)
  <2>3. QED
    BY <2>1, <2>2 DEF Fenced
<1>9. j.row # "gone" /\ j.phase = "runnable"
  BY <1>1, <1>2, <1>3, ZenonT(40) DEF Judged, OpenStatus, Jobs
<1>10. Judged(j, its)
  <2>1. \A i \in Items : \/ its[i].status = item[i].status
                        \/ its[i].status \in {"completed", "failed", "queued"}
    OBVIOUS
  <2>2. Judged(j, item)
    BY <1>1, <1>3
  <2>3. QED
    BY <1>9, <2>1, <2>2, ZenonT(40) DEF Judged
<1>11. \A i \in Items : /\ its[i].seq = item[i].seq
                        /\ its[i].owner \in {item[i].owner, NoWorker}
                        /\ its[i].status = item[i].status \/ item[i].status \in OpenStatus
  BY <1>2, ZenonT(40) DEF OpenStatus
<1>12. QED
  BY <1>3, <1>6, <1>8, <1>9, <1>10, <1>11, SettlePreserves, ZenonT(40) DEF Exists

\* complete_item, with a status and a cost.
LEMMA CompletePreserves ==
    ASSUME IInv, NEW a \in Attempts,
           NEW status \in {"completed", "failed"}, NEW cost \in Costs,
           CompleteItem(a, status, cost),
           task' \in {task, [task EXCEPT ![a] = NoTask]}
    PROVE  IInv' /\ Keeps
<1>1. counts \in [Counters -> Nat] /\ item \in ItemRows /\ task \in Tasks /\ a[1] \in Items
  BY TypeForm DEF IInv, Attempts
<1> DEFINE its == [item EXCEPT ![a[1]].status = status, ![a[1]].lease = "none"]
           cs  == Plus(Billed(counts, cost), status, 1)
<1>2. its \in ItemRows
  BY <1>1 DEF ItemRows, ItemRow, FinalStatus
<1>3. cs \in [Counters -> Nat]
  <2>1. Billed(counts, cost) \in [Counters -> Nat]
    BY <1>1 DEF Billed, Counters
  <2>2. QED
    BY <2>1 DEF Plus, Counters
<1>4. /\ \A i \in Items \ {a[1]} : its[i] = item[i]
      /\ its[a[1]].status = status
      /\ its[a[1]].seq = item[a[1]].seq
      /\ its[a[1]].attempts = item[a[1]].attempts
      /\ its[a[1]].owner = item[a[1]].owner
  BY <1>1 DEF ItemRows, ItemRow
<1>5. item[a[1]].attempts \in Int
  BY <1>1, BatchAssumption DEF ItemRows, ItemRow
<1>6. task' \in Tasks
  BY <1>1, BatchAssumption DEF Tasks, NoTask
<1>7. \A b \in Attempts : task'[b].stage \in {"claimed", "calling"} =>
                             /\ task[b].stage \in {"claimed", "calling"}
                             /\ task'[b].worker = task[b].worker
  BY <1>1 DEF Tasks, NoTask
<1>8. Holds(a) /\ Settle(job, cs, its, Closed(a, cost)) /\ UNCHANGED <<window, reading>>
  BY DEF CompleteItem, Writable
<1>9. PICK its2 \in ItemRows, cs2 \in [Counters -> Nat] : its2 = its /\ cs2 = cs
  BY <1>2, <1>3
<1>10. Settle(job, cs2, its2, Closed(a, cost))
  <2> HIDE DEF its, cs
  <2> QED BY <1>8, <1>9, ZenonT(40)
<1>11. /\ \A i \in Items \ {a[1]} : its2[i] = item[i]
       /\ its2[a[1]].status \in {"completed", "failed", "queued"}
       /\ its2[a[1]].seq = item[a[1]].seq
       /\ its2[a[1]].attempts <= item[a[1]].attempts
       /\ its2[a[1]].owner \in {item[a[1]].owner, NoWorker}
  <2> HIDE DEF its, cs
  <2>1. its2 = its
    BY <1>9
  <2>2. its2[a[1]].attempts <= item[a[1]].attempts
    BY <1>4, <1>5, <2>1
  <2>3. QED
    BY <1>4, <2>1, <2>2
<1> HIDE DEF its, cs
<1>12. Holds(a) /\ UNCHANGED <<window, reading>>
  BY <1>8, ZenonT(40)
<1>13. QED
  BY <1>6, <1>7, <1>10, <1>11, <1>12, ReportPreserves

\* retry_item and release_item: the item is requeued, with n attempts
\* counted.
LEMMA RequeuePreserves ==
    ASSUME IInv, NEW a \in Attempts,
           NEW cs \in [Counters -> Nat], NEW cost \in Costs, NEW n \in 0 .. MaxSeq,
           n <= item[a[1]].attempts,
           Holds(a),
           Requeued(job, cs, Unclaimed(a[1], n), Closed(a, cost)),
           task' \in Tasks,
           \A b \in Attempts : task'[b].stage \in {"claimed", "calling"} =>
                                  /\ task[b].stage \in {"claimed", "calling"}
                                  /\ task'[b].worker = task[b].worker,
           UNCHANGED <<window, reading>>
    PROVE  IInv' /\ Keeps
<1>1. item \in ItemRows /\ task \in Tasks /\ a[1] \in Items
  BY TypeForm DEF IInv, Attempts
<1> DEFINE row == [status |-> "queued", attempts |-> n, seq |-> item[a[1]].seq,
                   owner |-> NoWorker, lease |-> "none"]
<1>2. row \in ItemRow
  BY <1>1 DEF ItemRows, ItemRow, OpenStatus
<1>3. Unclaimed(a[1], n) \in ItemRows
  <2> HIDE DEF row
  <2> QED BY <1>1, <1>2 DEF Unclaimed, ItemRows, row
<1>4. PICK its \in ItemRows : its = Unclaimed(a[1], n)
  BY <1>3
<1>5. its[a[1]] = row /\ \A i \in Items \ {a[1]} : its[i] = item[i]
  BY <1>1, <1>4 DEF Unclaimed, ItemRows
<1>6. /\ its[a[1]].status = "queued"
      /\ its[a[1]].seq = item[a[1]].seq
      /\ its[a[1]].attempts <= item[a[1]].attempts
      /\ its[a[1]].owner = NoWorker
  BY <1>5
<1>7. Settle(job, cs, its, Closed(a, cost))
  BY <1>4 DEF Requeued
<1>8. QED
  BY <1>5, <1>6, <1>7, ReportPreserves, ZenonT(40)

\* cancel_batch, fail_batch and the sweep: the batch takes status s, and settles.
LEMMA ClosePreserves ==
    ASSUME IInv, Exists, job.phase = "runnable",
           NEW s \in {"cancelling", "failed", "expired", job.status},
           Claiming \/ s = job.status,
           Settle([job EXCEPT !.status = s], counts, item, attempt),
           task' \in Tasks,
           \A b \in Attempts : task'[b].stage \in {"claimed", "calling"} => task'[b] = task[b],
           UNCHANGED <<window, reading>>
    PROVE  IInv' /\ Keeps
<1>1. /\ job \in Jobs /\ counts \in [Counters -> Nat]
      /\ item \in ItemRows /\ attempt \in AttemptRows
      /\ Fenced(item, attempt) /\ Judged(job, item)
  BY TypeForm DEF IInv
<1>2. [job EXCEPT !.status = s] \in Jobs
  BY <1>1 DEF Jobs
<1>3. PICK j \in Jobs, cs \in [Counters -> Nat], its \in ItemRows, ats \in AttemptRows :
        j = [job EXCEPT !.status = s] /\ cs = counts /\ its = item /\ ats = attempt
  BY <1>1, <1>2
<1>4. Settle(j, cs, its, ats)
  BY <1>3
<1>5. j.row = job.row /\ j.phase = "runnable" /\ j.pending = job.pending /\ j.status = s
  BY <1>1, <1>3 DEF Jobs
<1>6. j.row # "gone"
  BY <1>5 DEF Exists
<1>7. Judged(j, its)
  <2>1. CASE s = job.status
    BY <1>1, <1>3, <1>5, <2>1 DEF Judged
  <2>2. CASE s # job.status
    <3>1. Claiming /\ s \in {"cancelling", "failed", "expired"}
      BY <2>2
    <3>2. \A i \in Items : item[i].status \notin {"cancelled", "expired"}
      BY <1>1, <1>5, <1>6, <3>1 DEF Judged, Claiming
    <3>3. QED
      BY <1>1, <1>3, <1>5, <1>6, <3>1, <3>2 DEF Judged
  <2>3. QED
    BY <2>1, <2>2
<1>8. QED
  BY <1>1, <1>3, <1>4, <1>5, <1>6, <1>7, SettlePreserves, Zenon

-----------------------------------------------------------------------------
\* claim_items numbers the new attempt after every other, and closes the one it
\* takes over.
LEMMA ClaimPreserves ==
    ASSUME IInv, NEW w \in Workers, NEW S \in SUBSET Items, Claim(w, S)
    PROVE  IInv' /\ Keeps
<1>1. /\ job \in Jobs /\ counts \in [Counters -> Nat]
      /\ item \in ItemRows /\ attempt \in AttemptRows /\ task \in Tasks
      /\ Fenced(item, attempt) /\ Judged(job, item) /\ Owned
  BY TypeForm DEF IInv
<1> DEFINE stale == S \cap Stale(item)
           row(i) == [status |-> "running", attempts |-> item[i].attempts + 1,
                      seq |-> item[i].seq + 1, owner |-> w, lease |-> "live"]
<1>2. /\ item' = [i \in Items |-> IF i \in S THEN row(i) ELSE item[i]]
      /\ attempt' = [a \in Attempts |->
                       IF a[1] \in S /\ a[2] = item[a[1]].seq + 1 THEN "open"
                       ELSE Abandoned(item, attempt, stale)[a]]
      /\ counts' = Plus(counts, "unknown", UnknownOf(item, attempt, stale))
      /\ task' = [a \in Attempts |->
                    IF a[1] \in S /\ a[2] = item[a[1]].seq + 1
                    THEN [stage |-> "claimed", worker |-> w, tries |-> item[a[1]].attempts + 1]
                    ELSE task[a]]
      /\ job' = [job EXCEPT !.status = "in_progress"]
      /\ UNCHANGED <<event, window, reading, renewing>>
      /\ \A i \in S : item[i].seq < MaxSeq
      /\ \A i \in S : i \in stale \/ item[i].status = "queued"
      /\ job.row = "stored" /\ job.phase = "runnable"
      /\ job.status \in {"validating", "in_progress"}
  BY DEF Claim, NextSeq, Claimable, Queued
<1>3. \A i \in Items : /\ item[i].seq \in 0 .. MaxSeq
                       /\ item[i].attempts \in 0 .. MaxSeq
                       /\ item[i].attempts <= item[i].seq
                       /\ item[i] \in ItemRow
  BY <1>1 DEF ItemRows, ItemRow, Fenced
<1>4. \A i \in S : row(i) \in ItemRow
  BY <1>2, <1>3, BatchAssumption DEF ItemRow, OpenStatus
<1>5. item' \in ItemRows
  <2> HIDE DEF row
  <2> QED BY <1>2, <1>3, <1>4 DEF ItemRows
<1>6. attempt' \in AttemptRows
  BY <1>1, <1>2 DEF Abandoned, AttemptRows, OpenAttempt, Costs
<1>7. counts' \in [Counters -> Nat]
  <2>1. {i \in stale : attempt[<<i, item[i].seq>>] = "dispatched"} \in SUBSET Items
    OBVIOUS
  <2>2. UnknownOf(item, attempt, stale) \in Nat
    BY <2>1, SubsetCount, Zenon DEF UnknownOf
  <2>3. PICK u \in Nat : u = UnknownOf(item, attempt, stale)
    BY <2>2
  <2>4. QED
    BY <1>1, <1>2, <2>3 DEF Plus, Counters
<1>8. task' \in Tasks
  <2>1. \A i \in S : item[i].attempts + 1 \in 0 .. MaxSeq
    BY <1>2, <1>3, BatchAssumption
  <2>2. QED
    BY <1>1, <1>2, <2>1 DEF Tasks
<1>9. job' \in Jobs
  BY <1>1, <1>2 DEF Jobs
<1>10. TypeOK'
  BY <1>1, <1>2, <1>5, <1>6, <1>7, <1>8, <1>9, TypeForm, TypeNext, Zenon DEF IInv
<1>11. \A i \in Items : /\ i \in S => /\ item'[i].status = "running"
                                      /\ item'[i].attempts = item[i].attempts + 1
                                      /\ item'[i].seq = item[i].seq + 1
                                      /\ item'[i].owner = w
                        /\ i \notin S => item'[i] = item[i]
  <2> TAKE i \in Items
  <2>1. CASE i \in S
    <3>1. item'[i] = row(i)
      BY <1>2, <2>1
    <3>2. QED
      BY <2>1, <3>1
  <2>2. CASE i \notin S
    BY <1>2, <2>2
  <2>3. QED
    BY <2>1, <2>2
<1>12. Fenced(item', attempt')
  <2>1. \A i \in Items : item'[i].attempts <= item'[i].seq
    <3> TAKE i \in Items
    <3>1. CASE i \in S
      BY <1>3, <1>11, <3>1, BatchAssumption
    <3>2. CASE i \notin S
      BY <1>3, <1>11, <3>2, ZenonT(40)
    <3>3. QED
      BY <3>1, <3>2
  <2>2. ASSUME NEW a \in Attempts
        PROVE  /\ attempt'[a] = "absent" <=> a[2] > item'[a[1]].seq
               /\ attempt'[a] \in OpenAttempt => /\ a[2] = item'[a[1]].seq
                                                  /\ item'[a[1]].status = "running"
    <3>1. a[1] \in Items /\ a[2] \in 1 .. MaxSeq /\ a = <<a[1], a[2]>>
      BY DEF Attempts
    <3>2. item[a[1]].seq \in Int /\ a[2] \in Int
      BY <1>3, <3>1, BatchAssumption
    <3>3. /\ attempt[a] = "absent" <=> a[2] > item[a[1]].seq
          /\ attempt[a] \in OpenAttempt => /\ a[2] = item[a[1]].seq
                                            /\ item[a[1]].status = "running"
      BY <1>1 DEF Fenced
    <3>4. Abandoned(item, attempt, stale)[a] =
            IF a[1] \in stale /\ a[2] = item[a[1]].seq /\ attempt[a] \in OpenAttempt
            THEN IF attempt[a] = "dispatched" THEN "unknown" ELSE "not_billed"
            ELSE attempt[a]
      BY <3>1 DEF Abandoned, Orphans
    <3>5. CASE a[1] \notin S
      BY <1>2, <1>11, <3>1, <3>3, <3>4, <3>5
    <3>6. CASE a[1] \in S /\ a[2] = item[a[1]].seq + 1
      BY <1>2, <1>11, <3>1, <3>2, <3>6 DEF OpenAttempt
    <3>7. CASE a[1] \in S /\ a[2] # item[a[1]].seq + 1
      <4>1. attempt'[a] = Abandoned(item, attempt, stale)[a]
        BY <1>2, <3>7
      <4>2. item'[a[1]].seq = item[a[1]].seq + 1
        BY <1>11, <3>1, <3>7
      <4>3. attempt'[a] = "absent" <=> attempt[a] = "absent"
        BY <3>4, <4>1 DEF OpenAttempt
      <4>4. attempt'[a] \notin OpenAttempt
        <5>1. attempt[a] \in OpenAttempt => a[1] \in stale
          BY <1>2, <3>3, <3>7
        <5>2. QED
          BY <3>3, <3>4, <4>1, <5>1 DEF OpenAttempt
      <4>5. QED
        BY <3>2, <3>3, <3>7, <4>2, <4>3, <4>4
    <3>8. QED
      BY <3>5, <3>6, <3>7
  <2>3. QED
    BY <2>1, <2>2 DEF Fenced
<1>13. Judged(job', item')
  <2>1. /\ job'.row = "stored" /\ job'.phase = "runnable" /\ job'.status = "in_progress"
        /\ job'.pending = job.pending
    BY <1>1, <1>2 DEF Jobs
  <2>2. \A i \in Items : item'[i].status = item[i].status \/ item'[i].status = "running"
    BY <1>11
  <2>3. /\ job.pending = "none"
        /\ \A i \in Items : item[i].status \notin {"deleted", "cancelled", "expired"}
    BY <1>1, <1>2 DEF Judged
  <2>4. QED
    BY <2>1, <2>2, <2>3 DEF Judged
<1>14. NothingQueuedAfterVerdict'
  <2>1. Verdict(job'.status) = "none"
    BY <1>1, <1>2 DEF Jobs, Verdict
  <2>2. QED
    BY <2>1 DEF NothingQueuedAfterVerdict
<1>15. Owned'
  <2> SUFFICES ASSUME NEW a \in Attempts,
                      task'[a].stage \in {"claimed", "calling"}, a[2] = item'[a[1]].seq
               PROVE  item'[a[1]].owner \in {task'[a].worker, NoWorker}
    BY DEF Owned
  <2>1. a[1] \in Items
    BY DEF Attempts
  <2>2. CASE a[1] \in S
    <3>1. a[2] = item[a[1]].seq + 1 /\ item'[a[1]].owner = w
      BY <1>11, <2>1, <2>2
    <3>2. QED
      BY <1>2, <2>2, <3>1
  <2>3. CASE a[1] \notin S
    BY <1>1, <1>2, <1>11, <2>1, <2>3 DEF Owned
  <2>4. QED
    BY <2>2, <2>3
<1>16. Keeps
  <2>1. job'.row = job.row /\ job'.phase = job.phase /\ job'.pending = job.pending
    BY <1>1, <1>2 DEF Jobs
  <2>2. \A i \in Items : item[i].status \notin OpenStatus => item'[i].status = item[i].status
    BY <1>2, <1>11 DEF OpenStatus, Stale
  <2>3. Verdict(job.status) = "none" /\ job.phase = "runnable"
    BY <1>2 DEF Verdict
  <2>4. QED
    BY <2>1, <2>2, <2>3 DEF Keeps, Exists
<1>17. QED
  BY <1>10, <1>12, <1>13, <1>14, <1>15, <1>16, ZenonT(40) DEF IInv

\* Steps that move no item between statuses and leave the batch row alone:
\* leases, heartbeats, the start and the end of a worker's call, time.
LEMMA FramePreserves ==
    ASSUME IInv, TypeOK', job' = job,
           \A i \in Items : /\ item'[i].status = item[i].status
                            /\ item'[i].attempts = item[i].attempts
                            /\ item'[i].seq = item[i].seq
                            /\ item'[i].owner = item[i].owner,
           \A a \in Attempts : \/ attempt'[a] = attempt[a]
                               \/ attempt[a] \in OpenAttempt /\ attempt'[a] \in OpenAttempt,
           \A a \in Attempts : task'[a].stage \in {"claimed", "calling"} =>
                                  /\ task[a].stage \in {"claimed", "calling"}
                                  /\ task'[a].worker = task[a].worker
    PROVE  IInv' /\ Keeps
<1>1. \A a \in Attempts : a[1] \in Items
  BY DEF Attempts
<1>2. Fenced(item', attempt')
  <2>1. \A i \in Items : item'[i].attempts <= item'[i].seq
    BY DEF IInv, Fenced
  <2>2. ASSUME NEW a \in Attempts
        PROVE  /\ attempt'[a] = "absent" <=> a[2] > item'[a[1]].seq
               /\ attempt'[a] \in OpenAttempt => /\ a[2] = item'[a[1]].seq
                                                  /\ item'[a[1]].status = "running"
    BY <1>1, ZenonT(40) DEF IInv, Fenced, OpenAttempt
  <2>3. QED
    BY <2>1, <2>2 DEF Fenced
<1>3. Judged(job', item')
  BY ZenonT(40) DEF IInv, Judged
<1>4. NothingQueuedAfterVerdict'
  BY DEF IInv, NothingQueuedAfterVerdict, Queued
<1>5. Owned'
  BY <1>1 DEF IInv, Owned
<1>6. Keeps
  BY DEF Keeps, Exists
<1>7. QED
  BY <1>2, <1>3, <1>4, <1>5, <1>6, ZenonT(40) DEF IInv

\* The batch and all its rows go.
LEMMA ErasePreserves ==
    ASSUME IInv, Erase, event' \in BOOLEAN
    PROVE  IInv' /\ Keeps
<1>1. job \in Jobs /\ window \in {"none", "open", "over"}
  BY TypeForm DEF IInv
<1>2. \A i \in Items : /\ item'[i] = NoItem
                       /\ item'[i].status = "deleted"
                       /\ item'[i].attempts = 0
                       /\ item'[i].seq = 0
  BY DEF Erase, NoItem
<1>3. NoItem \in ItemRow /\ NoTask \in [stage : {"none", "claimed", "calling", "rejecting"},
                                        worker : Workers \cup {NoWorker}, tries : 0 .. MaxSeq]
  BY BatchAssumption DEF NoItem, NoTask, ItemRow
<1>4. item' \in ItemRows /\ attempt' \in AttemptRows /\ task' \in Tasks
      /\ counts' \in [Counters -> Nat]
  <2> HIDE DEF NoItem, NoTask
  <2> QED BY <1>3 DEF Erase, ItemRows, AttemptRows, Tasks
<1>5. job' \in Jobs /\ job'.row = "gone"
  BY <1>1 DEF Erase, Jobs
<1>6. TypeOK'
  <2>1. renewing' \in SUBSET Items /\ reading' \in BOOLEAN /\ window' = window
    BY Zenon DEF Erase
  <2>2. QED
    BY <1>1, <1>4, <1>5, <2>1, TypeNext
<1>7. Fenced(item', attempt')
  <2>1. \A a \in Attempts : a[1] \in Items /\ a[2] > 0 /\ attempt'[a] = "absent"
    BY BatchAssumption DEF Attempts, Erase
  <2>2. QED
    BY <1>2, <2>1 DEF Fenced, OpenAttempt
<1>8. Judged(job', item')
  BY <1>2, <1>5 DEF Judged
<1>9. NothingQueuedAfterVerdict'
  BY <1>2 DEF NothingQueuedAfterVerdict, Queued
<1>10. Owned'
  BY DEF Owned, Erase, NoTask
<1>11. Keeps
  BY <1>1, <1>5 DEF Keeps, Exists, Erase, Jobs
<1>12. QED
  BY <1>6, <1>7, <1>8, <1>9, <1>10, <1>11 DEF IInv

\* Steps of the batch row alone: the sealer's publication, a deletion that waits.
LEMMA RowPreserves ==
    ASSUME IInv, Exists,
           NEW phase \in {job.phase, "sealed"}, NEW status, NEW row \in {"stored", "hidden"},
           phase = job.phase => status = job.status,
           phase # job.phase => job.phase # "runnable" /\ status = job.pending,
           job' = [job EXCEPT !.phase = phase, !.status = status, !.row = row],
           event' \in BOOLEAN,
           UNCHANGED <<counts, item, attempt, window, reading, renewing, task>>
    PROVE  IInv' /\ Keeps
<1>1. job \in Jobs /\ Judged(job, item) /\ job.row # "gone"
  BY TypeForm DEF IInv, Exists
<1>2. /\ job'.phase = phase /\ job'.status = status /\ job'.row = row
      /\ job'.pending = job.pending
  BY <1>1 DEF Jobs
<1>3. job' \in Jobs
  <2>1. status \in {job.status, job.pending} /\ (status # job.status => status \in FinalStatus)
    BY <1>1 DEF Judged
  <2>2. status \in {"validating", "in_progress", "cancelling", "failed", "expired",
                    "completed", "cancelled"}
    BY <1>1, <2>1 DEF Jobs, FinalStatus
  <2>3. phase \in {"runnable", "sealing", "sealed"}
    BY <1>1 DEF Jobs
  <2>4. job' = [surface |-> job.surface, status |-> status, phase |-> phase,
                pending |-> job.pending, row |-> row]
    BY <1>1, Zenon DEF Jobs
  <2>5. QED
    BY <1>1, <2>2, <2>3, <2>4 DEF Jobs
<1>4. TypeOK'
  BY <1>3, TypeForm, TypeNext DEF IInv
<1>5. Judged(job', item')
  BY <1>1, <1>2 DEF Judged
<1>6. NothingQueuedAfterVerdict'
  <2>1. CASE phase = job.phase
    BY <1>2, <2>1 DEF IInv, NothingQueuedAfterVerdict, Queued
  <2>2. CASE phase # job.phase
    BY <1>1, <1>2, <2>2 DEF Judged, NothingQueuedAfterVerdict, Queued, OpenStatus
  <2>3. QED
    BY <2>1, <2>2
<1>7. Keeps
  <2>1. status # job.status => /\ job.phase = "sealing" /\ phase = "sealed"
                               /\ status = Final(job.status)
    BY <1>1 DEF Judged, Jobs
  <2>2. Verdict(job.status) # "none" => status \in {job.status, Verdict(job.status)}
    BY <2>1 DEF Verdict, Final
  <2>3. /\ job.phase = "sealing" => phase # "runnable"
        /\ job.phase = "sealed" => phase = "sealed" /\ status = job.status
    OBVIOUS
  <2>4. QED
    BY <1>1, <1>2, <2>2, <2>3 DEF Keeps, Exists
<1>8. QED
  BY <1>4, <1>5, <1>6, <1>7 DEF IInv, Fenced, Owned

-----------------------------------------------------------------------------
\* A batch as create_batch or publish_validated leaves it satisfies the invariant.
LEMMA InitIInv == Init => IInv
<1> SUFFICES ASSUME Init PROVE IInv
  OBVIOUS
<1> DEFINE j(surface) == [surface |-> surface, phase |-> "runnable", pending |-> "none",
                          status |-> IF surface = "inline" THEN "validating" ELSE "in_progress",
                          row |-> "stored"]
<1>1. PICK surface \in Surfaces, failed \in SUBSET Items :
        /\ job = IF failed = Items THEN Finalized(j(surface), "completed") ELSE j(surface)
        /\ surface = "file" => failed = {}
        /\ event = (failed = Items)
        /\ item = [i \in Items |->
                     [status |-> IF i \in failed THEN "failed" ELSE "queued",
                      attempts |-> 0, seq |-> 0, owner |-> NoWorker, lease |-> "none"]]
        /\ counts = [c \in Counters |-> IF c = "failed" THEN Cardinality(failed) ELSE 0]
  BY DEF Init
<1>2. surface \in {"inline", "file"}
  BY BatchAssumption
<1>3. j(surface) \in Jobs
  BY <1>2 DEF Jobs
<1>4. job \in Jobs
  <2>1. Finalized(j(surface), "completed") \in Jobs
    <3> HIDE DEF j
    <3> QED BY <1>3, FinalizedType DEF FinalStatus
  <2>2. QED
    BY <1>1, <1>3, <2>1
<1>5. counts \in [Counters -> Nat]
  BY <1>1, SubsetCount
<1>6. item \in ItemRows
  BY <1>1, BatchAssumption DEF ItemRows, ItemRow, OpenStatus, FinalStatus
<1>7. attempt \in AttemptRows /\ task \in Tasks
  BY BatchAssumption DEF Init, AttemptRows, Tasks, NoTask
<1>8. window \in {"none", "open", "over"} /\ reading \in BOOLEAN /\ renewing \in SUBSET Items
  BY BatchAssumption, Zenon DEF Init
<1>9. event \in BOOLEAN
  BY <1>1
<1>10. TypeOK
  BY <1>4, <1>5, <1>6, <1>7, <1>8, <1>9, TypeForm, ZenonT(40)
<1>11. \A i \in Items : item[i].status = (IF i \in failed THEN "failed" ELSE "queued")
                       /\ item[i].attempts = 0 /\ item[i].seq = 0
  BY <1>1
<1>12. Fenced(item, attempt)
  <2>1. \A a \in Attempts : a[1] \in Items /\ a[2] > 0 /\ attempt[a] = "absent"
    BY BatchAssumption DEF Attempts, Init
  <2>2. QED
    BY <1>11, <2>1 DEF Fenced, OpenAttempt
<1>13. Judged(job, item) /\ NothingQueuedAfterVerdict
  <2>1. CASE failed = Items
    <3>1. surface = "inline"
      BY <1>1, <1>2, <2>1, BatchAssumption
    <3>2. /\ job.row = "stored" /\ job.phase = "sealed" /\ job.pending = "completed"
          /\ job.status = "completed"
      BY <1>1, <2>1, <3>1 DEF Finalized
    <3>3. \A i \in Items : item[i].status = "failed"
      BY <1>11, <2>1
    <3>4. QED
      BY <3>2, <3>3 DEF Judged, NothingQueuedAfterVerdict, Queued, OpenStatus, FinalStatus
  <2>2. CASE failed # Items
    <3>1. /\ job.row = "stored" /\ job.phase = "runnable" /\ job.pending = "none"
          /\ job.status \in {"validating", "in_progress"}
      BY <1>1, <2>2, ZenonT(40)
    <3>2. QED
      BY <1>11, <3>1 DEF Judged, NothingQueuedAfterVerdict, Verdict
  <2>3. QED
    BY <2>1, <2>2
<1>14. Owned
  BY DEF Init, Owned, NoTask
<1>15. QED
  BY <1>10, <1>12, <1>13, <1>14 DEF IInv

\* What a worker does with its attempt.
LEMMA WorkerIInv ==
    ASSUME IInv, NEW a \in Attempts, WorkerStep(a)
    PROVE  IInv' /\ Keeps
<1>1. /\ job \in Jobs /\ counts \in [Counters -> Nat] /\ item \in ItemRows
      /\ attempt \in AttemptRows /\ task \in Tasks /\ event \in BOOLEAN
      /\ window \in {"none", "open", "over"} /\ reading \in BOOLEAN
      /\ renewing \in SUBSET Items
  BY TypeForm DEF IInv
<1>2. a[1] \in Items /\ ReportCosts \subseteq Costs
  BY BatchAssumption DEF Attempts, Costs
<1>3. [task EXCEPT ![a] = NoTask] \in Tasks
  BY <1>1, BatchAssumption DEF Tasks, NoTask
<1>4. /\ [task EXCEPT ![a] = NoTask][a].stage = "none"
      /\ \A b \in Attempts : b # a => [task EXCEPT ![a] = NoTask][b] = task[b]
  BY <1>1 DEF Tasks, NoTask
<1>5. ASSUME task' = [task EXCEPT ![a] = NoTask],
             UNCHANGED <<job, counts, item, attempt, event, window, reading, renewing>>
      PROVE  IInv' /\ Keeps
  <2>1. TypeOK'
    BY <1>1, <1>3, <1>5, TypeNext
  <2>2. QED
    BY <1>4, <1>5, <2>1, FramePreserves
<1>6. CASE MarkDispatched(a)
  <2>1. /\ task' = [task EXCEPT ![a].stage = "calling"]
        /\ attempt' = [attempt EXCEPT ![a] = "dispatched"]
        /\ task[a].stage = "claimed" /\ attempt[a] \in OpenAttempt
        /\ UNCHANGED <<job, counts, item, event, window, reading, renewing>>
    BY <1>6 DEF MarkDispatched
  <2>2. task' \in Tasks
    BY <1>1, <2>1 DEF Tasks
  <2>3. attempt' \in AttemptRows
    BY <1>1, <2>1 DEF AttemptRows, OpenAttempt
  <2>4. TypeOK'
    BY <1>1, <2>1, <2>2, <2>3, TypeNext
  <2>5. \A b \in Attempts : task'[b].stage \in {"claimed", "calling"} =>
                               /\ task[b].stage \in {"claimed", "calling"}
                               /\ task'[b].worker = task[b].worker
    BY <1>1, <2>1 DEF Tasks
  <2>6. \A b \in Attempts : \/ attempt'[b] = attempt[b]
                            \/ attempt[b] \in OpenAttempt /\ attempt'[b] \in OpenAttempt
    BY <1>1, <2>1 DEF AttemptRows, OpenAttempt
  <2>7. QED
    BY <2>1, <2>4, <2>5, <2>6, FramePreserves
<1>7. ASSUME NEW ack \in BOOLEAN, NEW status \in {"completed", "failed"}, NEW cost \in ReportCosts,
             Complete(a, status, cost, ack)
      PROVE  IInv' /\ Keeps
  <2>1. CompleteItem(a, status, cost) /\ task' \in {task, [task EXCEPT ![a] = NoTask]}
    BY <1>7 DEF Complete
  <2>2. QED
    BY <1>2, <2>1, CompletePreserves
<1>8. ASSUME NEW ack \in BOOLEAN, GiveUp(a, ack)
      PROVE  IInv' /\ Keeps
  <2>1. CompleteItem(a, "failed", "not_billed") /\ task' \in {task, [task EXCEPT ![a] = NoTask]}
    BY <1>8 DEF GiveUp
  <2>2. QED
    BY <2>1, CompletePreserves DEF Costs
<1>9. ASSUME NEW cost \in ReportCosts, Retry(a, cost)
      PROVE  IInv' /\ Keeps
  <2>1. /\ Holds(a)
        /\ Requeued(job, Billed(counts, cost), Unclaimed(a[1], item[a[1]].attempts), Closed(a, cost))
        /\ task' = [task EXCEPT ![a] = NoTask]
        /\ UNCHANGED <<window, reading>>
    BY <1>9, Zenon DEF Retry, Writable
  <2>2. Billed(counts, cost) \in [Counters -> Nat]
    BY <1>1 DEF Billed, Counters
  <2>3. item[a[1]].attempts \in 0 .. MaxSeq /\ item[a[1]].attempts \in Int
    BY <1>1, <1>2, BatchAssumption DEF ItemRows, ItemRow
  <2>4. PICK cs \in [Counters -> Nat], n \in 0 .. MaxSeq :
          cs = Billed(counts, cost) /\ n = item[a[1]].attempts
    BY <2>2, <2>3
  <2>5. Requeued(job, cs, Unclaimed(a[1], n), Closed(a, cost))
    BY <2>1, <2>4, Zenon
  <2>6. n <= item[a[1]].attempts
    BY <2>3, <2>4
  <2>7. QED
    BY <1>2, <1>3, <1>4, <2>1, <2>5, <2>6, RequeuePreserves, Zenon
<1>10. ASSUME NEW dispatched \in BOOLEAN, ReleaseItem(a, dispatched),
              task' \in Tasks,
              \A b \in Attempts : task'[b].stage \in {"claimed", "calling"} =>
                                     /\ task[b].stage \in {"claimed", "calling"}
                                     /\ task'[b].worker = task[b].worker
       PROVE  IInv' /\ Keeps
  <2> DEFINE m   == IF item[a[1]].attempts > 0 THEN item[a[1]].attempts - 1 ELSE 0
             c   == IF dispatched THEN Plus(counts, "unknown", 1) ELSE counts
             out == IF dispatched THEN "unknown" ELSE "not_billed"
  <2>1. /\ Holds(a)
        /\ Requeued(job, c, Unclaimed(a[1], m), Closed(a, out))
        /\ UNCHANGED <<window, reading>>
    BY <1>10 DEF ReleaseItem, Writable
  <2>2. m \in 0 .. MaxSeq /\ m <= item[a[1]].attempts
    BY <1>1, <1>2, BatchAssumption DEF ItemRows, ItemRow
  <2>3. c \in [Counters -> Nat]
    BY <1>1 DEF Plus, Counters
  <2>4. PICK cs \in [Counters -> Nat], n \in 0 .. MaxSeq, cost \in Costs :
          cs = c /\ n = m /\ cost = out
    BY <2>2, <2>3, ZenonT(40) DEF Costs
  <2>5. Requeued(job, cs, Unclaimed(a[1], n), Closed(a, cost)) /\ n <= item[a[1]].attempts
    BY <2>1, <2>2, <2>4
  <2> HIDE DEF m, c, out
  <2>6. QED
    BY <1>10, <2>1, <2>5, RequeuePreserves, ZenonT(40)
<1>11. CASE Reject(a)
  <2>1. task' = [task EXCEPT ![a].stage = "rejecting"]
    BY <1>11 DEF Reject
  <2>2. task' \in Tasks
    BY <1>1, <2>1 DEF Tasks
  <2>3. \A b \in Attempts : task'[b].stage \in {"claimed", "calling"} =>
                               /\ task[b].stage \in {"claimed", "calling"}
                               /\ task'[b].worker = task[b].worker
    BY <1>1, <2>1 DEF Tasks
  <2>4. CASE ReleaseItem(a, FALSE)
    BY <1>10, <2>2, <2>3, <2>4, Zenon
  <2>5. CASE UNCHANGED <<job, counts, item, attempt, event, window, reading, renewing>>
    <3>1. TypeOK'
      BY <1>1, <2>2, <2>5, TypeNext
    <3>2. QED
      BY <2>3, <2>5, <3>1, FramePreserves
  <2>6. QED
    BY <1>11, <2>4, <2>5, Zenon DEF Reject
<1>12. CASE FailBatch(a)
  <2>1. task' = [task EXCEPT ![a] = NoTask] /\ UNCHANGED <<window, reading>>
    BY <1>12 DEF FailBatch
  <2>2. CASE ~ (Exists /\ Claiming)
    BY <1>5, <1>12, <2>1, <2>2 DEF FailBatch
  <2>3. CASE Exists /\ Claiming
    <3>1. Settle([job EXCEPT !.status = "failed"], counts, item, attempt)
      BY <1>12, <2>3 DEF FailBatch
    <3>2. \A b \in Attempts : task'[b].stage \in {"claimed", "calling"} => task'[b] = task[b]
      BY <1>4, <2>1
    <3>3. QED
      BY <1>3, <2>1, <2>3, <3>1, <3>2, ClosePreserves DEF Claiming
  <2>4. QED
    BY <2>2, <2>3
<1>13. CASE Refused(a)
  BY <1>5, <1>13 DEF Refused
<1>14. CASE Dies(a)
  BY <1>5, <1>14 DEF Dies
<1>15. ASSUME NEW dispatched \in BOOLEAN, Release(a, dispatched)
       PROVE  IInv' /\ Keeps
  <2>1. ReleaseItem(a, dispatched) /\ task' = [task EXCEPT ![a] = NoTask]
    BY <1>15 DEF Release
  <2>2. QED
    BY <1>3, <1>4, <1>10, <2>1, Zenon
<1>16. QED
  BY <1>6, <1>7, <1>8, <1>9, <1>11, <1>12, <1>13, <1>14, <1>15, ZenonT(40) DEF WorkerStep

\* Every step preserves the invariant and undoes nothing.
LEMMA NextIInv == IInv /\ [Next]_vars => IInv' /\ (Keeps \/ UNCHANGED vars)
<1> SUFFICES ASSUME IInv, [Next]_vars PROVE IInv' /\ (Keeps \/ UNCHANGED vars)
  OBVIOUS
<1>1. /\ job \in Jobs /\ counts \in [Counters -> Nat] /\ item \in ItemRows
      /\ attempt \in AttemptRows /\ task \in Tasks /\ event \in BOOLEAN
      /\ window \in {"none", "open", "over"} /\ reading \in BOOLEAN
      /\ renewing \in SUBSET Items
  BY TypeForm DEF IInv
<1>2. CASE UNCHANGED vars
  <2>1. /\ job' = job /\ counts' = counts /\ item' = item /\ attempt' = attempt
        /\ event' = event /\ window' = window /\ reading' = reading
        /\ renewing' = renewing /\ task' = task
    BY <1>2 DEF vars
  <2>2. TypeOK'
    BY <1>1, <2>1, TypeNext, ZenonT(40)
  <2>3. Fenced(item, attempt)' /\ Judged(job, item)'
    BY <2>1, ZenonT(40) DEF IInv, Fenced, Judged
  <2>4. NothingQueuedAfterVerdict'
    BY <2>1 DEF IInv, NothingQueuedAfterVerdict, Queued
  <2>5. Owned'
    BY <2>1 DEF IInv, Owned
  <2>6. QED
    BY <1>2, <2>2, <2>3, <2>4, <2>5 DEF IInv
<1>3. ASSUME NEW w \in Workers, NEW S \in SUBSET Items, Claim(w, S)
      PROVE  IInv' /\ Keeps
  BY <1>3, ClaimPreserves
<1>4. ASSUME TypeOK', UNCHANGED <<job, attempt, task>>,
             \A i \in Items : /\ item'[i].status = item[i].status
                              /\ item'[i].attempts = item[i].attempts
                              /\ item'[i].seq = item[i].seq
                              /\ item'[i].owner = item[i].owner
      PROVE  IInv' /\ Keeps
  BY <1>4, FramePreserves
<1>5. ASSUME NEW w \in Workers, Renew(w)
      PROVE  IInv' /\ Keeps
  <2>1. TypeOK'
    BY <1>1, <1>5, TypeNext DEF Renew, Renewable, InFlight
  <2>2. QED
    BY <1>4, <1>5, <2>1, ZenonT(40) DEF Renew
<1>6. ASSUME item' \in ItemRows, renewing' \in SUBSET Items,
             \A i \in Items : \E l : item'[i] = [item[i] EXCEPT !.lease = l],
             UNCHANGED <<job, counts, attempt, event, window, reading, task>>
      PROVE  IInv' /\ Keeps
  <2>1. TypeOK'
    BY <1>1, <1>6, TypeNext
  <2>2. ASSUME NEW i \in Items
        PROVE  /\ item'[i].status = item[i].status
               /\ item'[i].attempts = item[i].attempts
               /\ item'[i].seq = item[i].seq
               /\ item'[i].owner = item[i].owner
    <3>1. PICK l : item'[i] = [item[i] EXCEPT !.lease = l]
      BY <1>6, Zenon
    <3>2. item[i] \in ItemRow
      BY <1>1 DEF ItemRows
    <3>3. QED
      BY <3>1, <3>2 DEF ItemRow
  <2>3. QED
    BY <1>4, <1>6, <2>1, <2>2
<1>7. ASSUME NEW i \in Items, LeaseLapses(i)
      PROVE  IInv' /\ Keeps
  <2>1. item' = [item EXCEPT ![i] = [item[i] EXCEPT !.lease = "lapsed"]]
    BY <1>1, <1>7 DEF LeaseLapses, ItemRows
  <2>2. [item[i] EXCEPT !.lease = "lapsed"] \in ItemRow
    BY <1>1 DEF ItemRows, ItemRow
  <2>3. item' \in ItemRows
    BY <1>1, <2>1, <2>2 DEF ItemRows
  <2>4. \A k \in Items : \E l : item'[k] = [item[k] EXCEPT !.lease = l]
    <3> TAKE k \in Items
    <3>1. item[k] = [item[k] EXCEPT !.lease = item[k].lease]
      BY <1>1 DEF ItemRows, ItemRow
    <3>2. item'[k] = IF k = i THEN [item[k] EXCEPT !.lease = "lapsed"] ELSE item[k]
      BY <1>1, <2>1 DEF ItemRows
    <3>3. QED
      BY <3>1, <3>2, Zenon
  <2>5. QED
    BY <1>1, <1>6, <1>7, <2>3, <2>4, Zenon DEF LeaseLapses
<1>8. CASE RenewCommits
  <2>1. /\ item' = [i \in Items |-> IF i \in renewing THEN [item[i] EXCEPT !.lease = "live"]
                                    ELSE item[i]]
        /\ renewing' = {}
        /\ UNCHANGED <<job, counts, attempt, event, window, reading, task>>
    BY <1>8 DEF RenewCommits
  <2>2. \A i \in Items : item[i] \in ItemRow /\ [item[i] EXCEPT !.lease = "live"] \in ItemRow
    BY <1>1 DEF ItemRows, ItemRow
  <2>3. item' \in ItemRows
    BY <2>1, <2>2 DEF ItemRows
  <2>4. \A k \in Items : \E l : item'[k] = [item[k] EXCEPT !.lease = l]
    <3> SUFFICES ASSUME NEW k \in Items
                 PROVE  \E l : item'[k] = [item[k] EXCEPT !.lease = l]
      BY Zenon
    <3>1. item[k] = [item[k] EXCEPT !.lease = item[k].lease]
      BY <1>1 DEF ItemRows, ItemRow
    <3>2. item'[k] = IF k \in renewing THEN [item[k] EXCEPT !.lease = "live"] ELSE item[k]
      BY <2>1
    <3>3. QED
      BY <3>1, <3>2, Zenon
  <2>5. QED
    BY <1>6, <2>1, <2>3, <2>4, Zenon
<1>9. CASE RenewFails
  <2>1. TypeOK'
    BY <1>1, <1>9, TypeNext DEF RenewFails
  <2>2. QED
    BY <1>4, <1>9, <2>1 DEF RenewFails
<1>10. ASSUME NEW a \in Attempts, WorkerStep(a)
       PROVE  IInv' /\ Keeps
  BY <1>10, WorkerIInv
<1>11. CASE WindowEnds \/ StartReading \/ StopReading
  <2>1. /\ window' \in {"none", "open", "over"} /\ reading' \in BOOLEAN
        /\ UNCHANGED <<job, counts, item, attempt, event, renewing, task>>
    <3>1. CASE WindowEnds
      BY <1>1, <3>1 DEF WindowEnds
    <3>2. CASE StartReading
      BY <1>1, <3>2 DEF StartReading
    <3>3. CASE StopReading
      BY <1>1, <3>3, Zenon DEF StopReading
    <3>4. QED
      BY <1>11, <3>1, <3>2, <3>3
  <2>2. TypeOK'
    BY <1>1, <2>1, TypeNext
  <2>3. QED
    BY <1>4, <2>1, <2>2
<1>12. ASSUME NEW s \in {"cancelling", "failed", "expired"}, Exists, Claiming,
              Settle([job EXCEPT !.status = s], counts, item, attempt),
              UNCHANGED <<window, reading, task>>
       PROVE  IInv' /\ Keeps
  BY <1>1, <1>12, ClosePreserves DEF Claiming
<1>13. CASE Cancel
  BY <1>12, <1>13 DEF Cancel, Exists
<1>14. CASE SweepExpire
  BY <1>12, <1>14 DEF SweepExpire
<1>15. CASE SweepSettle
  <2>1. /\ Exists /\ job.phase = "runnable"
        /\ Settle(job, counts, item, attempt) /\ UNCHANGED <<window, reading, task>>
    BY <1>15 DEF SweepSettle, SettleCandidate
  <2>2. PICK s \in {"cancelling", "failed", "expired", job.status} : s = job.status
    OBVIOUS
  <2>3. job = [job EXCEPT !.status = s]
    BY <1>1, <2>2 DEF Jobs
  <2>4. Settle([job EXCEPT !.status = s], counts, item, attempt)
    BY <2>1, <2>3
  <2>5. QED
    BY <1>1, <2>1, <2>2, <2>4, ClosePreserves
<1>16. CASE CommitSeal
  <2>1. /\ job.row = "stored" /\ job.phase = "sealing" /\ event' = TRUE
        /\ job' = [job EXCEPT !.phase = "sealed", !.status = job.pending]
        /\ UNCHANGED <<counts, item, attempt, window, reading, renewing, task>>
    BY <1>16 DEF CommitSeal
  <2>2. job' = [job EXCEPT !.phase = "sealed", !.status = job.pending, !.row = "stored"]
    BY <1>1, <2>1, Zenon DEF Jobs
  <2>3. PICK status : status = job.pending
    OBVIOUS
  <2>4. job' = [job EXCEPT !.phase = "sealed", !.status = status, !.row = "stored"]
    BY <2>2, <2>3
  <2>5. QED
    BY <2>1, <2>3, <2>4, RowPreserves, Zenon DEF Exists
<1>17. CASE Delete
  <2>1. CASE Erase
    <3>1. event' \in BOOLEAN
      BY <1>17, Zenon DEF Delete
    <3>2. QED
      BY <2>1, <3>1, ErasePreserves
  <2>2. CASE ~ Erase
    <3>1. /\ job.row = "stored" /\ job' = [job EXCEPT !.row = "hidden"] /\ event' = FALSE
          /\ UNCHANGED <<counts, item, attempt, window, reading, renewing, task>>
      BY <1>17, <2>2 DEF Delete
    <3>2. PICK phase \in {job.phase, "sealed"}, status \in {job.status} : phase = job.phase /\ status = job.status
      OBVIOUS
    <3>3. job' = [job EXCEPT !.phase = phase, !.status = status, !.row = "hidden"]
      BY <1>1, <3>1, <3>2, Zenon DEF Jobs
    <3>4. QED
      BY <3>1, <3>2, <3>3, RowPreserves, Zenon DEF Exists
  <2>3. QED
    BY <2>1, <2>2
<1>18. CASE Purge \/ DeleteUser
  <2>1. Erase /\ event' \in BOOLEAN
    BY <1>1, <1>18, Zenon DEF Purge, DeleteUser
  <2>2. QED
    BY <2>1, ErasePreserves
<1>19. QED
  BY <1>2, <1>3, <1>5, <1>7, <1>8, <1>9, <1>10, <1>11, <1>13, <1>14, <1>15, <1>16, <1>17, <1>18, ZenonT(40)
     DEF Next

\* The invariant holds in every reachable state.
LEMMA Invariance == Spec => []IInv
<1>1. IInv /\ [Next]_vars => IInv'
  BY NextIInv
<1>2. QED
  BY InitIInv, <1>1, PTL DEF Spec

-----------------------------------------------------------------------------
\* The rows and the workers' tasks keep their types: in particular release_item
\* never takes back more attempts than were claimed.
THEOREM BatchTypeCorrect == Spec => []TypeOK
<1>1. IInv => TypeOK
  BY DEF IInv
<1>2. QED
  BY Invariance, <1>1, PTL

\* attempt_seq fences attempts: whatever workers die, stall or report late, one
\* attempt of an item is open, under the claim that holds the item.
THEOREM BatchAttemptsFenced == Spec => []OneOpenAttempt
<1>1. IInv => OneOpenAttempt
  BY DEF IInv, OneOpenAttempt, Fenced, Owned
<1>2. QED
  BY Invariance, <1>1, PTL

\* A batch that was cancelled, failed or expired leaves nothing queued (_settle
\* in every transaction that could requeue an item).
THEOREM BatchNothingQueued == Spec => []NothingQueuedAfterVerdict
<1>1. IInv => NothingQueuedAfterVerdict
  BY DEF IInv
<1>2. QED
  BY Invariance, <1>1, PTL

\* No transaction undoes a verdict or reopens a batch that is being sealed.
THEOREM BatchVerdictStands == Spec => VerdictStands
<1>1. IInv /\ [Next]_vars =>
        [/\ Verdict(job.status) # "none" => job'.status \in {job.status, Verdict(job.status)}
         /\ job.phase = "sealing" => job'.phase # "runnable"
         /\ job.phase = "sealed" => job'.phase = "sealed" /\ job'.status = job.status]_vars
  BY NextIInv DEF Keeps
<1>2. QED
  BY Invariance, <1>1, PTL DEF Spec, VerdictStands

-----------------------------------------------------------------------------
Seen == [i \in Items |-> IF item[i].status \in OpenStatus THEN "open" ELSE item[i].status]

\* A step that undoes nothing is a step of the promise.
LEMMA PromiseStep ==
    ASSUME IInv, IInv', Keeps \/ UNCHANGED vars
    PROVE  [Promise!Next]_<<Seen, job.pending>>
<1>1. Judged(job, item) /\ Judged(job', item') /\ item \in ItemRows /\ item' \in ItemRows
  BY DEF IInv, TypeOK, ItemRows, ItemRow
<1>2. CASE UNCHANGED vars
  BY <1>2 DEF vars, Seen
<1>3. CASE Keeps /\ ~ Exists'
  <2>1. \A i \in Items : item'[i].status = "deleted"
    BY <1>1, <1>3 DEF Judged, Exists
  <2>2. Promise!Forget
    BY <1>3, <2>1 DEF Promise!Forget, Keeps, OpenStatus
  <2>3. QED
    BY <2>2, ZenonT(40) DEF Promise!Next
<1>4. CASE Keeps /\ Exists' /\ job.pending # "none"
  <2>1. job'.pending = job.pending /\ job.row # "gone" /\ job.phase # "runnable"
    BY <1>1, <1>4, ZenonT(40) DEF Keeps, Exists, Judged
  <2>2. \A i \in Items : item'[i].status = item[i].status
    BY <1>1, <1>4, <2>1 DEF Keeps, Judged
  <2>3. QED
    BY <2>1, <2>2, ZenonT(40) DEF Seen
<1>5. CASE Keeps /\ Exists' /\ job.pending = "none"
  <2>1. \A i \in Items : /\ item[i].status # "deleted"
                         /\ item'[i].status \in OpenStatus \cup FinalStatus
                         /\ item[i].status \notin OpenStatus => item'[i].status = item[i].status
    BY <1>1, <1>5 DEF Keeps, Exists, Judged, ItemRows, ItemRow
  <2>2. \A i \in Items : Seen[i] # "deleted"
    BY <2>1 DEF Seen
  <2>3. Seen' \in [Items -> {"open"} \cup FinalStatus]
    BY <2>1 DEF Seen
  <2>4. \A i \in Items : Seen[i] # "open" => Seen'[i] = Seen[i]
    BY <2>1, ZenonT(40) DEF Seen, OpenStatus, FinalStatus
  <2>5. job'.pending = "none" \/ job'.phase # "runnable"
    BY <1>1, <1>5, ZenonT(40) DEF Judged, Exists
  <2>6. ASSUME job'.phase # "runnable"
        PROVE  /\ job'.pending \in FinalStatus
               /\ \A i \in Items : /\ Seen'[i] # "open"
                                   /\ Seen'[i] \in {"cancelled", "expired"} =>
                                        job'.pending = Seen'[i]
    BY <1>1, <1>5, <2>1, <2>6, ZenonT(40) DEF Judged, Exists, Seen, OpenStatus, FinalStatus
  <2>7. Promise!Decide
    BY <1>5, <2>2, <2>3, <2>4, <2>5, <2>6
       DEF Promise!Decide, Promise!Finished, Promise!Agrees, Promise!Ends, FinalStatus, Seen
  <2>8. QED
    BY <2>7, ZenonT(40) DEF Promise!Next
<1>6. QED
  BY <1>2, <1>3, <1>4, <1>5, ZenonT(40)

\* The batch, under any interleaving of workers, sweeps, cancels and deletes,
\* does what BatchPromise says of a batch: one result per request, one outcome,
\* over finished requests only, and nothing afterwards but deletion.
THEOREM BatchKeepsPromise == Spec => KeepsPromise
<1>1. Init => Promise!Init
  <2> SUFFICES ASSUME Init PROVE Promise!Init
    OBVIOUS
  <2>1. IInv
    BY InitIInv
  <2>2. PICK surface \in Surfaces, failed \in SUBSET Items :
          /\ surface = "file" => failed = {}
          /\ item = [i \in Items |->
                       [status |-> IF i \in failed THEN "failed" ELSE "queued",
                        attempts |-> 0, seq |-> 0, owner |-> NoWorker, lease |-> "none"]]
          /\ failed # Items => job.phase = "runnable" /\ job.row = "stored"
          /\ failed = Items => job.pending = "completed"
    BY DEF Init, Finalized
  <2>3. \A i \in Items : Seen[i] = IF i \in failed THEN "failed" ELSE "open"
    BY <2>2 DEF Seen, OpenStatus
  <2>4. Seen \in [Items -> {"open", "failed"}]
    BY <2>3 DEF Seen
  <2>5. (\A i \in Items : Seen[i] # "open") <=> failed = Items
    BY <2>3
  <2>6. job.pending = IF \A i \in Items : Seen[i] # "open" THEN "completed" ELSE "none"
    BY <2>1, <2>2, <2>5 DEF IInv, Judged
  <2>7. QED
    BY <2>4, <2>6 DEF Promise!Init, Promise!Finished, Seen
<1>2. IInv /\ IInv' /\ [Next]_vars => [Promise!Next]_<<Seen, job.pending>>
  BY NextIInv, PromiseStep
<1>3. IInv /\ IInv' /\ [Next]_vars =>
        [Promise!Next]_<<[i \in Items |-> IF item[i].status \in OpenStatus THEN "open"
                                          ELSE item[i].status],
                         job.pending>>
  BY <1>2 DEF Seen
<1>4. QED
  BY Invariance, <1>1, <1>3, PTL DEF Spec, KeepsPromise, Promise!Spec
=============================================================================
