--------------------------- MODULE FileBatchProofs ---------------------------
(***************************************************************************)
(* What holds of a file batch for any number of scheduler processes and    *)
(* senders and any length of its file: it runs the whole file or nothing   *)
(* of it (WholeFileRuns), its result files are whole and of the newest     *)
(* generation (ManifestIsWhole), the outcome of its webhook event stands   *)
(* (OutcomeStands), and batch and outbox together implement EventPromise.  *)
(*                                                                         *)
(* The invariant behind the first is about the one validator that owns the *)
(* row: what it has staged so far is exactly the lines before its next     *)
(* one.  Behind the second it is about the sealer that owns the row: what  *)
(* it has rendered is stored, and, once it holds the row's lock, is all    *)
(* that is stored.  Behind the third, a batch gets its event when it is    *)
(* sealed and is not sealed again.  Behind the last, every post, made or   *)
(* still to come of a sender that leased the event, has its own attempt.   *)
(***************************************************************************)
EXTENDS FileBatch, Sums, TLAPS

\* A leaf that names no prover is tried with SMT, then with Zenon.
USE SMTT(30), ZenonT(30)

Finals == {"none", "completed", "cancelled", "expired", "failed"}
Leases == {"none", "live", "lapsed"}

Row ==
    [phase : Phases, status : Statuses \cup Finals, final : Finals, count : Nat,
     owner : Processes \cup {Nobody}, lease : Leases, gen : Nat,
     deleted : BOOLEAN, read : BOOLEAN]

Validator ==
    [at : {"idle", "claimed", "reset", "reading", "aborting", "failing"}, next : Nat]

Sealer ==
    [at : {"idle", "reading", "writing"}, gen : Nat, final : Finals, seen : SUBSET FileLines]

WorkTypes ==
    /\ row \in Row
    /\ stored \subseteq FileLines /\ open \subseteq stored
    /\ badLine \in 0..Lines
    /\ val \in [Processes -> Validator]
    /\ seal \in [Processes -> Sealer]

\* A validator begins at the first line; the one that owns the batch has
\* staged the lines before its next one, and found all of them good.
ValidatorsCurrent ==
    \A p \in Processes :
        /\ val[p].at \in {"idle", "claimed", "reset"} => val[p].next = 1
        /\ Owned(p, "validating") /\ val[p].at = "reset" => stored = {} /\ row.count = 0
        /\ Owned(p, "validating") /\ val[p].at = "reading" =>
              /\ val[p].next \in 1 .. (Lines + 1)
              /\ stored = 1 .. (val[p].next - 1)
              /\ row.count = val[p].next - 1
              /\ badLine \notin stored

\* The sealer that owns the batch has rendered what is stored; one that holds
\* the row's lock owns the batch and has rendered all of it.
SealersCurrent ==
    \A p \in Processes :
        /\ Owned(p, "sealing") => seal[p].seen \subseteq stored
        /\ seal[p].at = "writing" => /\ Owned(p, "sealing") /\ row.gen = seal[p].gen
                                     /\ seal[p].seen = stored

\* Items are open only while the batch runs.
OpenWhileRunning == row.phase # "runnable" => open = {}

WorkIInv ==
    /\ WorkTypes /\ ValidatorsCurrent /\ SealersCurrent /\ OpenWhileRunning
    /\ WholeFileRuns /\ ManifestIsWhole

-----------------------------------------------------------------------------
(* Rows and pages *)

\* A reader that gets no page has read all that is stored.
LEMMA NoPageLeft ==
    ASSUME WorkTypes, NEW seen, Page(seen) = {}
    PROVE  stored \subseteq seen
<1> SUFFICES ASSUME stored \ seen # {} PROVE FALSE
  OBVIOUS
<1>1. FileLines \subseteq Nat
  BY WorkAssumption DEF FileLines
<1>2. stored \ seen \in SUBSET Nat
  BY <1>1, Zenon DEF WorkTypes
<1>3. PICK l \in stored \ seen : \A k \in stored \ seen : l <= k
  BY <1>2, LeastNumber, Zenon
<1> QED
  BY <1>3 DEF Page

\* A batch that is finalized waits for a sealer and is nobody's.
LEMMA FinalizedRow ==
    ASSUME NEW r \in Row, NEW f \in Finals
    PROVE  /\ Finalized(r, f) \in Row
           /\ Finalized(r, f).phase = "sealing" /\ Finalized(r, f).owner = Nobody
<1> DEFINE r1 == [r EXCEPT !.phase = "sealing"]
           r2 == [r1 EXCEPT !.final = f]
           r3 == [r2 EXCEPT !.owner = Nobody]
           r4 == [r3 EXCEPT !.lease = "none"]
<1>1. Finalized(r, f) = r4
  BY DEF Finalized
<1>2. r1 \in Row /\ r1.phase = "sealing"
  BY DEF Row, Phases
<1> HIDE DEF r1
<1>3. r2 \in Row /\ r2.phase = "sealing"
  BY <1>2 DEF Row
<1> HIDE DEF r2
<1>4. r3 \in Row /\ r3.phase = "sealing" /\ r3.owner = Nobody
  BY <1>3 DEF Row
<1> HIDE DEF r3
<1>5. r4 \in Row /\ r4.phase = "sealing" /\ r4.owner = Nobody
  BY <1>4 DEF Row, Leases
<1> QED
  BY <1>1, <1>5

\* A step that changes nothing of the row the invariant speaks of.
LEMMA RowTouched ==
    ASSUME WorkIInv, row' \in Row,
           row'.phase = row.phase, row'.owner = row.owner, row'.count = row.count,
           row'.gen = row.gen,
           open' \subseteq open,
           UNCHANGED <<stored, badLine, val, seal, manifest>>
    PROVE  WorkIInv'
<1>1. WorkTypes'
  BY DEF WorkIInv, WorkTypes
<1>2. ValidatorsCurrent'
  BY DEF WorkIInv, ValidatorsCurrent, Owned
<1>3. SealersCurrent'
  BY DEF WorkIInv, SealersCurrent, Owned
<1>4. OpenWhileRunning' /\ WholeFileRuns'
  BY DEF WorkIInv, OpenWhileRunning, WholeFileRuns
<1>5. ManifestIsWhole'
  BY DEF WorkIInv, ManifestIsWhole, OpenWhileRunning
<1> QED
  BY <1>1, <1>2, <1>3, <1>4, <1>5 DEF WorkIInv

\* A step after which the row is nobody's: it waits for a sealer, or is gone.
LEMMA RowLeft ==
    ASSUME WorkIInv, RowFree, row' \in Row,
           row'.phase \in {"sealing", "none"}, row'.owner = Nobody,
           stored' \subseteq FileLines, open' = {}, manifest' = NoManifest,
           \A p \in Processes :
              /\ seal'[p].at # "writing"
              /\ val'[p].at \in {"idle", "claimed", "reset"} => val'[p].next = 1,
           seal' \in [Processes -> Sealer], val' \in [Processes -> Validator],
           UNCHANGED badLine
    PROVE  WorkIInv'
<1>1. WorkTypes'
  BY DEF WorkIInv, WorkTypes
<1>2. ValidatorsCurrent'
  BY WorkAssumption DEF WorkIInv, ValidatorsCurrent, Owned
<1>3. SealersCurrent'
  BY WorkAssumption DEF WorkIInv, SealersCurrent, Owned
<1>4. OpenWhileRunning' /\ WholeFileRuns' /\ ManifestIsWhole'
  BY DEF OpenWhileRunning, WholeFileRuns, ManifestIsWhole
<1> QED
  BY <1>1, <1>2, <1>3, <1>4 DEF WorkIInv

-----------------------------------------------------------------------------
(* Validation *)

\* A process that validates or seals nothing has read nothing.
LEMMA IdleTasks ==
    /\ IdleVal \in Validator /\ IdleVal.at = "idle" /\ IdleVal.next = 1
    /\ IdleSeal \in Sealer /\ IdleSeal.at = "idle" /\ IdleSeal.seen = {}
<1>1. IdleVal \in Validator /\ IdleVal.at = "idle" /\ IdleVal.next = 1
  BY DEF IdleVal, Validator
<1>2. IdleSeal \in Sealer /\ IdleSeal.at = "idle" /\ IdleSeal.seen = {}
  BY DEF IdleSeal, Sealer, Finals
<1> QED
  BY <1>1, <1>2

\* What ValidatorsCurrent says of a validator x of process p.
Current(p, x) ==
    /\ x.at \in {"idle", "claimed", "reset"} => x.next = 1
    /\ Owned(p, "validating") /\ x.at = "reset" => stored = {} /\ row.count = 0
    /\ Owned(p, "validating") /\ x.at = "reading" =>
          /\ x.next \in 1 .. (Lines + 1)
          /\ stored = 1 .. (x.next - 1)
          /\ row.count = x.next - 1
          /\ badLine \notin stored

\* A step of one validator that leaves the batch alone.
LEMMA ValMoves ==
    ASSUME WorkIInv, NEW p \in Processes, NEW x \in Validator, val' = [val EXCEPT ![p] = x],
           Current(p, x),
           UNCHANGED <<row, stored, open, badLine, seal, manifest>>
    PROVE  WorkIInv'
<1>1. WorkTypes'
  BY DEF WorkIInv, WorkTypes
<1>2. ValidatorsCurrent'
  BY DEF WorkIInv, WorkTypes, ValidatorsCurrent, Owned, Current
<1> QED
  BY <1>1, <1>2
     DEF WorkIInv, SealersCurrent, Owned, OpenWhileRunning, WholeFileRuns, ManifestIsWhole

\* ... or goes to a place where nothing is promised of it.
LEMMA ValGoesKeeps ==
    ASSUME WorkIInv, NEW p \in Processes, NEW at \in {"aborting", "failing"},
           ValGoes(p, at) \/ ValEnds(p),
           UNCHANGED <<row, stored, open, badLine, seal, manifest>>
    PROVE  WorkIInv'
<1>1. val[p] \in Validator
  BY DEF WorkIInv, WorkTypes
<1>2. CASE ValGoes(p, at)
  <2> DEFINE x == [val[p] EXCEPT !.at = at]
  <2>1. x \in Validator /\ x.at = at
    BY <1>1 DEF Validator
  <2>2. val' = [val EXCEPT ![p] = x]
    BY <1>2 DEF ValGoes, WorkIInv, WorkTypes
  <2> HIDE DEF x
  <2> QED
    BY <2>1, <2>2, ValMoves, Zenon DEF Current
<1>3. CASE ValEnds(p)
  BY <1>3, IdleTasks, ValMoves, Zenon DEF ValEnds, Current
<1> QED
  BY <1>2, <1>3

\* claim_validating gives the row a new owner; nobody staged as that owner.
LEMMA ClaimValidatingKeeps ==
    ASSUME WorkIInv, NEW p \in Processes, ClaimValidating(p)
    PROVE  WorkIInv'
<1> DEFINE x == [IdleVal EXCEPT !.at = "claimed"]
           r == [row EXCEPT !.owner = p, !.lease = "live"]
<1>1. x \in Validator /\ x.at = "claimed" /\ x.next = 1
  BY DEF IdleVal, Validator
<1>2. r \in Row /\ r.phase = row.phase /\ r.owner = p
  BY Zenon DEF WorkIInv, WorkTypes, Row, Leases
<1>3. /\ row' = r /\ val' = [val EXCEPT ![p] = x]
      /\ RowFree /\ row.phase = "validating"
      /\ UNCHANGED <<stored, open, badLine, seal, manifest>>
  BY DEF ClaimValidating, Claimable
<1> HIDE DEF x, r
<1>4. WorkTypes'
  BY <1>1, <1>2, <1>3 DEF WorkIInv, WorkTypes
<1>5. ValidatorsCurrent'
  BY <1>1, <1>2, <1>3 DEF WorkIInv, WorkTypes, ValidatorsCurrent, Owned
<1>6. SealersCurrent'
  BY <1>2, <1>3 DEF WorkIInv, SealersCurrent, Owned, RowFree
<1> QED
  BY <1>2, <1>3, <1>4, <1>5, <1>6
     DEF WorkIInv, OpenWhileRunning, WholeFileRuns, ManifestIsWhole

\* reset_staged_items: the owner starts again from nothing.
LEMMA ResetKeeps ==
    ASSUME WorkIInv, NEW p \in Processes, ResetStagedItems(p)
    PROVE  WorkIInv'
<1>1. UNCHANGED <<open, badLine, seal, manifest>> /\ RowFree /\ val[p].at = "claimed"
      /\ val[p] \in Validator /\ val[p].next = 1
  BY DEF ResetStagedItems, WorkIInv, WorkTypes, ValidatorsCurrent
<1>2. CASE ~Owned(p, "validating")
  BY <1>1, <1>2, ValGoesKeeps DEF ResetStagedItems
<1>3. CASE Owned(p, "validating")
  <2> DEFINE x == [val[p] EXCEPT !.at = "reset"]
             r == [row EXCEPT !.count = 0]
  <2>1. x \in Validator /\ x.at = "reset" /\ x.next = 1
    BY <1>1 DEF Validator
  <2>2. r \in Row /\ r.phase = row.phase /\ r.owner = row.owner /\ r.count = 0
    BY DEF WorkIInv, WorkTypes, Row
  <2>3. row' = r /\ stored' = {} /\ val' = [val EXCEPT ![p] = x]
    BY <1>3 DEF ResetStagedItems, ValGoes, WorkIInv, WorkTypes
  <2> HIDE DEF x, r
  <2>4. open = {} /\ manifest = NoManifest /\ row.phase = "validating" /\ row.owner = p
    BY <1>3 DEF WorkIInv, OpenWhileRunning, ManifestIsWhole, Owned
  <2>5. WorkTypes'
    BY <1>1, <2>1, <2>2, <2>3, <2>4 DEF WorkIInv, WorkTypes
  <2>6. ValidatorsCurrent'
    BY <1>1, <2>1, <2>2, <2>3, <2>4 DEF WorkIInv, WorkTypes, ValidatorsCurrent, Owned
  <2>7. SealersCurrent'
    BY <1>1, <2>2, <2>3, <2>4 DEF WorkIInv, SealersCurrent, Owned, RowFree
  <2> QED
    BY <1>1, <2>2, <2>3, <2>4, <2>5, <2>6, <2>7
       DEF WorkIInv, OpenWhileRunning, WholeFileRuns, ManifestIsWhole
<1> QED
  BY <1>2, <1>3

\* The validator goes on only if it still owns the row, with nothing staged.
LEMMA CheckOwnerKeeps ==
    ASSUME WorkIInv, NEW p \in Processes, CheckOwner(p)
    PROVE  WorkIInv'
<1>1. /\ UNCHANGED <<row, stored, open, badLine, seal, manifest>> /\ val[p].at = "reset"
      /\ val[p] \in Validator /\ val[p].next = 1
      /\ Owned(p, "validating") => stored = {} /\ row.count = 0
  BY DEF CheckOwner, WorkIInv, WorkTypes, ValidatorsCurrent
<1>2. CASE ValGoes(p, "failing") \/ ValEnds(p)
  BY <1>1, <1>2, ValGoesKeeps
<1>3. CASE ValGoes(p, "reading")
  <2> DEFINE x == [val[p] EXCEPT !.at = "reading"]
  <2>1. x \in Validator /\ x.at = "reading" /\ x.next = 1
    BY <1>1 DEF Validator
  <2>2. val' = [val EXCEPT ![p] = x]
    BY <1>3 DEF ValGoes, WorkIInv, WorkTypes
  <2> HIDE DEF x
  <2>3. Current(p, x)
    BY <1>1, <2>1, WorkAssumption DEF Current
  <2> QED
    BY <1>1, <2>1, <2>2, <2>3, ValMoves, Zenon
<1> QED
  BY <1>2, <1>3 DEF CheckOwner

\* stage_items by the owner of the batch: one line more, and it is good.
LEMMA StagedOneMore ==
    ASSUME WorkIInv, NEW p \in Processes, StagingOwned(p), RowFree,
           val[p].at = "reading", val[p].next \in FileLines \ {badLine},
           stored' = stored \cup {val[p].next},
           row' = [row EXCEPT !.count = @ + 1, !.lease = "live"],
           val' = [val EXCEPT ![p].next = @ + 1],
           UNCHANGED <<open, badLine, seal, manifest>>
    PROVE  WorkIInv'
<1> DEFINE n == val[p].next
           x == [val[p] EXCEPT !.next = n + 1]
           r1 == [row EXCEPT !.count = row.count + 1]
           r == [r1 EXCEPT !.lease = "live"]
<1>1. /\ val[p] \in Validator /\ n \in Nat /\ n \in 1..Lines /\ n # badLine
      /\ row.phase = "validating" /\ row.owner = p /\ row \in Row /\ row.count = n - 1
      /\ stored = 1 .. (n - 1) /\ badLine \notin stored /\ Lines \in Nat
  BY WorkAssumption
     DEF WorkIInv, WorkTypes, Validator, FileLines, StagingOwned, Owned, ValidatorsCurrent
<1>2. x \in Validator /\ x.at = "reading" /\ x.next = n + 1
  BY <1>1 DEF Validator
<1>3. val' = [val EXCEPT ![p] = x]
  BY DEF WorkIInv, WorkTypes
<1>4. row' = r /\ open = {} /\ stored' = stored \cup {n}
  BY <1>1 DEF WorkIInv, OpenWhileRunning
<1>5. row.count + 1 = n
  BY <1>1
<1>6. r1 \in Row /\ r1.phase = "validating" /\ r1.owner = p /\ r1.count = n
  BY <1>1, <1>5, ZenonT(40) DEF Row
<1> HIDE DEF r1
<1>7. r \in Row /\ r.phase = "validating" /\ r.owner = p /\ r.count = n
  BY <1>6 DEF Row, Leases
<1> HIDE DEF n, x, r
<1>8. stored' = 1..n /\ 1..n = 1 .. ((n + 1) - 1) /\ badLine \notin stored'
  <2>1. (1 .. (n - 1)) \cup {n} = 1..n
    BY <1>1
  <2>2. (n + 1) - 1 = n
    BY <1>1
  <2>3. stored' = 1..n
    BY <1>1, <1>4, <2>1
  <2>4. badLine \notin stored'
    BY <1>1, <1>4
  <2> QED
    BY <2>2, <2>3, <2>4
<1>9. WorkTypes'
  BY <1>1, <1>2, <1>3, <1>4, <1>7, <1>8 DEF WorkIInv, WorkTypes, FileLines
<1>10. ASSUME NEW q \in Processes PROVE Current(q, val[q])'
  <2>1. CASE q = p
    <3>1. val'[p] = x
      BY <1>3 DEF WorkIInv, WorkTypes
    <3>2. x.next \in 1 .. (Lines + 1) /\ stored' = 1 .. (x.next - 1) /\ row'.count = x.next - 1
      BY <1>1, <1>2, <1>4, <1>7, <1>8
    <3> QED
      BY <1>2, <1>8, <2>1, <3>1, <3>2, Zenon DEF Current
  <2>2. CASE q # p
    <3>1. val'[q] = val[q] /\ row'.owner # q
      BY <1>3, <1>4, <1>7, <2>2, Zenon DEF WorkIInv, WorkTypes
    <3> QED
      BY <3>1 DEF WorkIInv, ValidatorsCurrent, Current, Owned
  <2> QED
    BY <2>1, <2>2
<1>11. ValidatorsCurrent'
  BY <1>10 DEF ValidatorsCurrent, Current
<1>12. SealersCurrent'
  BY <1>4, <1>7, Zenon DEF SealersCurrent, Owned, RowFree
<1> QED
  BY <1>1, <1>4, <1>7, <1>9, <1>11, <1>12
     DEF WorkIInv, OpenWhileRunning, WholeFileRuns, ManifestIsWhole

\* stage_items adds the next line, and only for the owner of the row.
LEMMA StageItemsKeeps ==
    ASSUME WorkIInv, NEW p \in Processes, StageItems(p)
    PROVE  WorkIInv'
<1>1. CASE (ValGoes(p, "aborting") \/ ValGoes(p, "failing")) /\ UNCHANGED <<row, stored>>
  BY <1>1, ValGoesKeeps DEF StageItems
<1>2. CASE /\ StagingOwned(p)
           /\ stored' = stored \cup {val[p].next}
           /\ row' = [row EXCEPT !.count = @ + 1, !.lease = "live"]
           /\ val' = [val EXCEPT ![p].next = @ + 1]
  BY <1>2, StagedOneMore, Zenon DEF StageItems
<1> QED
  BY <1>1, <1>2 DEF StageItems

\* publish_validated: every line is staged when the batch becomes runnable.
LEMMA PublishKeeps ==
    ASSUME WorkIInv, NEW p \in Processes, PublishValidated(p)
    PROVE  WorkIInv'
<1>1. UNCHANGED <<stored, badLine, seal, manifest>> /\ RowFree /\ val[p].at = "reading"
      /\ val[p].next = Lines + 1
  BY DEF PublishValidated
<1>2. CASE ~StagingOwned(p)
  BY <1>1, <1>2, ValGoesKeeps DEF PublishValidated
<1>3. CASE StagingOwned(p)
  <2> DEFINE r1 == [row EXCEPT !.phase = "runnable"]
             r2 == [r1 EXCEPT !.status = "in_progress"]
             r3 == [r2 EXCEPT !.owner = Nobody]
             r == [r3 EXCEPT !.lease = "none"]
  <2>1. row' = r /\ open' = stored /\ val' = [val EXCEPT ![p] = IdleVal]
    BY <1>3 DEF PublishValidated, ValEnds
  <2>2. r1 \in Row /\ r1.phase = "runnable" /\ r1.count = row.count
    BY DEF WorkIInv, WorkTypes, Row, Phases
  <2> HIDE DEF r1
  <2>3. r2 \in Row /\ r2.phase = "runnable" /\ r2.count = row.count
    BY <2>2 DEF Row, Statuses
  <2> HIDE DEF r2
  <2>4. r3 \in Row /\ r3.phase = "runnable" /\ r3.count = row.count /\ r3.owner = Nobody
    BY <2>3 DEF Row
  <2> HIDE DEF r3
  <2>5. r \in Row /\ r.phase = "runnable" /\ r.count = row.count /\ r.owner = Nobody
    BY <2>4 DEF Row, Leases
  <2> HIDE DEF r
  <2>6. stored = FileLines /\ row.count = Lines /\ badLine = 0
    <3>1. Owned(p, "validating")
      BY <1>3 DEF StagingOwned
    <3>2. Lines \in Nat /\ badLine \in 0..Lines
      BY WorkAssumption DEF WorkIInv, WorkTypes
    <3>3. (Lines + 1) - 1 = Lines
      BY <3>2
    <3>4. stored = 1..Lines /\ row.count = Lines /\ badLine \notin stored
      BY <1>1, <3>1, <3>3 DEF WorkIInv, ValidatorsCurrent
    <3> QED
      BY <3>2, <3>4 DEF FileLines
  <2>7. row.phase = "validating"
    BY <1>3 DEF StagingOwned, Owned
  <2>8. WorkTypes'
    BY <1>1, <2>1, <2>5, IdleTasks DEF WorkIInv, WorkTypes
  <2>9. ValidatorsCurrent'
    BY <1>1, <2>1, <2>5, IdleTasks DEF WorkIInv, WorkTypes, ValidatorsCurrent, Owned
  <2>10. SealersCurrent'
    BY <1>1, <2>1, <2>5 DEF SealersCurrent, Owned, RowFree
  <2> QED
    BY <1>1, <2>1, <2>5, <2>6, <2>7, <2>8, <2>9, <2>10
       DEF WorkIInv, OpenWhileRunning, WholeFileRuns, ManifestIsWhole
<1> QED
  BY <1>2, <1>3

\* fail_validation leaves nothing of the batch to run.
LEMMA FailedKeeps ==
    ASSUME WorkIInv, RowFree, row.phase = "validating", ValidationFailed,
           \A p \in Processes :
              val'[p].at \in {"idle", "claimed", "reset"} => val'[p].next = 1,
           val' \in [Processes -> Validator],
           UNCHANGED <<open, badLine, seal, manifest>>
    PROVE  WorkIInv'
<1> DEFINE r == [row EXCEPT !.count = 0]
           f == FailedStatus(row.status)
<1>1. r \in Row
  BY DEF WorkIInv, WorkTypes, Row
<1>2. f \in Finals
  BY DEF FailedStatus, FinalStatus, Finals
<1>3. row' = Finalized(r, f) /\ stored' = {}
  BY DEF ValidationFailed
<1> HIDE DEF r, f
<1>4. row' \in Row /\ row'.phase = "sealing" /\ row'.owner = Nobody
  BY <1>1, <1>2, <1>3, FinalizedRow
<1>5. open = {} /\ manifest = NoManifest
  BY DEF WorkIInv, OpenWhileRunning, ManifestIsWhole
<1>6. seal' \in [Processes -> Sealer] /\ \A p \in Processes : seal'[p].at # "writing"
  BY DEF WorkIInv, WorkTypes, RowFree
<1> QED
  BY <1>3, <1>4, <1>5, <1>6, RowLeft

\* fail_validation ends the batch only for its owner, and removes what was staged.
LEMMA FailValidationKeeps ==
    ASSUME WorkIInv, NEW p \in Processes, FailValidation(p)
    PROVE  WorkIInv'
<1>1. UNCHANGED <<open, badLine, seal, manifest>> /\ RowFree /\ ValEnds(p)
  BY DEF FailValidation
<1>2. CASE ~Owned(p, "validating")
  BY <1>1, <1>2, ValGoesKeeps DEF FailValidation
<1>3. CASE Owned(p, "validating")
  <2>1. ValidationFailed /\ row.phase = "validating"
    BY <1>3 DEF FailValidation, Owned
  <2>2. /\ val' \in [Processes -> Validator]
        /\ \A q \in Processes : val'[q].at \in {"idle", "claimed", "reset"} => val'[q].next = 1
    BY <1>1, IdleTasks DEF ValEnds, WorkIInv, WorkTypes, ValidatorsCurrent
  <2> QED
    BY <1>1, <2>1, <2>2, FailedKeeps
<1> QED
  BY <1>2, <1>3

\* The sweep fails a batch whose validation was abandoned, whoever owns it.
LEMMA FailStaleKeeps ==
    ASSUME WorkIInv, FailStaleValidation
    PROVE  WorkIInv'
<1>1. UNCHANGED <<open, badLine, val, seal, manifest>> /\ RowFree
  BY DEF FailStaleValidation
<1>2. CASE row.phase = "validating"
  <2>1. ValidationFailed
    BY <1>2 DEF FailStaleValidation
  <2>2. /\ val' \in [Processes -> Validator]
        /\ \A q \in Processes : val'[q].at \in {"idle", "claimed", "reset"} => val'[q].next = 1
    BY <1>1 DEF WorkIInv, WorkTypes, ValidatorsCurrent
  <2> QED
    BY <1>1, <1>2, <2>1, <2>2, FailedKeeps
<1>3. CASE row.phase # "validating"
  <2>1. UNCHANGED <<row, stored>>
    BY <1>3 DEF FailStaleValidation
  <2> QED
    BY <1>1, <2>1, RowTouched DEF WorkIInv, WorkTypes
<1> QED
  BY <1>2, <1>3

-----------------------------------------------------------------------------
(* Sealing *)

\* A step of one sealer that leaves the batch alone, or only renews its lease.
LEMMA SealMoves ==
    ASSUME WorkIInv, NEW p \in Processes, NEW x \in Sealer, seal' = [seal EXCEPT ![p] = x],
           x.at # "writing",
           Owned(p, "sealing") => x.seen \subseteq stored,
           row' \in Row, row'.phase = row.phase, row'.owner = row.owner,
           row'.count = row.count, row'.gen = row.gen,
           UNCHANGED <<stored, open, badLine, val, manifest>>
    PROVE  WorkIInv'
<1>1. WorkTypes'
  BY DEF WorkIInv, WorkTypes
<1>2. SealersCurrent'
  BY DEF WorkIInv, WorkTypes, SealersCurrent, Owned
<1>3. ValidatorsCurrent'
  BY DEF WorkIInv, ValidatorsCurrent, Owned
<1> QED
  BY <1>1, <1>2, <1>3
     DEF WorkIInv, OpenWhileRunning, WholeFileRuns, ManifestIsWhole

\* claim_sealing starts a new generation, with nothing rendered.
LEMMA ClaimSealingKeeps ==
    ASSUME WorkIInv, NEW p \in Processes, ClaimSealing(p)
    PROVE  WorkIInv'
<1> DEFINE x == [at |-> "reading", gen |-> row.gen + 1, final |-> row.final, seen |-> {}]
           r1 == [row EXCEPT !.owner = p]
           r2 == [r1 EXCEPT !.lease = "live"]
           r == [r2 EXCEPT !.gen = row.gen + 1]
<1>1. /\ row' = r /\ seal' = [seal EXCEPT ![p] = x]
      /\ RowFree /\ row.phase = "sealing" /\ row \in Row
      /\ UNCHANGED <<stored, open, badLine, val, manifest>>
  <2>1. r2.gen = row.gen
    BY DEF WorkIInv, WorkTypes, Row
  <2> QED
    BY <2>1 DEF ClaimSealing, Claimable, WorkIInv, WorkTypes
<1>2. x \in Sealer /\ x.at = "reading" /\ x.seen = {}
  BY <1>1 DEF Sealer, Row
<1>3. r1 \in Row /\ r1.phase = row.phase /\ r1.owner = p
  BY <1>1 DEF Row
<1> HIDE DEF r1, x
<1>4. r2 \in Row /\ r2.phase = row.phase /\ r2.owner = p
  BY <1>3 DEF Row, Leases
<1> HIDE DEF r2
<1>5. r \in Row /\ r.phase = row.phase /\ r.owner = p
  BY <1>1, <1>4 DEF Row
<1> HIDE DEF r
<1>6. WorkTypes'
  BY <1>1, <1>2, <1>5 DEF WorkIInv, WorkTypes
<1>7. ValidatorsCurrent'
  BY <1>1, <1>5 DEF WorkIInv, ValidatorsCurrent, Owned
<1>8. SealersCurrent'
  BY <1>1, <1>2, <1>5 DEF WorkIInv, WorkTypes, SealersCurrent, Owned, RowFree
<1> QED
  BY <1>1, <1>5, <1>6, <1>7, <1>8
     DEF WorkIInv, OpenWhileRunning, WholeFileRuns, ManifestIsWhole

\* A page adds to what is rendered only lines that are stored.
LEMMA RenderKeeps ==
    ASSUME WorkIInv, NEW p \in Processes, RenderPage(p)
    PROVE  WorkIInv'
<1> DEFINE more == seal[p].seen \cup Page(seal[p].seen)
           x == [seal[p] EXCEPT !.seen = more]
           r == [row EXCEPT !.lease = "live"]
<1>1. /\ UNCHANGED <<stored, open, badLine, val, manifest>> /\ seal[p].at = "reading"
      /\ seal[p] \in Sealer /\ row \in Row /\ stored \subseteq FileLines
      /\ Owned(p, "sealing") => seal[p].seen \subseteq stored
  BY DEF RenderPage, WorkIInv, WorkTypes, SealersCurrent
<1>2. Page(seal[p].seen) \subseteq stored
  BY DEF Page
<1>3. x \in Sealer /\ x.at = "reading" /\ x.seen = more
  <2>1. more \in SUBSET FileLines
    BY <1>1, <1>2 DEF Sealer
  <2> HIDE DEF more
  <2> QED
    BY <1>1, <2>1 DEF Sealer
<1>4. Owned(p, "sealing") => x.seen \subseteq stored
  BY <1>1, <1>2, <1>3
<1>5. [seal EXCEPT ![p].seen = @ \cup Page(@)] = [seal EXCEPT ![p] = x]
  BY <1>1 DEF WorkIInv, WorkTypes
<1>6. /\ r \in Row /\ r.phase = row.phase /\ r.owner = row.owner
      /\ r.count = row.count /\ r.gen = row.gen
  BY <1>1 DEF Row, Leases
<1> HIDE DEF x, r
<1>7. CASE seal' = [seal EXCEPT ![p] = x] /\ row' \in {row, r}
  BY <1>1, <1>3, <1>4, <1>6, <1>7, SealMoves, Zenon
<1>8. CASE seal' = [seal EXCEPT ![p] = IdleSeal] /\ UNCHANGED row
  BY <1>1, <1>8, IdleTasks, SealMoves, Zenon
<1> QED
  BY <1>5, <1>7, <1>8 DEF RenderPage, r

\* commit_seal begins: the owner with no page left has rendered all there is.
LEMMA LockSealKeeps ==
    ASSUME WorkIInv, NEW p \in Processes, LockSeal(p)
    PROVE  WorkIInv'
<1>1. UNCHANGED <<row, stored, open, badLine, val, manifest>> /\ RowFree
      /\ Page(seal[p].seen) = {} /\ seal[p] \in Sealer /\ row \in Row
  BY DEF LockSeal, WorkIInv, WorkTypes
<1>2. CASE ~SealOwned(p)
  <2>1. seal' = [seal EXCEPT ![p] = IdleSeal]
    BY <1>2 DEF LockSeal
  <2> QED
    BY <1>1, <2>1, IdleTasks, SealMoves, Zenon
<1>3. CASE SealOwned(p)
  <2> DEFINE x == [seal[p] EXCEPT !.at = "writing"]
  <2>1. x \in Sealer /\ x.seen = seal[p].seen /\ x.gen = seal[p].gen
    BY <1>1 DEF Sealer
  <2>2. seal' = [seal EXCEPT ![p] = x]
    BY <1>3 DEF LockSeal, WorkIInv, WorkTypes
  <2>3. seal[p].seen = stored
    <3>1. stored \subseteq seal[p].seen
      BY <1>1, NoPageLeft DEF WorkIInv
    <3> QED
      BY <1>3, <3>1, ZenonT(40) DEF SealOwned, WorkIInv, SealersCurrent
  <2> HIDE DEF x
  <2>4. WorkTypes'
    BY <1>1, <2>1, <2>2, ZenonT(40) DEF WorkIInv, WorkTypes
  <2>5. SealersCurrent'
    BY <1>1, <1>3, <2>1, <2>2, <2>3, ZenonT(40) DEF WorkIInv, WorkTypes, SealersCurrent, Owned, SealOwned, RowFree
  <2> QED
    BY <1>1, <2>4, <2>5
       DEF WorkIInv, ValidatorsCurrent, Owned, OpenWhileRunning, WholeFileRuns, ManifestIsWhole
<1> QED
  BY <1>2, <1>3

\* commit_seal commits: the files are of the row's generation and whole.
LEMMA CommitSealKeeps ==
    ASSUME WorkIInv, NEW p \in Processes, CommitSeal(p)
    PROVE  WorkIInv' /\ row.phase = "sealing" /\ row'.phase = "sealed"
<1> DEFINE r1 == [row EXCEPT !.phase = "sealed"]
           r2 == [r1 EXCEPT !.status = row.final]
           r3 == [r2 EXCEPT !.owner = Nobody]
           r == [r3 EXCEPT !.lease = "none"]
<1>1. /\ UNCHANGED <<stored, open, badLine, val>> /\ seal[p].at = "writing"
      /\ manifest' = [gen |-> seal[p].gen, lines |-> seal[p].seen]
      /\ seal' = [seal EXCEPT ![p] = IdleSeal]
      /\ row' = r /\ row \in Row
  BY DEF CommitSeal, WorkIInv, WorkTypes
<1>2. row.phase = "sealing" /\ row.owner = p /\ row.gen = seal[p].gen /\ seal[p].seen = stored
      /\ open = {}
  BY <1>1 DEF WorkIInv, SealersCurrent, Owned, OpenWhileRunning
<1>3. r1 \in Row /\ r1.phase = "sealed" /\ r1.gen = row.gen
  BY <1>1 DEF Row, Phases
<1> HIDE DEF r1
<1>4. r2 \in Row /\ r2.phase = "sealed" /\ r2.gen = row.gen
  BY <1>1, <1>3 DEF Row
<1> HIDE DEF r2
<1>5. r3 \in Row /\ r3.phase = "sealed" /\ r3.gen = row.gen /\ r3.owner = Nobody
  BY <1>4 DEF Row
<1> HIDE DEF r3
<1>6. r \in Row /\ r.phase = "sealed" /\ r.gen = row.gen /\ r.owner = Nobody
  BY <1>5 DEF Row, Leases
<1> HIDE DEF r
<1>7. WorkTypes'
  BY <1>1, <1>6, IdleTasks DEF WorkIInv, WorkTypes
<1>8. ValidatorsCurrent'
  BY <1>1, <1>6 DEF WorkIInv, ValidatorsCurrent, Owned
<1>9. \A q \in Processes : q # p => seal[q].at # "writing"
  BY <1>2 DEF WorkIInv, SealersCurrent, Owned
<1>10. SealersCurrent'
  BY <1>1, <1>6, <1>9, IdleTasks DEF WorkIInv, WorkTypes, SealersCurrent, Owned
<1>11. OpenWhileRunning' /\ WholeFileRuns' /\ ManifestIsWhole'
  BY <1>1, <1>2, <1>6 DEF OpenWhileRunning, WholeFileRuns, ManifestIsWhole
<1> QED
  BY <1>1, <1>2, <1>6, <1>7, <1>8, <1>10, <1>11, ZenonT(40) DEF WorkIInv

\* A process that dies leaves the batch as it is.
LEMMA DiesKeeps ==
    ASSUME WorkIInv, NEW p \in Processes, ProcessDies(p)
    PROVE  WorkIInv'
<1>1. /\ val' = [val EXCEPT ![p] = IdleVal] /\ seal' = [seal EXCEPT ![p] = IdleSeal]
      /\ UNCHANGED <<row, stored, open, badLine, manifest>>
  BY DEF ProcessDies
<1>2. WorkTypes'
  BY <1>1, IdleTasks DEF WorkIInv, WorkTypes
<1>3. ValidatorsCurrent'
  BY <1>1, IdleTasks DEF WorkIInv, WorkTypes, ValidatorsCurrent, Owned
<1>4. SealersCurrent'
  BY <1>1, IdleTasks DEF WorkIInv, WorkTypes, SealersCurrent, Owned
<1> QED
  BY <1>1, <1>2, <1>3, <1>4 DEF WorkIInv, OpenWhileRunning, WholeFileRuns, ManifestIsWhole

-----------------------------------------------------------------------------
(* The items, the owner and the downloads *)

\* _settle, after items have ended: the batch runs on or waits for a sealer.
LEMMA SettleKeeps ==
    ASSUME WorkIInv, RowFree, NEW r \in Row, NEW left \in SUBSET open,
           r.phase = row.phase, r.owner = row.owner, r.count = row.count, r.gen = row.gen,
           row' = Settled(r, left), open' = left,
           UNCHANGED <<stored, badLine, val, seal, manifest>>
    PROVE  WorkIInv' /\ row'.phase \in {row.phase, "sealing"}
<1>1. CASE r.phase = "runnable" /\ left = {}
  <2>1. FinalStatus(r.status) \in Finals
    BY DEF FinalStatus, Finals
  <2>2. row' \in Row /\ row'.phase = "sealing" /\ row'.owner = Nobody
    BY <1>1, <2>1, FinalizedRow DEF Settled
  <2>3. manifest = NoManifest
    BY <1>1 DEF WorkIInv, ManifestIsWhole
  <2>4. /\ stored' \subseteq FileLines /\ seal' \in [Processes -> Sealer]
        /\ val' \in [Processes -> Validator]
        /\ \A p \in Processes :
              /\ seal'[p].at # "writing"
              /\ val'[p].at \in {"idle", "claimed", "reset"} => val'[p].next = 1
    BY DEF WorkIInv, WorkTypes, ValidatorsCurrent, RowFree
  <2> QED
    BY <1>1, <2>2, <2>3, <2>4, RowLeft
<1>2. CASE ~(r.phase = "runnable" /\ left = {})
  <2>1. row' = r
    BY <1>2 DEF Settled
  <2> QED
    BY <2>1, RowTouched
<1> QED
  BY <1>1, <1>2

\* The last item of a running batch to finish turns it over to be sealed.
LEMMA FinishItemKeeps ==
    ASSUME WorkIInv, NEW l \in FileLines, FinishItem(l)
    PROVE  WorkIInv' /\ row'.phase \in {row.phase, "sealing"} /\ row.phase = "runnable"
<1>1. open \ {l} \in SUBSET open /\ row \in Row
  BY DEF WorkIInv, WorkTypes
<1> QED
  BY <1>1, SettleKeeps DEF FinishItem

\* A cancelled or expired batch is turned over to be sealed once none of its
\* items is open.
LEMMA CloseKeeps ==
    ASSUME WorkIInv, NEW status \in {"cancelling", "expired"}, CloseAs(status)
    PROVE  /\ WorkIInv' /\ row'.phase \in {row.phase, "sealing"}
           /\ row.phase \in {"validating", "runnable"}
<1> DEFINE r == [row EXCEPT !.status = status]
<1>1. /\ r \in Row /\ r.phase = row.phase /\ r.owner = row.owner
      /\ r.count = row.count /\ r.gen = row.gen
  BY DEF WorkIInv, WorkTypes, Row, Statuses
<1>2. /\ RowFree /\ row.phase \in {"validating", "runnable"}
      /\ \E running \in SUBSET open : open' = running /\ row' = Settled(r, running)
      /\ UNCHANGED <<stored, badLine, val, seal, manifest>>
  BY DEF CloseAs, Closable
<1> HIDE DEF r
<1> QED
  BY <1>1, <1>2, SettleKeeps

\* The row goes, with all that belongs to it.
LEMMA RemoveKeeps ==
    ASSUME WorkIInv, RowFree, RemoveRow
    PROVE  WorkIInv' /\ row'.phase = "none"
<1>1. GoneRow \in Row /\ GoneRow.phase = "none" /\ GoneRow.owner = Nobody
  BY DEF GoneRow, Row, Phases, Statuses, Finals, Leases
<1>2. /\ row' = GoneRow /\ stored' = {} /\ open' = {} /\ manifest' = NoManifest
      /\ UNCHANGED <<badLine, val, seal>>
  BY DEF RemoveRow
<1>3. /\ seal' \in [Processes -> Sealer] /\ val' \in [Processes -> Validator]
      /\ \A p \in Processes :
            /\ seal'[p].at # "writing"
            /\ val'[p].at \in {"idle", "claimed", "reset"} => val'[p].next = 1
  BY <1>2 DEF WorkIInv, WorkTypes, ValidatorsCurrent, RowFree
<1> QED
  BY <1>1, <1>2, <1>3, RowLeft

\* Deletion removes the row with all it stored, or marks one that is being read.
LEMMA DeleteBatchKeeps ==
    ASSUME WorkIInv, DeleteBatch
    PROVE  WorkIInv' /\ row'.phase \in {row.phase, "none"}
<1>1. CASE RemoveRow
  BY <1>1, RemoveKeeps DEF DeleteBatch
<1>2. CASE /\ row' = [row EXCEPT !.deleted = TRUE]
           /\ UNCHANGED <<stored, open, badLine, val, seal, manifest>>
  <2>1. /\ row' \in Row /\ row'.phase = row.phase /\ row'.owner = row.owner
        /\ row'.count = row.count /\ row'.gen = row.gen
    BY <1>2, Zenon DEF WorkIInv, WorkTypes, Row
  <2> QED
    BY <1>2, <2>1, RowTouched
<1> QED
  BY <1>1, <1>2 DEF DeleteBatch

\* The lease of the row, its reading and the downloads.
LEMMA ReadingKeeps ==
    ASSUME WorkIInv,
           \/ LeaseRunsOut \/ ListStaleValidation \/ ExportRequests \/ StartDownload
           \/ ReadPage \/ EndDownload \/ KeepLease \/ ReadLeaseRunsOut
    PROVE  WorkIInv' /\ row'.phase = row.phase
<1>1. /\ UNCHANGED <<stored, open, badLine, val, seal, manifest>>
      /\ \/ row' = row
         \/ row' = [row EXCEPT !.lease = "lapsed"]
         \/ row' = [row EXCEPT !.read = TRUE]
         \/ row' = [row EXCEPT !.read = FALSE]
  BY Zenon DEF LeaseRunsOut, ListStaleValidation, ExportRequests, StartDownload, ReadPage, EndDownload,
         KeepLease, ReadLeaseRunsOut
<1>2. /\ row' \in Row /\ row'.phase = row.phase /\ row'.owner = row.owner
      /\ row'.count = row.count /\ row'.gen = row.gen
  BY <1>1, ZenonT(40) DEF WorkIInv, WorkTypes, Row, Leases
<1> QED
  BY <1>1, <1>2, RowTouched

-----------------------------------------------------------------------------
\* No step of the batch's own leaves a phase it has reached for an earlier one
\* once the batch is sealed or gone.
LEMMA WorkStepKeeps ==
    ASSUME WorkIInv, WorkStep
    PROVE  WorkIInv' /\ (row.phase \in {"sealed", "none"} => row'.phase \in {"sealed", "none"})
<1>1. ASSUME NEW p \in Processes, ClaimValidating(p) \/ ClaimSealing(p)
      PROVE  WorkIInv' /\ row.phase \notin {"sealed", "none"}
  BY <1>1, ClaimValidatingKeeps, ClaimSealingKeeps, Zenon DEF ClaimValidating, ClaimSealing, Claimable
<1>2. ASSUME NEW p \in Processes, Validate(p)
      PROVE  WorkIInv' /\ (row.phase \in {"sealed", "none"} => row' = row)
  <2>1. CASE ResetStagedItems(p)
    BY <2>1, ResetKeeps DEF ResetStagedItems, Owned
  <2>2. CASE CheckOwner(p)
    BY <2>2, CheckOwnerKeeps DEF CheckOwner
  <2>3. CASE MeetBadLine(p)
    BY <2>3, ValGoesKeeps DEF MeetBadLine
  <2>4. CASE StageItems(p)
    BY <2>4, StageItemsKeeps DEF StageItems, StagingOwned, Owned
  <2>5. CASE PublishValidated(p)
    BY <2>5, PublishKeeps DEF PublishValidated, StagingOwned, Owned
  <2>6. CASE Abort(p)
    BY <2>6, ValGoesKeeps DEF Abort
  <2>7. CASE FailValidation(p)
    BY <2>7, FailValidationKeeps DEF FailValidation, Owned
  <2> QED
    BY <1>2, <2>1, <2>2, <2>3, <2>4, <2>5, <2>6, <2>7 DEF Validate
<1>3. ASSUME NEW p \in Processes, RenderPage(p)
      PROVE  WorkIInv' /\ row'.phase = row.phase
  <2>1. row' = row \/ row' = [row EXCEPT !.lease = "live"]
    BY <1>3 DEF RenderPage
  <2>2. row'.phase = row.phase
    BY <2>1 DEF WorkIInv, WorkTypes, Row
  <2> QED
    BY <1>3, <2>2, RenderKeeps
<1>4. CASE FailStaleValidation
  BY <1>4, FailStaleKeeps, Zenon DEF FailStaleValidation
<1>5. CASE CancelBatch \/ ExpireBatch
  BY <1>5, CloseKeeps DEF CancelBatch, ExpireBatch
<1>6. CASE PurgeBatch
  BY <1>6, RemoveKeeps DEF PurgeBatch
<1>7. ASSUME NEW l \in FileLines, FinishItem(l)
      PROVE  WorkIInv' /\ row.phase \notin {"sealed", "none"}
  BY <1>7, FinishItemKeeps
<1>8. CASE \/ LeaseRunsOut \/ ListStaleValidation \/ ExportRequests \/ StartDownload
           \/ ReadPage \/ EndDownload \/ KeepLease \/ ReadLeaseRunsOut
  BY <1>8, ReadingKeeps, ZenonT(40)
<1> QED
  BY <1>1, <1>2, <1>3, <1>4, <1>5, <1>6, <1>7, <1>8 DEF WorkStep

\* A step of the outbox alone keeps the invariant of the work.
LEMMA WorkUnchanged ==
    ASSUME WorkIInv, UNCHANGED workVars
    PROVE  WorkIInv' /\ row' = row
BY DEF workVars, WorkIInv, WorkTypes, ValidatorsCurrent, SealersCurrent, Owned, OpenWhileRunning,
       WholeFileRuns, ManifestIsWhole

\* A batch that was just created has nothing staged and nobody at work.
LEMMA WorkInitIInv == WorkInit => WorkIInv
<1> SUFFICES ASSUME WorkInit PROVE WorkIInv
  OBVIOUS
<1>1. row \in Row /\ row.phase = "validating" /\ row.owner = Nobody
  BY DEF WorkInit, Row, Phases, Statuses, Finals, Leases
<1>2. WorkTypes
  BY <1>1, IdleTasks, ZenonT(40) DEF WorkInit, WorkTypes
<1>3. ValidatorsCurrent
  BY <1>1, IdleTasks, ZenonT(40) DEF WorkInit, ValidatorsCurrent
<1>4. SealersCurrent
  BY <1>1, IdleTasks DEF WorkInit, SealersCurrent, Owned
<1>5. OpenWhileRunning /\ WholeFileRuns /\ ManifestIsWhole
  BY <1>1 DEF WorkInit, OpenWhileRunning, WholeFileRuns, ManifestIsWhole
<1> QED
  BY <1>2, <1>3, <1>4, <1>5 DEF WorkIInv

-----------------------------------------------------------------------------
(* The batch and its event *)

Event ==
    [status : {"none", "pending", "delivered", "failed"}, attempts : Nat,
     owner : Senders \cup {NoSender}, lease : Leases, due : BOOLEAN]

\* A batch has an event only once it is sealed, and keeps it when it is gone.
EventAfterSeal ==
    /\ event \in Event
    /\ event.status # "none" => row.phase \in {"sealed", "none"}

FileBatchIInv == WorkIInv /\ EventAfterSeal

\* The absence of an event is one of its values.
LEMMA NoEventIsEvent == NoEvent \in Event /\ NoEvent.status = "none"
BY DEF NoEvent, Event, Leases

\* What one delivery, the sweep and the owner do to the event: one that has an
\* outcome is removed or stays as it is, and none comes to be.
EventKept ==
    /\ event' \in Event
    /\ event.status = "none" => event'.status = "none"
    /\ event.status \in {"delivered", "failed"} => event' = NoEvent \/ event'.status = event.status

\* record_outcome gives an outcome only to an event that has none.
LEMMA RecordKept ==
    ASSUME event \in Event, NEW p \in Senders, RecordOutcome(p)
    PROVE  EventKept
<1>1. ASSUME NEW status \in {"failed", "delivered"}
      PROVE  Ended(status) \in Event
  <2> DEFINE e1 == [event EXCEPT !.status = status]
             e2 == [e1 EXCEPT !.owner = NoSender]
             e == [e2 EXCEPT !.lease = "none"]
  <2>1. Ended(status) = e
    BY DEF Ended
  <2>2. e1 \in Event
    BY DEF Event
  <2> HIDE DEF e1
  <2>3. e2 \in Event
    BY <2>2 DEF Event
  <2> HIDE DEF e2
  <2>4. e \in Event
    BY <2>3 DEF Event, Leases
  <2> QED
    BY <2>1, <2>4
<1>2. [event EXCEPT !.owner = NoSender, !.lease = "none", !.due = FALSE] \in Event
  <2> DEFINE e1 == [event EXCEPT !.owner = NoSender]
             e2 == [e1 EXCEPT !.lease = "none"]
             e == [e2 EXCEPT !.due = FALSE]
  <2>1. e1 \in Event
    BY DEF Event
  <2> HIDE DEF e1
  <2>2. e2 \in Event
    BY <2>1 DEF Event, Leases
  <2> HIDE DEF e2
  <2>3. e \in Event
    BY <2>2, Zenon DEF Event
  <2> QED
    BY <2>3 DEF e1, e2
<1>3. CASE ~Fenced(p)
  BY <1>3 DEF RecordOutcome, EventKept
<1>4. CASE Fenced(p)
  <2>1. event.status = "pending"
    BY <1>4 DEF Fenced
  <2>2. event' \in Event
    BY <1>1, <1>2, <1>4 DEF RecordOutcome, Retried
  <2> QED
    BY <2>1, <2>2 DEF EventKept
<1> QED
  BY <1>3, <1>4

\* No step of the outbox changes an outcome or brings about an event.
LEMMA OutboxStepKept ==
    ASSUME event \in Event, OutboxStep
    PROVE  EventKept
<1>1. CASE UNCHANGED event
  BY <1>1 DEF EventKept
<1>2. CASE DeleteWebhook
  BY <1>2, NoEventIsEvent DEF DeleteWebhook, PendingRemoved, EventKept
<1>3. ASSUME NEW p \in Senders, ClaimEvent(p) PROVE EventKept
  <2> DEFINE e1 == [event EXCEPT !.owner = p]
             e2 == [e1 EXCEPT !.lease = "live"]
             e == [e2 EXCEPT !.attempts = event.attempts + 1]
  <2>1. event.status = "pending"
    BY <1>3 DEF ClaimEvent
  <2>2. e1 \in Event /\ event.attempts + 1 \in Nat
    BY DEF Event
  <2>3. e2.attempts = event.attempts
    BY DEF Event
  <2>4. event' = e
    BY <1>3, <2>3 DEF ClaimEvent
  <2> HIDE DEF e1
  <2>5. e2 \in Event
    BY <2>2 DEF Event, Leases
  <2> HIDE DEF e2
  <2>6. e \in Event
    BY <2>2, <2>5 DEF Event
  <2> QED
    BY <2>1, <2>4, <2>6 DEF EventKept
<1>4. CASE EventDue
  BY <1>4, Zenon DEF EventDue, Event, EventKept
<1>5. CASE EventLeaseRunsOut
  <2>1. event' = [event EXCEPT !.lease = "lapsed"]
    BY <1>5 DEF EventLeaseRunsOut
  <2>2. event' \in Event /\ event'.status = event.status
    BY <2>1 DEF Event, Leases
  <2> QED
    BY <2>2 DEF EventKept
<1>6. CASE FailExhausted
  BY <1>6 DEF FailExhausted, Event, EventKept
<1>7. CASE PurgeOldEvent
  BY <1>7, NoEventIsEvent DEF PurgeOldEvent, EventKept
<1>8. ASSUME NEW p \in Senders, SecretUnreadable(p) \/ Post(p) \/ SenderDies(p)
      PROVE  UNCHANGED event
  BY <1>8 DEF SecretUnreadable, Post, SenderDies
<1> QED
  BY <1>1, <1>2, <1>3, <1>4, <1>5, <1>6, <1>7, <1>8, RecordKept, ZenonT(40) DEF OutboxStep, Deliver

\* The batch stays sealed, or gone.
PhaseKept == row.phase \in {"sealed", "none"} => row'.phase \in {"sealed", "none"}

\* What a step that is no delivery does to the attempts: nothing, and it makes
\* no event a delivered one.
Unsent ==
    /\ UNCHANGED <<sender, sent>>
    /\ event'.status # "none" => event'.attempts = event.attempts
    /\ event'.status = "delivered" => event.status = "delivered"

\* commit_seal brings about the event of a batch that has none, unsent.
LEMMA EndSealKeeps ==
    ASSUME FileBatchIInv, NEW p \in Processes, EndSeal(p)
    PROVE  /\ FileBatchIInv' /\ UNCHANGED <<sender, sent>>
           /\ event.status = "none" /\ row.phase = "sealing" /\ row'.phase = "sealed"
           /\ event'.status # "none" => event'.status = "pending" /\ event'.attempts = 0
<1>1. WorkIInv /\ event \in Event /\ (event.status # "none" => row.phase \in {"sealed", "none"})
  BY DEF FileBatchIInv, EventAfterSeal
<1>2. WorkIInv' /\ row.phase = "sealing" /\ row'.phase = "sealed"
  BY <1>1, CommitSealKeeps DEF EndSeal
<1>3. event.status = "none"
  BY <1>1, <1>2
<1>4. LET e == [NoEvent EXCEPT !.status = "pending"]
      IN  e \in Event /\ e.status = "pending" /\ e.attempts = 0
  BY Zenon DEF NoEvent, Event, Leases
<1>5. /\ UNCHANGED <<sender, sent>>
      /\ event' = [NoEvent EXCEPT !.status = "pending"] \/ event' = event
  BY DEF EndSeal, EnqueueEvent
<1> QED
  BY <1>1, <1>2, <1>3, <1>4, <1>5, Zenon DEF FileBatchIInv, EventAfterSeal

\* A step seals the batch, is one of a delivery, or leaves the deliveries alone.
LEMMA StepKinds ==
    ASSUME FileBatchIInv, [FileBatchNext]_fileBatchVars
    PROVE  \/ \E p \in Processes : EndSeal(p)
           \/ WorkIInv' /\ EventKept /\ PhaseKept
              /\ (Unsent \/ \E p \in Senders : Deliver(p) \/ SenderDies(p))
<1>1. WorkIInv /\ event \in Event /\ (event.status # "none" => row.phase \in {"sealed", "none"})
  BY DEF FileBatchIInv, EventAfterSeal
<1>2. UNCHANGED <<event, sender, sent>> => EventKept /\ Unsent
  BY <1>1, Zenon DEF EventKept, Unsent
<1>3. PendingRemoved \in {event, NoEvent}
  BY DEF PendingRemoved
<1>4. UNCHANGED <<sender, sent>> /\ event' \in {event, NoEvent}
      => Unsent /\ EventKept
  BY <1>1, <1>2, NoEventIsEvent DEF EventKept, Unsent
<1>5. CASE WorkStep /\ UNCHANGED <<outboxVars, erased>>
  BY <1>1, <1>2, <1>5, WorkStepKeeps DEF outboxVars, PhaseKept
<1>6. CASE OutboxStep /\ UNCHANGED <<workVars, erased>>
  <2>1. WorkIInv' /\ EventKept /\ PhaseKept
    BY <1>1, <1>6, WorkUnchanged, OutboxStepKept DEF PhaseKept
  <2>2. CASE DeleteWebhook \/ PurgeOldEvent
    BY <1>3, <1>4, <2>1, <2>2, Zenon DEF DeleteWebhook, PurgeOldEvent
  <2>3. CASE EventDue \/ EventLeaseRunsOut \/ FailExhausted
    <3>1. /\ UNCHANGED <<sender, sent>>
          /\ \/ event' = [event EXCEPT !.due = TRUE]
             \/ event' = [event EXCEPT !.lease = "lapsed"]
             \/ event' = [event EXCEPT !.status = "failed"]
      BY <2>3, Zenon DEF EventDue, EventLeaseRunsOut, FailExhausted
    <3>2. /\ event'.attempts = event.attempts
          /\ event'.status \in {event.status, "failed"}
      BY <1>1, <3>1 DEF Event
    <3> QED
      BY <2>1, <3>1, <3>2 DEF Unsent
  <2> QED
    BY <1>6, <2>1, <2>2, <2>3, Zenon DEF OutboxStep
<1>7. ASSUME NEW p \in Processes, BeginSeal(p)
      PROVE  WorkIInv' /\ row' = row /\ UNCHANGED <<event, sender, sent>>
  BY <1>1, <1>7, LockSealKeeps, Zenon DEF BeginSeal, LockSeal, ReadHook, outboxVars
<1>8. ASSUME NEW p \in Processes, Crash(p)
      PROVE  WorkIInv' /\ row' = row /\ UNCHANGED <<event, sender, sent>>
  BY <1>1, <1>8, DiesKeeps, Zenon DEF Crash, ProcessDies, ForgetHook, outboxVars
<1>9. CASE Delete
  BY <1>1, <1>3, <1>4, <1>9, DeleteBatchKeeps DEF Delete, DropEvent, PhaseKept
<1>10. CASE EraseOwner
  BY <1>1, <1>4, <1>10, RemoveKeeps DEF EraseOwner, EraseWebhook, PhaseKept
<1>11. CASE ConfigureWebhook
  BY <1>1, <1>2, <1>11, WorkUnchanged DEF ConfigureWebhook, SetWebhook, PhaseKept
<1>12. CASE UNCHANGED fileBatchVars
  BY <1>1, <1>2, <1>12, WorkUnchanged DEF fileBatchVars, outboxVars, PhaseKept
<1>13. row' = row => PhaseKept
  BY DEF PhaseKept
<1> QED
  BY <1>2, <1>5, <1>6, <1>7, <1>8, <1>9, <1>10, <1>11, <1>12, <1>13, Zenon DEF FileBatchNext

\* Every step of the batch and its outbox, and of both together.
LEMMA FileBatchStep ==
    ASSUME FileBatchIInv, [FileBatchNext]_fileBatchVars
    PROVE  /\ FileBatchIInv'
           /\ event.status \in {"delivered", "failed"}
                 => event' = NoEvent \/ event'.status = event.status
<1>1. CASE \E p \in Processes : EndSeal(p)
  BY <1>1, EndSealKeeps
<1>2. CASE WorkIInv' /\ EventKept /\ PhaseKept
  BY <1>2 DEF FileBatchIInv, EventAfterSeal, EventKept, PhaseKept
<1> QED
  BY <1>1, <1>2, StepKinds, Zenon

\* The invariant of the batch and its event holds throughout.
LEMMA FileBatchInvariance == FileBatchSpec => []FileBatchIInv
<1>1. FileBatchInit => FileBatchIInv
  BY WorkInitIInv, NoEventIsEvent DEF FileBatchInit, OutboxInit, FileBatchIInv, EventAfterSeal
<1>2. FileBatchIInv /\ [FileBatchNext]_fileBatchVars => FileBatchIInv'
  BY FileBatchStep
<1> QED
  BY <1>1, <1>2, PTL DEF FileBatchSpec

\* Whatever takeovers validate_file_batch goes through, publish_validated makes
\* runnable only a batch whose whole file is staged, once, and good.
THEOREM WholeFileOrNothing == FileBatchSpec => []WholeFileRuns
BY FileBatchInvariance, PTL DEF FileBatchIInv, WorkIInv

\* commit_seal publishes one set of result files, of the newest generation and
\* of every item the batch holds, and nothing else does.
THEOREM ResultFilesAreWhole == FileBatchSpec => []ManifestIsWhole
BY FileBatchInvariance, PTL DEF FileBatchIInv, WorkIInv

\* mark_delivered, mark_failed and the sealing of the batch leave an event that
\* has its outcome alone.
THEOREM EventOutcomeStands == FileBatchSpec => OutcomeStands
<1>1. FileBatchIInv /\ [FileBatchNext]_fileBatchVars
      => [ event.status \in {"delivered", "failed"}
           => event' = NoEvent \/ event'.status = event.status ]_outboxVars
  BY FileBatchStep
<1> QED
  BY <1>1, FileBatchInvariance, PTL DEF FileBatchSpec, OutcomeStands

-----------------------------------------------------------------------------
(* The event keeps the outbox's promise *)

SenderState == [at : {"idle", "posting", "recording", "refused"}, attempt : Nat, ok : BOOLEAN]

\* The senders that may still post: each has leased the event for it.
Posting == {p \in Senders : sender[p].at = "posting"}

\* Each post, made or to come, has its attempt: claim_due_events counted it.
SendsCounted ==
    /\ sender \in [Senders -> SenderState]
    /\ sent \in Nat /\ IsFiniteSet(Posting)
    /\ sent + Cardinality(Posting) <= MaxAttempts
    /\ event.status # "none"
          => sent + Cardinality(Posting) <= event.attempts /\ event.attempts <= MaxAttempts
    /\ row.phase \notin {"sealed", "none"} => sent = 0 /\ Posting = {}
    /\ \A p \in Senders : sender[p].at = "recording" => sent > 0

\* The attempts of one event are counted whatever becomes of its senders.
LEMMA FewerPosting ==
    ASSUME SendsCounted, EventAfterSeal, EventKept, PhaseKept, sent' = sent,
           sender' \in [Senders -> SenderState], Posting' \subseteq Posting,
           \A p \in Senders : sender'[p].at = "recording" => sender[p].at = "recording",
           event'.status # "none" => event'.attempts = event.attempts
    PROVE  SendsCounted'
<1>1. sent \in Nat /\ IsFiniteSet(Posting) /\ sent + Cardinality(Posting) <= MaxAttempts
  BY DEF SendsCounted
<1>2. /\ IsFiniteSet(Posting') /\ Cardinality(Posting') <= Cardinality(Posting)
      /\ Cardinality(Posting) \in Nat /\ Cardinality(Posting') \in Nat
  BY <1>1, FS_Subset, FS_CardinalityType, Zenon
<1>3. sent' + Cardinality(Posting') <= sent + Cardinality(Posting)
      /\ sent' + Cardinality(Posting') \in Nat /\ sent + Cardinality(Posting) \in Nat
  BY <1>1, <1>2
<1>4. event'.status # "none" => event.status # "none" /\ event.attempts \in Nat
  BY Zenon DEF EventKept, EventAfterSeal, Event
<1>5. sent' + Cardinality(Posting') <= MaxAttempts
  BY <1>1, <1>3, OutboxAssumption
<1>6. ASSUME event'.status # "none"
      PROVE  sent' + Cardinality(Posting') <= event'.attempts /\ event'.attempts <= MaxAttempts
  <2>1. /\ event'.attempts = event.attempts /\ event.attempts \in Nat
        /\ sent + Cardinality(Posting) <= event.attempts /\ event.attempts <= MaxAttempts
    BY <1>4, <1>6, Zenon DEF SendsCounted
  <2> HIDE DEF Posting
  <2> QED
    BY <1>3, <2>1
<1>7. row'.phase \notin {"sealed", "none"} => sent' = 0 /\ Posting' = {}
  BY Zenon DEF SendsCounted, PhaseKept
<1>8. \A p \in Senders : sender'[p].at = "recording" => sent' > 0
  BY Zenon DEF SendsCounted
<1> QED
  BY <1>1, <1>2, <1>5, <1>6, <1>7, <1>8, Zenon DEF SendsCounted

\* What one sender turns to decides whether it is posting.
LEMMA OneSender ==
    ASSUME SendsCounted, NEW p \in Senders, NEW x \in SenderState,
           sender' = [sender EXCEPT ![p] = x]
    PROVE  /\ sender' \in [Senders -> SenderState] /\ sender'[p] = x
           /\ \A q \in Senders : q # p => sender'[q] = sender[q]
           /\ Posting' = IF x.at = "posting" THEN Posting \cup {p} ELSE Posting \ {p}
<1>1. sender \in [Senders -> SenderState]
  BY DEF SendsCounted
<1>2. /\ sender' \in [Senders -> SenderState] /\ sender'[p] = x
      /\ \A q \in Senders : q # p => sender'[q] = sender[q]
  BY <1>1, Zenon
<1> QED
  BY <1>2, Zenon DEF Posting

\* A sender that stops, or that finds no secret, posts no more.
LEMMA StopKeepsCount ==
    ASSUME SendsCounted, EventAfterSeal, EventKept, PhaseKept, sent' = sent,
           NEW p \in Senders, NEW x \in SenderState, sender' = [sender EXCEPT ![p] = x],
           x.at \in {"idle", "refused"},
           event'.status # "none" => event'.attempts = event.attempts
    PROVE  SendsCounted'
<1>1. /\ sender' \in [Senders -> SenderState] /\ sender'[p] = x
      /\ \A q \in Senders : q # p => sender'[q] = sender[q]
      /\ Posting' \subseteq Posting
  BY OneSender, Zenon
<1>2. \A q \in Senders : sender'[q].at = "recording" => sender[q].at = "recording"
  BY <1>1, Zenon
<1> QED
  BY <1>1, <1>2, FewerPosting, Zenon

\* claim_due_events: the new lease takes the next attempt with it.
LEMMA ClaimKeepsCount ==
    ASSUME SendsCounted, EventAfterSeal, EventKept, PhaseKept,
           NEW p \in Senders, ClaimEvent(p)
    PROVE  SendsCounted'
<1> DEFINE at == IF hook = "enabled" THEN "posting" ELSE "refused"
           x == [at |-> at, attempt |-> event.attempts + 1, ok |-> FALSE]
<1>1. /\ event.status = "pending" /\ event.attempts < MaxAttempts /\ event.attempts \in Nat
      /\ sent' = sent /\ sent \in Nat /\ IsFiniteSet(Posting)
      /\ sent + Cardinality(Posting) <= event.attempts
      /\ row.phase \in {"sealed", "none"} /\ sender' = [sender EXCEPT ![p] = x]
  BY Zenon DEF ClaimEvent, SendsCounted, EventAfterSeal, Event
<1>2. x \in SenderState /\ x.at \in {"posting", "refused"}
  BY <1>1 DEF SenderState
<1> HIDE DEF x
<1>3. event'.attempts = event.attempts + 1
  BY DEF ClaimEvent, EventAfterSeal, Event
<1>4. /\ sender' \in [Senders -> SenderState] /\ sender'[p] = x
      /\ \A q \in Senders : q # p => sender'[q] = sender[q]
      /\ Posting' \subseteq Posting \cup {p}
  <2>1. /\ sender' \in [Senders -> SenderState] /\ sender'[p] = x
        /\ \A q \in Senders : q # p => sender'[q] = sender[q]
        /\ Posting' = IF x.at = "posting" THEN Posting \cup {p} ELSE Posting \ {p}
    BY <1>1, <1>2, OneSender, Zenon
  <2> HIDE DEF Posting
  <2> QED
    BY <2>1, Zenon
<1>5. /\ IsFiniteSet(Posting \cup {p})
      /\ Cardinality(Posting \cup {p}) <= Cardinality(Posting) + 1
      /\ Cardinality(Posting) \in Nat /\ Cardinality(Posting \cup {p}) \in Nat
  <2> HIDE DEF Posting
  <2>1. IsFiniteSet(Posting \cup {p}) /\ Cardinality(Posting) \in Nat
    BY <1>1, FS_AddElement, FS_CardinalityType, Zenon
  <2>2. Cardinality(Posting \cup {p})
            = IF p \in Posting THEN Cardinality(Posting) ELSE Cardinality(Posting) + 1
    BY <1>1, FS_AddElement, Zenon
  <2> QED
    BY <2>1, <2>2
<1>6. /\ IsFiniteSet(Posting') /\ Cardinality(Posting') \in Nat
      /\ Cardinality(Posting') <= Cardinality(Posting \cup {p})
  BY <1>4, <1>5, FS_Subset, FS_CardinalityType, Zenon
<1>7. /\ sent' + Cardinality(Posting') <= event'.attempts
      /\ event'.attempts <= MaxAttempts
      /\ sent' + Cardinality(Posting') <= MaxAttempts
  <2> HIDE DEF Posting
  <2> QED
    BY <1>1, <1>3, <1>5, <1>6, OutboxAssumption
<1>8. row'.phase \in {"sealed", "none"}
  BY <1>1, Zenon DEF PhaseKept
<1>9. \A q \in Senders : sender'[q].at = "recording" => sent' > 0
  BY <1>1, <1>2, <1>4, Zenon DEF SendsCounted
<1> QED
  BY <1>1, <1>4, <1>6, <1>7, <1>8, <1>9, Zenon DEF SendsCounted

\* deliver: one post to come becomes one made, and there was one to come.
LEMMA PostKeepsCount ==
    ASSUME SendsCounted, EventAfterSeal, EventKept, PhaseKept,
           NEW p \in Senders, Post(p)
    PROVE  /\ SendsCounted' /\ sent < MaxAttempts /\ sent' = sent + 1 /\ UNCHANGED event
           /\ row.phase \in {"sealed", "none"}
<1>1. /\ sent' = sent + 1 /\ event' = event /\ p \in Posting
      /\ sent \in Nat /\ IsFiniteSet(Posting) /\ sender \in [Senders -> SenderState]
  BY Zenon DEF Post, SendsCounted, Posting
<1>2. PICK ok \in BOOLEAN : sender' = [sender EXCEPT ![p].at = "recording", ![p].ok = ok]
  BY Zenon DEF Post
<1> DEFINE x == [[sender[p] EXCEPT !.at = "recording"] EXCEPT !.ok = ok]
<1>3. sender' = [sender EXCEPT ![p] = x] /\ x \in SenderState /\ x.at = "recording"
  BY <1>1, <1>2, Zenon DEF SenderState
<1> HIDE DEF x
<1>4. /\ sender' \in [Senders -> SenderState]
      /\ \A q \in Senders : q # p => sender'[q] = sender[q]
      /\ Posting' = Posting \ {p}
  BY <1>3, OneSender, Zenon
<1>5. row.phase \in {"sealed", "none"} /\ row'.phase \in {"sealed", "none"}
  BY <1>1, Zenon DEF SendsCounted, PhaseKept
<1> HIDE DEF Posting
<1>6. /\ IsFiniteSet(Posting') /\ Cardinality(Posting') = Cardinality(Posting) - 1
      /\ Cardinality(Posting) \in Nat /\ Cardinality(Posting') \in Nat
  <2>1. Cardinality(Posting \ {p})
            = IF p \in Posting THEN Cardinality(Posting) - 1 ELSE Cardinality(Posting)
    BY <1>1, FS_RemoveElement, Zenon
  <2>2. IsFiniteSet(Posting')
    BY <1>1, <1>4, FS_RemoveElement, Zenon
  <2> QED
    BY <1>1, <1>4, <2>1, <2>2, FS_CardinalityType, Zenon
<1>7. sent' + Cardinality(Posting') = sent + Cardinality(Posting) /\ sent' \in Nat /\ sent' > 0
  BY <1>1, <1>6
<1>8. sent + Cardinality(Posting) <= MaxAttempts
  BY DEF SendsCounted
<1>9. sent < MaxAttempts
  BY <1>1, <1>6, <1>8, OutboxAssumption
<1>10. SendsCounted'
  BY <1>1, <1>4, <1>5, <1>6, <1>7, Zenon DEF SendsCounted
<1> QED
  BY <1>1, <1>5, <1>9, <1>10, Zenon

\* Only the report of a sender that has posted makes an event delivered.
LEMMA DeliveredWasSent ==
    ASSUME SendsCounted, EventAfterSeal, NEW p \in Senders, RecordOutcome(p)
    PROVE  /\ UNCHANGED sent /\ sender' = [sender EXCEPT ![p] = IdleSender]
           /\ event'.attempts = event.attempts
           /\ event'.status = "delivered" => event.status = "delivered" \/ sent > 0
<1>1. event \in Event
  BY DEF EventAfterSeal
<1>2. ASSUME NEW status PROVE Ended(status).status = status /\ Ended(status).attempts = event.attempts
  BY <1>1, Zenon DEF Ended, Event
<1>3. LET e == [event EXCEPT !.owner = NoSender, !.lease = "none", !.due = FALSE]
      IN  e.status = event.status /\ e.attempts = event.attempts
  BY <1>1, Zenon DEF Event
<1>4. \A n : Retried(n).attempts = event.attempts
             /\ (Retried(n).status = "delivered" => event.status = "delivered")
  BY <1>2, <1>3, Zenon DEF Retried
<1>5. /\ UNCHANGED sent /\ sender' = [sender EXCEPT ![p] = IdleSender]
      /\ \/ event' = event
         \/ event' = Ended("failed")
         \/ event' = Ended("delivered") /\ sender[p].at = "recording"
         \/ event' = Retried(sender[p].attempt)
  BY DEF RecordOutcome
<1>6. sender[p].at = "recording" => sent > 0
  BY Zenon DEF SendsCounted
<1>7. event'.attempts = event.attempts
  BY <1>2, <1>4, <1>5
<1>8. event'.status = "delivered" => event.status = "delivered" \/ sent > 0
  BY <1>2, <1>4, <1>5, <1>6
<1> QED
  BY <1>5, <1>7, <1>8

\* What a step that posts nothing may make of the event, as the promise has it.
PromisedFate ==
    /\ sent' = sent
    /\ \/ EventOutcome' = EventOutcome
       \/ EventOutcome = "none" /\ EventOutcome' \in {"pending", "gone"}
       \/ /\ EventOutcome = "pending" /\ EventOutcome' \in {"delivered", "failed"}
          /\ EventOutcome' = "delivered" => sent > 0
       \/ EventOutcome # "none" /\ EventOutcome' = "gone"

\* An event that is kept meets its fate as promised.
LEMMA KeptAsPromised ==
    ASSUME EventAfterSeal, EventKept, PhaseKept, sent' = sent,
           event'.status = "delivered" => event.status = "delivered" \/ sent > 0
    PROVE  PromisedFate
<1>1. /\ event \in Event /\ event' \in Event
      /\ event.status \in {"none", "pending", "delivered", "failed"}
      /\ event'.status \in {"none", "pending", "delivered", "failed"}
      /\ event.status # "none" => row.phase \in {"sealed", "none"} /\ row'.phase \in {"sealed", "none"}
  BY Zenon DEF EventAfterSeal, EventKept, Event, PhaseKept
<1>2. event.status = "none" => event'.status = "none"
  BY DEF EventKept
<1>3. event.status \in {"delivered", "failed"} => event'.status \in {"none", event.status}
  BY NoEventIsEvent DEF EventKept
<1>4. row.phase \in {"sealed", "none"} => row'.phase \in {"sealed", "none"}
  BY DEF PhaseKept
<1>5. CASE event.status = "none"
  BY <1>2, <1>4, <1>5 DEF PromisedFate, EventOutcome
<1>6. CASE event.status = "pending"
  BY <1>1, <1>6 DEF PromisedFate, EventOutcome
<1>7. CASE event.status \in {"delivered", "failed"}
  BY <1>1, <1>3, <1>7 DEF PromisedFate, EventOutcome
<1> QED
  BY <1>1, <1>5, <1>6, <1>7

\* A fate as promised is a step of the promise, or none.
LEMMA FateIsPromised ==
    ASSUME PromisedFate
    PROVE  [Outbox!Next]_<<EventOutcome, sent>>
<1> HIDE DEF EventOutcome
<1> QED
  BY DEF PromisedFate, Outbox!Next, Outbox!Announce, Outbox!Decide, Outbox!Remove

\* Each step of a sender keeps the count and the promise.
LEMMA DeliveryKeepsPromise ==
    ASSUME EventAfterSeal, SendsCounted, EventKept, PhaseKept,
           NEW p \in Senders, Deliver(p) \/ SenderDies(p)
    PROVE  SendsCounted' /\ [Outbox!Next]_<<EventOutcome, sent>>
<1>1. CASE ClaimEvent(p)
  <2>1. event'.status = event.status /\ sent' = sent
    BY <1>1, Zenon DEF ClaimEvent, EventAfterSeal, Event
  <2> QED
    BY <1>1, <2>1, ClaimKeepsCount, KeptAsPromised, FateIsPromised, Zenon
<1>2. CASE Post(p)
  <2>1. /\ SendsCounted' /\ sent < MaxAttempts /\ sent' = sent + 1
        /\ EventOutcome' = EventOutcome
    BY <1>2, PostKeepsCount DEF EventOutcome, PhaseKept
  <2>2. EventOutcome # "none"
    BY <1>2, PostKeepsCount DEF EventOutcome
  <2> HIDE DEF EventOutcome
  <2> QED
    BY <2>1, <2>2, Zenon DEF Outbox!Next, Outbox!Send
<1>3. CASE SecretUnreadable(p)
  <2> DEFINE x == [sender[p] EXCEPT !.at = "refused"]
  <2>1. event' = event /\ sent' = sent /\ sender' = [sender EXCEPT ![p] = x]
    BY <1>3, Zenon DEF SecretUnreadable
  <2>2. x \in SenderState /\ x.at = "refused"
    BY DEF SendsCounted, SenderState
  <2> HIDE DEF x
  <2> QED
    BY <2>1, <2>2, StopKeepsCount, KeptAsPromised, FateIsPromised, Zenon
<1>4. IdleSender \in SenderState /\ IdleSender.at = "idle"
  BY DEF IdleSender, SenderState
<1>5. CASE SenderDies(p)
  <2>1. event' = event /\ sent' = sent /\ sender' = [sender EXCEPT ![p] = IdleSender]
    BY <1>5, Zenon DEF SenderDies
  <2> QED
    BY <1>4, <2>1, StopKeepsCount, KeptAsPromised, FateIsPromised, Zenon
<1>6. CASE RecordOutcome(p)
  BY <1>4, <1>6, DeliveredWasSent, StopKeepsCount, KeptAsPromised, FateIsPromised, Zenon
<1> QED
  BY <1>1, <1>2, <1>3, <1>5, <1>6, Zenon DEF Deliver

\* So does every step of the batch and its outbox, and of both together.
LEMMA StepKeepsPromise ==
    ASSUME FileBatchIInv, SendsCounted, [FileBatchNext]_fileBatchVars
    PROVE  SendsCounted' /\ [Outbox!Next]_<<EventOutcome, sent>>
<1>1. EventAfterSeal
  BY DEF FileBatchIInv
<1>2. ASSUME NEW p \in Processes, EndSeal(p)
      PROVE  SendsCounted' /\ PromisedFate
  <2>1. /\ UNCHANGED <<sender, sent>> /\ event.status = "none" /\ row.phase = "sealing"
        /\ row'.phase = "sealed"
        /\ event'.status # "none" => event'.status = "pending" /\ event'.attempts = 0
    BY <1>2, EndSealKeeps, Zenon
  <2>2. sent = 0 /\ Posting = {} /\ Posting' = Posting
    BY <2>1 DEF SendsCounted, Posting
  <2>3. EventOutcome = "none" /\ EventOutcome' \in {"pending", "gone"}
    BY <2>1 DEF EventOutcome
  <2>4. sent' + Cardinality(Posting') = 0 /\ IsFiniteSet(Posting')
    BY <2>1, <2>2, FS_EmptySet
  <2>5. event'.status # "none"
           => sent' + Cardinality(Posting') <= event'.attempts /\ event'.attempts <= MaxAttempts
    BY <2>1, <2>4, OutboxAssumption
  <2>6. sent' + Cardinality(Posting') <= MaxAttempts
    BY <2>4, OutboxAssumption
  <2> QED
    BY <2>1, <2>2, <2>3, <2>4, <2>5, <2>6, Zenon DEF SendsCounted, PromisedFate
<1>3. CASE EventKept /\ PhaseKept /\ Unsent
  <2>1. /\ UNCHANGED <<sender, sent>> /\ sender \in [Senders -> SenderState]
        /\ event'.status # "none" => event'.attempts = event.attempts
        /\ event'.status = "delivered" => event.status = "delivered"
    BY <1>3, Zenon DEF Unsent, SendsCounted
  <2>2. Posting' \subseteq Posting /\ sender' \in [Senders -> SenderState]
    BY <2>1, Zenon DEF Posting
  <2> QED
    BY <1>1, <1>3, <2>1, <2>2, FewerPosting, KeptAsPromised, FateIsPromised, Zenon
<1>4. CASE EventKept /\ PhaseKept /\ \E p \in Senders : Deliver(p) \/ SenderDies(p)
  BY <1>1, <1>4, DeliveryKeepsPromise, Zenon
<1> QED
  BY <1>2, <1>3, <1>4, StepKinds, FateIsPromised, Zenon

\* At first nothing is sent and the promise has nothing to keep.
LEMMA InitKeepsPromise ==
    ASSUME FileBatchInit
    PROVE  SendsCounted /\ Outbox!Init
<1>1. /\ event = NoEvent /\ sender = [p \in Senders |-> IdleSender] /\ sent = 0
      /\ row.phase \notin {"sealed", "none"}
  BY DEF FileBatchInit, OutboxInit, WorkInit
<1>2. sender \in [Senders -> SenderState] /\ \A p \in Senders : sender[p].at = "idle"
  BY <1>1 DEF IdleSender, SenderState
<1>3. Posting = {}
  BY <1>2 DEF Posting
<1>4. sent + Cardinality(Posting) <= MaxAttempts /\ IsFiniteSet(Posting)
  BY <1>1, <1>3, FS_EmptySet, OutboxAssumption
<1>5. SendsCounted
  BY <1>1, <1>2, <1>3, <1>4, NoEventIsEvent DEF SendsCounted
<1>6. Outbox!Init
  BY <1>1, NoEventIsEvent DEF Outbox!Init, EventOutcome
<1> QED
  BY <1>5, <1>6

\* Sealing, senders that stall, die or report late, the sweep and the owner
\* together do what EventPromise says of an event: one announcement, at most
\* MAX_ATTEMPTS posts of it whoever leases it, and one fate, delivered only if
\* it was posted.
THEOREM EventPromiseIsKept == FileBatchSpec => EventKeepsPromise
<1>1. FileBatchInit => SendsCounted /\ Outbox!Init
  BY InitKeepsPromise
<1>2. FileBatchIInv /\ SendsCounted /\ [FileBatchNext]_fileBatchVars
      => SendsCounted' /\ [Outbox!Next]_<<EventOutcome, sent>>
  BY StepKeepsPromise
<1> QED
  BY <1>1, <1>2, FileBatchInvariance, PTL DEF FileBatchSpec, EventKeepsPromise, Outbox!Spec

=============================================================================
