--------------------------- MODULE AdmissionProofs ---------------------------
(***************************************************************************)
(* What is admitted, for every value of the constants.                     *)
(*                                                                         *)
(* SpendLedger, for any number of requests, any costs and any window at    *)
(* least as long as the request timeout: a cost is counted once in the     *)
(* table, no gate misses one, and the requests admitted together stay      *)
(* within the quota.  For any window, the ledger implements LedgerPromise. *)
(*                                                                         *)
(* BatchAdmission, for any number of requests, keys, batches and caps: a   *)
(* key answers for the batch it created for as long as it is promised to,  *)
(* the input of a batch to be validated is never collected, an erased      *)
(* account stays empty, and the queued requests stay within the owner's    *)
(* cap.  None of the four is inductive: each leaves out the create that    *)
(* has passed its checks and not committed.  CreateOpen and QueueInv say   *)
(* what those checks and the locks held since then still guarantee when it *)
(* commits.                                                                *)
(***************************************************************************)
EXTENDS SpendLedger, BatchAdmission, Sums, TLAPS

\* A leaf that names no prover is tried with SMT, then with Zenon.
USE SMTT(30), ZenonT(30)

-----------------------------------------------------------------------------
(* SpendLedger *)

\* Where a cost is decides how often the table has it.  A batch whose outcome
\* is unknown is in the table at most once: transactions in doubt are disjoint
\* and have not committed.
Accounted ==
    /\ \A r \in Requests :
        /\ place[r] \in {"none", "pending"} => counter[r] = 0
        /\ place[r] = "landed" => counter[r] = 1
        /\ place[r] = "writing" => counter[r] = IF writer = "committed" THEN 1 ELSE 0
        /\ place[r] = "writing" => writer \in {"sent", "committed"}
        /\ place[r] = "unknown" => counter[r] \in {0, 1}
    /\ \A t \in doubtful : \A r \in t : place[r] = "unknown" /\ counter[r] = 0
    /\ \A t, u \in doubtful : t # u => t \cap u = {}

\* A write confirmed before a gate noted its read_at is in what the gate read.
ReadInTime ==
    \A r, q \in Requests :
        stage[r] = "checked" /\ place[q] = "landed" /\ since[q] > waited[r] => seen[r][q] > 0

IInv == TypeOK /\ Accounted /\ ReadInTime

-----------------------------------------------------------------------------
\* A ledger that has just been made satisfies the invariant.
LEMMA InitIInv == Init => IInv
<1> SUFFICES ASSUME Init
             PROVE  IInv
  OBVIOUS
<1>1. TypeOK
  <2>1. NothingRead \in [Requests -> Nat]
    BY DEF NothingRead
  <2>2. retry \in BOOLEAN
    BY Zenon DEF Init
  <2>3. QED
    BY <2>1, <2>2, LedgerAssumption, SMT DEF Init, TypeOK
<1>2. Accounted
  BY DEF Init, Accounted
<1>3. ReadInTime
  BY DEF Init, ReadInTime
<1>4. QED
  BY <1>1, <1>2, <1>3 DEF IInv

\* Every step keeps the types.
LEMMA TypeStep == TypeOK /\ [Next]_vars => TypeOK'
<1> SUFFICES ASSUME TypeOK, [Next]_vars
             PROVE  TypeOK'
  OBVIOUS
<1> USE LedgerAssumption
<1>1. ASSUME NEW r \in Requests, NEW s \in {"ended", "running"}, GateEnds(r, s)
      PROVE  /\ stage' \in [Requests -> {"idle", "gating", "checked", "running", "ended"}]
             /\ waited' \in [Requests -> 0 .. Timeout]
             /\ seen' \in [Requests -> [Requests -> Nat]]
  <2>1. NothingRead \in [Requests -> Nat]
    BY DEF NothingRead
  <2>2. stage' \in [Requests -> {"idle", "gating", "checked", "running", "ended"}]
    BY <1>1 DEF GateEnds, TypeOK
  <2>3. waited' \in [Requests -> 0 .. Timeout]
    BY <1>1 DEF GateEnds, TypeOK
  <2>4. seen' \in [Requests -> [Requests -> Nat]]
    BY <1>1, <2>1, Zenon DEF GateEnds, TypeOK
  <2>5. QED
    BY <2>2, <2>3, <2>4
<1>2. CASE \E r \in Requests : GateBegins(r) \/ Release(r)
  BY <1>2 DEF GateBegins, Release, TypeOK, ledger
<1>3. CASE \E r \in Requests : GateReads(r)
  BY <1>3 DEF GateReads, TypeOK, ledger
<1>4. CASE \E r \in Requests : GateRefuses(r) \/ Admit(r) \/ GateAbandoned(r)
  <2>1. PICK r \in Requests : GateRefuses(r) \/ Admit(r) \/ GateAbandoned(r)
    BY <1>4
  <2>2. PICK s \in {"ended", "running"} : GateEnds(r, s)
    BY <2>1 DEF GateRefuses, Admit, GateAbandoned
  <2>3. QED
    BY <1>1, <2>1, <2>2, Zenon DEF GateRefuses, Admit, GateAbandoned, TypeOK, ledger
<1>5. CASE \E r \in Requests, c \in Costs : Record(r, c)
  BY <1>5 DEF Record, StartWrite, TypeOK, gates
<1>6. CASE Writes
  <2>1. CASE WriterTakes
    BY <2>1 DEF WriterTakes, Moved, TypeOK, gates
  <2>2. CASE Commits
    BY <2>2 DEF Commits, Added, TypeOK, gates, ledger
  <2>3. CASE Landed
    BY <2>3 DEF Landed, Moved, TypeOK, gates
  <2>4. CASE Failed
    BY <2>4 DEF Failed, Moved, TypeOK, gates
  <2>5. CASE Unknown
    BY <2>5 DEF Unknown, Moved, At, TypeOK, gates
  <2>6. CASE WriteFinished
    BY <2>6 DEF WriteFinished, StartWrite, TypeOK, gates, ledger
  <2>7. QED
    BY <1>6, <2>1, <2>2, <2>3, <2>4, <2>5, <2>6 DEF Writes
<1>7. CASE \E batch \in doubtful, commits \in BOOLEAN : LateEnd(batch, commits)
  BY <1>7 DEF LateEnd, Added, TypeOK, gates, ledger
<1>8. CASE RetryNow
  BY <1>8, Zenon DEF RetryNow, StartWrite, TypeOK, gates, ledger
<1>9. CASE FlushBegins \/ FlushTurn \/ FlushResumes \/ FlushGivesUp
  BY <1>9, Zenon DEF FlushBegins, FlushTurn, FlushResumes, FlushGivesUp, StartWrite, TypeOK, gates, ledger
<1>10. CASE Tick
  BY <1>10 DEF Tick, Older, TypeOK
<1>11. CASE UNCHANGED vars
  BY <1>11 DEF vars, TypeOK
<1>12. QED
  BY <1>2, <1>3, <1>4, <1>5, <1>6, <1>7, <1>8, <1>9, <1>10, <1>11 DEF Next

\* Every step keeps costs and table accounted for.
LEMMA AccountedStep == TypeOK /\ Accounted /\ [Next]_vars => Accounted'
<1> SUFFICES ASSUME TypeOK, Accounted, [Next]_vars
             PROVE  Accounted'
  OBVIOUS
<1>1. CASE UNCHANGED <<place, counter, doubtful, writer>>
  BY <1>1 DEF Accounted
<1>2. CASE \E r \in Requests :
             \/ GateBegins(r) \/ GateReads(r) \/ GateRefuses(r) \/ Admit(r)
             \/ GateAbandoned(r) \/ Release(r)
  BY <1>1, <1>2 DEF GateBegins, GateReads, GateRefuses, Admit, GateAbandoned, Release, ledger
<1>3. CASE \E r \in Requests, c \in Costs : Record(r, c)
  BY <1>3 DEF Record, StartWrite, Accounted, TypeOK, gates
<1>4. CASE WriterTakes
  BY <1>4 DEF WriterTakes, Moved, Accounted, TypeOK
<1>5. CASE Commits
  BY <1>5 DEF Commits, Added, At, Accounted, TypeOK, ledger
<1>6. CASE Landed
  BY <1>6 DEF Landed, Moved, Accounted, TypeOK
<1>7. CASE Failed
  BY <1>7 DEF Failed, Moved, Accounted, TypeOK
<1>8. CASE Unknown
  <2>1. \A r \in Requests :
          /\ place'[r] = IF place[r] = "writing" THEN "unknown" ELSE place[r]
          /\ counter'[r] = counter[r]
    BY <1>8 DEF Unknown, Moved
  <2>2. ASSUME NEW r \in Requests
        PROVE  /\ place'[r] \in {"none", "pending"} => counter'[r] = 0
               /\ place'[r] = "landed" => counter'[r] = 1
               /\ place'[r] # "writing"
               /\ place'[r] = "unknown" => counter'[r] \in {0, 1}
    BY <2>1 DEF Accounted
  <2>3. \A t \in doubtful' : t \in doubtful \/ (t = At("writing") /\ writer = "sent")
    BY <1>8 DEF Unknown
  <2>4. \A t \in doubtful' : \A r \in t : place'[r] = "unknown" /\ counter'[r] = 0
    BY <2>1, <2>3 DEF At, Accounted, TypeOK
  <2>5. \A t \in doubtful : t \cap At("writing") = {}
    BY DEF At, Accounted
  <2>6. \A t, u \in doubtful' : t # u => t \cap u = {}
    BY <2>3, <2>5 DEF Accounted
  <2>7. QED
    BY <2>2, <2>4, <2>6 DEF Accounted
<1>9. CASE WriteFinished
  BY <1>9 DEF WriteFinished, StartWrite, Accounted, gates, ledger
<1>10. CASE \E batch \in doubtful, commits \in BOOLEAN : LateEnd(batch, commits)
  <2>1. PICK batch \in doubtful, commits \in BOOLEAN : LateEnd(batch, commits)
    BY <1>10
  <2>2. /\ \A r \in Requests : counter'[r] = IF commits /\ r \in batch THEN counter[r] + 1 ELSE counter[r]
        /\ doubtful' = doubtful \ {batch}
        /\ UNCHANGED <<place, writer>>
    BY <2>1 DEF LateEnd, Added, ledger
  <2>3. \A r \in batch : r \in Requests /\ place[r] = "unknown" /\ counter[r] = 0
    BY DEF Accounted, TypeOK
  <2>4. \A t \in doubtful' : \A r \in t : r \in Requests /\ r \notin batch
    BY <2>2 DEF Accounted, TypeOK
  <2>5. QED
    BY <2>2, <2>3, <2>4 DEF Accounted, TypeOK
<1>11. CASE RetryNow
  BY <1>11 DEF RetryNow, StartWrite, Accounted, gates, ledger
<1>12. CASE FlushBegins \/ FlushTurn \/ FlushResumes \/ FlushGivesUp
  BY <1>12 DEF FlushBegins, FlushTurn, FlushResumes, FlushGivesUp, StartWrite, Accounted, gates, ledger
<1>13. CASE Tick
  BY <1>1, <1>13 DEF Tick
<1>14. CASE UNCHANGED vars
  BY <1>1, <1>14 DEF vars
<1>15. QED
  BY <1>2, <1>3, <1>4, <1>5, <1>6, <1>7, <1>8, <1>9, <1>10, <1>11, <1>12, <1>13, <1>14, ZenonT(40)
     DEF Next, Writes

\* Every step keeps a gate's reading no older than its read_at.
LEMMA ReadStep == IInv /\ [Next]_vars => ReadInTime'
<1> SUFFICES ASSUME TypeOK, Accounted, ReadInTime, [Next]_vars
             PROVE  ReadInTime'
  BY DEF IInv
<1> USE LedgerAssumption
<1>1. CASE UNCHANGED <<gates, place, since>>
  BY <1>1 DEF ReadInTime, gates
<1>2. ASSUME NEW r \in Requests, NEW s \in {"ended", "running"}, GateEnds(r, s),
             UNCHANGED ledger
      PROVE  ReadInTime'
  BY <1>2 DEF GateEnds, ReadInTime, TypeOK, ledger
<1>3. CASE \E r \in Requests : GateBegins(r) \/ Release(r)
  BY <1>3 DEF GateBegins, Release, ReadInTime, TypeOK, ledger
<1>4. CASE \E r \in Requests : GateReads(r)
  BY <1>4 DEF GateReads, Accounted, ReadInTime, TypeOK, ledger
<1>5. CASE \E r \in Requests : GateRefuses(r) \/ Admit(r) \/ GateAbandoned(r)
  <2>1. PICK r \in Requests : GateRefuses(r) \/ Admit(r) \/ GateAbandoned(r)
    BY <1>5
  <2>2. PICK s \in {"ended", "running"} : GateEnds(r, s)
    BY <2>1 DEF GateRefuses, Admit, GateAbandoned
  <2>3. QED
    BY <1>2, <2>1, <2>2 DEF GateRefuses, Admit, GateAbandoned
<1>6. CASE \E r \in Requests, c \in Costs : Record(r, c)
  BY <1>6 DEF Record, ReadInTime, TypeOK, gates
<1>7. CASE WriterTakes \/ Failed \/ Unknown
  BY <1>7 DEF WriterTakes, Failed, Unknown, Moved, ReadInTime, TypeOK, gates
<1>8. CASE Landed
  BY <1>8 DEF Landed, Moved, ReadInTime, TypeOK, gates
<1>9. CASE Commits \/ WriteFinished \/ RetryNow
  BY <1>1, <1>9, Zenon DEF Commits, WriteFinished, RetryNow, ledger
<1>10. CASE \E batch \in doubtful, commits \in BOOLEAN : LateEnd(batch, commits)
  BY <1>1, <1>10 DEF LateEnd, ledger
<1>11. CASE FlushBegins \/ FlushTurn \/ FlushResumes \/ FlushGivesUp
  BY <1>1, <1>11 DEF FlushBegins, FlushTurn, FlushResumes, FlushGivesUp, ledger
<1>12. CASE Tick
  BY <1>12 DEF Tick, Older, ReadInTime, TypeOK
<1>13. CASE UNCHANGED vars
  BY <1>1, <1>13 DEF vars, gates
<1>14. QED
  BY <1>3, <1>4, <1>5, <1>6, <1>7, <1>8, <1>9, <1>10, <1>11, <1>12, <1>13 DEF Next, Writes

\* The invariant holds in every reachable state.
LEMMA Invariance == Spec => []IInv
<1>1. IInv /\ [Next]_vars => IInv'
  BY TypeStep, AccountedStep, ReadStep DEF IInv
<1>2. QED
  BY InitIInv, <1>1, PTL DEF Spec

-----------------------------------------------------------------------------
\* The ledger's state keeps its types.
THEOREM LedgerTypeCorrect == Spec => []TypeOK
BY Invariance, PTL DEF IInv

\* increment_user_costs, its retries and its unknown outcomes charge an account
\* once at most, and exactly once for what _land takes off the ledger.
THEOREM LedgerCountsOnce == Spec => []CountedOnce
<1>1. IInv => CountedOnce
  BY DEF IInv, Accounted, CountedOnce, TypeOK
<1>2. QED
  BY Invariance, <1>1, PTL

\* A cost is known exactly when it is recorded.
Recorded == \A r \in Requests : cost[r] = 0 <=> place[r] = "none"

\* A step that neither records nor charges nor lands a cost is none of the promise.
LEMMA BooksUntouched ==
    ASSUME Recorded, UNCHANGED <<cost, counter>>, NEW from \in {"pending", "writing"},
           NEW to \in {"pending", "writing", "unknown"}, place' = Moved(from, to) \/ UNCHANGED place
    PROVE  Recorded' /\ [Books!Next]_<<cost, counter, At("landed")>>
<1>1. \A r \in Requests : /\ place'[r] = "none" <=> place[r] = "none"
                          /\ place'[r] = "landed" <=> place[r] = "landed"
  BY DEF Moved
<1>2. Recorded' /\ At("landed")' = At("landed")
  BY <1>1 DEF Recorded, At
<1> QED
  BY <1>2

\* Every step of the ledger is one of its promise, or none.
LEMMA BooksStep ==
    ASSUME IInv, Recorded, [Next]_vars
    PROVE  Recorded' /\ [Books!Next]_<<cost, counter, At("landed")>>
<1>1. TypeOK /\ Accounted
  BY DEF IInv
<1>2. CASE UNCHANGED <<place, cost, counter>>
  BY <1>2, BooksUntouched
<1>3. CASE \/ \E r \in Requests : \/ GateBegins(r) \/ GateReads(r) \/ GateRefuses(r)
                                  \/ Admit(r) \/ GateAbandoned(r) \/ Release(r)
           \/ WriteFinished \/ RetryNow
           \/ FlushBegins \/ FlushTurn \/ FlushResumes \/ FlushGivesUp
           \/ Tick \/ UNCHANGED vars
  <2>1. UNCHANGED <<place, cost, counter>>
    BY <1>3, Zenon
       DEF GateBegins, GateReads, GateRefuses, Admit, GateAbandoned, Release, WriteFinished,
           RetryNow, FlushBegins, FlushTurn, FlushResumes, FlushGivesUp, Tick, ledger, vars
  <2> QED
    BY <1>2, <2>1
<1>4. ASSUME NEW r \in Requests, NEW c \in Costs, Record(r, c)
      PROVE  Recorded' /\ [Books!Next]_<<cost, counter, At("landed")>>
  <2>1. /\ place[r] = "none" /\ place' = [place EXCEPT ![r] = "pending"]
        /\ cost' = [cost EXCEPT ![r] = c] /\ counter' = counter /\ c # 0
    BY <1>4, LedgerAssumption DEF Record
  <2>2. \A q \in Requests : /\ cost'[q] = IF q = r THEN c ELSE cost[q]
                            /\ place'[q] = IF q = r THEN "pending" ELSE place[q]
    BY <1>1, <2>1, Zenon DEF TypeOK
  <2>3. Recorded' /\ At("landed")' = At("landed") /\ cost[r] = 0
    BY <2>1, <2>2 DEF Recorded, At
  <2>4. Books!Owe(r, c)
    BY <2>1, <2>3, Zenon DEF Books!Owe
  <2> QED
    BY <2>3, <2>4, Zenon DEF Books!Next
<1>5. CASE WriterTakes \/ Failed \/ Unknown
  <2>1. /\ UNCHANGED <<cost, counter>>
        /\ \/ place' = Moved("pending", "writing")
           \/ place' = Moved("writing", "pending")
           \/ place' = Moved("writing", "unknown")
    BY <1>5, Zenon DEF WriterTakes, Failed, Unknown
  <2> QED
    BY <2>1, BooksUntouched
<1>6. ASSUME NEW batch \in SUBSET Requests, UNCHANGED ledger, counter' = Added(batch),
             \A r \in batch : place[r] # "none" /\ counter[r] = 0
      PROVE  Recorded' /\ [Books!Next]_<<cost, counter, At("landed")>>
  <2>1. Recorded' /\ UNCHANGED <<cost, At("landed")>>
    BY <1>6 DEF Recorded, At, ledger
  <2>2. \A r \in batch : cost[r] # 0 /\ counter[r] = 0
    BY <1>6 DEF Recorded
  <2>3. counter' = [r \in Requests |-> IF r \in batch THEN 1 ELSE counter[r]]
    BY <1>6 DEF Added
  <2>4. Books!Charge(batch)
    BY <2>1, <2>2, <2>3, Zenon DEF Books!Charge
  <2> QED
    BY <2>1, <2>4, Zenon DEF Books!Next
<1>7. CASE Commits
  <2>1. /\ UNCHANGED ledger /\ counter' = Added(At("writing")) /\ At("writing") \in SUBSET Requests
        /\ \A r \in At("writing") : place[r] # "none" /\ counter[r] = 0
    BY <1>1, <1>7 DEF Commits, At, Accounted
  <2> QED
    BY <1>6, <2>1, Zenon
<1>8. CASE Landed
  <2>1. place' = Moved("writing", "landed") /\ UNCHANGED <<cost, counter>> /\ writer = "committed"
    BY <1>8, Zenon DEF Landed
  <2>2. Recorded' /\ At("landed")' = At("landed") \cup At("writing")
    BY <2>1 DEF Moved, Recorded, At
  <2>3. At("writing") \in SUBSET Requests /\ \A r \in At("writing") : counter[r] = 1
    BY <1>1, <2>1 DEF At, Accounted
  <2>4. Books!Close(At("writing"))
    BY <2>1, <2>2, <2>3, Zenon DEF Books!Close
  <2> QED
    BY <2>2, <2>3, <2>4, Zenon DEF Books!Next
<1>9. ASSUME NEW batch \in doubtful, NEW commits \in BOOLEAN, LateEnd(batch, commits)
      PROVE  Recorded' /\ [Books!Next]_<<cost, counter, At("landed")>>
  <2>1. /\ UNCHANGED ledger /\ batch \in SUBSET Requests
        /\ counter' = Added(batch) \/ counter' = counter
        /\ \A r \in batch : place[r] # "none" /\ counter[r] = 0
    BY <1>1, <1>9 DEF LateEnd, Accounted, TypeOK
  <2>2. CASE counter' = counter
    BY <1>2, <2>1, <2>2, Zenon DEF ledger
  <2> QED
    BY <1>6, <2>1, <2>2, Zenon
<1> QED
  BY <1>3, <1>4, <1>5, <1>7, <1>8, <1>9, Zenon DEF Next, Writes

\* Whatever writes fail, are retried or are lost sight of, the ledger does what
\* LedgerPromise says: record keeps each cost once, increment_user_costs charges
\* it once at most and for good, and _land closes only what is charged.
THEOREM LedgerPromiseIsKept == Spec => LedgerKeepsPromise
<1>1. Init => Recorded /\ Books!Init
  BY DEF Init, Recorded, Books!Init, At
<1>2. IInv /\ Recorded /\ [Next]_vars => Recorded' /\ [Books!Next]_<<cost, counter, At("landed")>>
  BY BooksStep
<1> QED
  BY <1>1, <1>2, Invariance, PTL DEF Spec, LedgerKeepsPromise, Books!Spec

\* While the window is at least as long as a request may wait, no gate admits on
\* a sum that leaves out a recorded cost.
THEOREM LedgerGatesMissNothing ==
    ASSUME Timeout <= Window
    PROVE  Spec => []GatesMissNothing
<1>1. IInv => GatesMissNothing
  BY LedgerAssumption
     DEF IInv, ReadInTime, GatesMissNothing, Unconfirmed, LandedSince, Kept, At, TypeOK
<1>2. QED
  BY Invariance, <1>1, PTL

-----------------------------------------------------------------------------
(* The quota *)

\* What each request counts towards the quota: its cost once it is recorded,
\* and the estimate while it runs.
Load ==
    [r \in Requests |-> IF place[r] # "none" THEN cost[r]
                        ELSE IF stage[r] = "running" THEN Estimate ELSE 0]

Frugal == \A c \in Costs : c <= Estimate

QuotaInv == Frugal => SumFunctionOnSet(Load, Requests) <= Quota

\* QuotaHeld is about these loads.
LEMMA QuotaForm == QuotaInv => QuotaHeld
BY DEF QuotaInv, QuotaHeld, Frugal, Load, SumFunction

\* Loads are whole units.
LEMMA LoadType == TypeOK => cost \in [Requests -> Nat] /\ Load \in [Requests -> Nat]
<1> SUFFICES ASSUME TypeOK PROVE cost \in [Requests -> Nat] /\ Load \in [Requests -> Nat]
  OBVIOUS
<1>1. Costs \cup {0} \subseteq Nat /\ Estimate \in Nat
  BY LedgerAssumption
<1>2. cost \in [Requests -> Nat]
  BY <1>1 DEF TypeOK
<1>3. QED
  BY <1>1, <1>2 DEF Load

\* A step that raises no load keeps the quota.
LEMMA LighterKeeps ==
    ASSUME TypeOK, TypeOK', QuotaInv, Frugal => \A r \in Requests : Load'[r] <= Load[r]
    PROVE  QuotaInv'
<1>1. SUFFICES ASSUME Frugal PROVE SumFunctionOnSet(Load', Requests) <= Quota
  BY DEF QuotaInv, Frugal
<1>2. Load \in [Requests -> Nat] /\ Load' \in [Requests -> Nat]
  <2>1. (TypeOK => Load \in [Requests -> Nat])'
    BY LoadType, PTL
  <2>2. QED
    BY <2>1, LoadType
<1>3. PICK f \in [Requests -> Nat], g \in [Requests -> Nat] : f = Load /\ g = Load'
  BY <1>2
<1>4. SumFunctionOnSet(g, Requests) <= SumFunctionOnSet(f, Requests)
  BY <1>1, <1>3, SumGrows, LedgerAssumption
<1>5. /\ SumFunctionOnSet(f, Requests) \in Nat /\ SumFunctionOnSet(g, Requests) \in Nat
      /\ SumFunctionOnSet(f, Requests) <= Quota
  BY <1>1, <1>3, SumIsNat, LedgerAssumption DEF QuotaInv
<1>6. SumFunctionOnSet(g, Requests) <= Quota
  BY <1>4, <1>5, LedgerAssumption
<1>7. QED
  BY <1>3, <1>6

\* A number times a positive one is no less.
LEMMA TimesPositive == ASSUME NEW n \in Nat, NEW c \in Nat, n > 0 PROVE n * c >= c /\ n * c \in Nat
OBVIOUS

\* What admit adds up covers every load: a recorded cost is in what the gate
\* read or among what the ledger adds, and a running request is reserved.
LEMMA GateCoversLoads ==
    ASSUME IInv, Timeout <= Window, NEW r \in Requests, Admit(r)
    PROVE  SumFunctionOnSet(Load, Requests) + Estimate <= Quota
<1> DEFINE UL == Unconfirmed \cup LandedSince(waited[r])
<1>1. PICK f \in [Requests -> Nat], c \in [Requests -> Nat], n \in [Requests -> Nat] :
          f = Load /\ c = cost /\ n = seen[r]
  <2>1. cost \in [Requests -> Nat] /\ seen[r] \in [Requests -> Nat]
    BY LoadType DEF IInv, TypeOK
  <2>2. QED
    BY <2>1, LoadType DEF IInv
<1>2. PICK L \in SUBSET Requests, R \in SUBSET Requests : L = UL /\ R = Reserved
  BY Zenon DEF Unconfirmed, At, LandedSince, Kept, Reserved
<1>3. PICK read, added, held, k :
          /\ read = [q \in Requests |-> n[q] * c[q]]
          /\ added = [q \in Requests |-> IF q \in L THEN c[q] ELSE 0]
          /\ held = [q \in Requests |-> IF q \in R THEN Estimate ELSE 0]
          /\ k = [q \in Requests |-> Estimate]
  BY Zenon
<1>4. /\ read \in [Requests -> Nat] /\ added \in [Requests -> Nat]
      /\ held \in [Requests -> Nat] /\ k \in [Requests -> Nat]
  BY <1>3, LedgerAssumption
<1>5. PICK two, all :
          /\ two = [q \in Requests |-> read[q] + added[q]]
          /\ all = [q \in Requests |-> two[q] + held[q]]
  BY Zenon
<1>6. two \in [Requests -> Nat] /\ all \in [Requests -> Nat]
  BY <1>4, <1>5
<1>7. /\ SumFunctionOnSet(two, Requests) = SumFunctionOnSet(read, Requests) + SumFunctionOnSet(added, Requests)
      /\ SumFunctionOnSet(all, Requests) = SumFunctionOnSet(two, Requests) + SumFunctionOnSet(held, Requests)
  <2>1. \A q \in Requests : two[q] = read[q] + added[q]
    BY <1>5
  <2>2. \A q \in Requests : all[q] = two[q] + held[q]
    BY <1>5
  <2>3. SumFunctionOnSet(two, Requests) = SumFunctionOnSet(read, Requests) + SumFunctionOnSet(added, Requests)
    BY <1>4, <1>6, <2>1, SumAdds, LedgerAssumption
  <2>4. SumFunctionOnSet(all, Requests) = SumFunctionOnSet(two, Requests) + SumFunctionOnSet(held, Requests)
    BY <1>4, <1>6, <2>2, SumAdds, LedgerAssumption
  <2>5. QED
    BY <2>3, <2>4
<1>8. SumFunctionOnSet(added, Requests) = SumFunctionOnSet(c, L)
  <2>1. \A q \in Requests : added[q] = IF q \in L THEN c[q] ELSE 0
    BY <1>3
  <2>2. QED
    BY <1>4, <2>1, SumOfSome, LedgerAssumption
<1>9. SumFunctionOnSet(held, Requests) = Estimate * Cardinality(R)
  <2>1. SumFunctionOnSet(held, Requests) = SumFunctionOnSet(k, R)
    <3>1. \A q \in Requests : held[q] = IF q \in R THEN k[q] ELSE 0
      BY <1>3
    <3>2. QED
      BY <1>4, <3>1, SumOfSome, LedgerAssumption
  <2>2. SumFunctionOnSet(k, R) = Estimate * Cardinality(R)
    <3>1. \A q \in R : k[q] = Estimate
      BY <1>3
    <3>2. QED
      BY <1>4, <3>1, SumOfConstant, LedgerAssumption
  <2>3. QED
    BY <2>1, <2>2
<1>10. ASSUME NEW q \in Requests PROVE f[q] <= all[q]
  <2>1. all[q] = n[q] * c[q] + added[q] + held[q] /\ added[q] \in Nat /\ held[q] \in Nat
    BY <1>3, <1>4, <1>5
  <2>2. n[q] \in Nat /\ c[q] \in Nat /\ Estimate \in Nat /\ n[q] * c[q] \in Nat
    BY LedgerAssumption
  <2>3. CASE place[q] = "none"
    <3>1. f[q] = held[q]
      BY <1>1, <1>2, <1>3, <2>3, ZenonT(40) DEF Load, Reserved
    <3>2. QED
      BY <2>1, <2>2, <3>1
  <2>4. CASE place[q] # "none" /\ q \in L
    <3>1. f[q] = c[q] /\ added[q] = c[q]
      BY <1>1, <1>3, <2>4 DEF Load
    <3>2. QED
      BY <2>1, <2>2, <3>1
  <2>5. CASE place[q] # "none" /\ q \notin L
    <3>1. n[q] > 0
      <4>1. GatesMissNothing
        BY LedgerAssumption
           DEF IInv, ReadInTime, GatesMissNothing, Unconfirmed, LandedSince, Kept, At, TypeOK
      <4>2. stage[r] = "checked"
        BY DEF Admit
      <4>3. QED
        BY <1>1, <1>2, <2>5, <4>1, <4>2, ZenonT(40) DEF GatesMissNothing
    <3>2. f[q] = c[q]
      BY <1>1, <2>5 DEF Load
    <3>3. n[q] * c[q] >= c[q]
      BY <2>2, <3>1, TimesPositive
    <3>4. QED
      BY <2>1, <2>2, <3>2, <3>3
  <2>6. QED
    BY <2>3, <2>4, <2>5
<1>11. SumFunctionOnSet(f, Requests) <= SumFunctionOnSet(all, Requests)
  BY <1>6, <1>10, SumGrows, LedgerAssumption, ZenonT(40)
<1>12. ~ (Spent(n) + Extra(waited[r]) + Estimate > Quota)
  BY <1>1, ZenonT(40) DEF Admit, Refuses
<1>13. Spent(n) = SumFunctionOnSet(read, Requests)
  BY <1>1, <1>3 DEF Spent, SumFunction
<1>14. Extra(waited[r]) = SumFunctionOnSet(c, L) + Estimate * Cardinality(R)
  BY <1>1, <1>2 DEF Extra
<1>15. /\ SumFunctionOnSet(f, Requests) \in Nat /\ SumFunctionOnSet(read, Requests) \in Nat
       /\ SumFunctionOnSet(added, Requests) \in Nat /\ SumFunctionOnSet(held, Requests) \in Nat
  BY <1>4, SumIsNat, LedgerAssumption
<1>16. SumFunctionOnSet(f, Requests) + Estimate <= Quota
  <2>1. PICK F, A, B, C :
            /\ F = SumFunctionOnSet(f, Requests) /\ A = SumFunctionOnSet(read, Requests)
            /\ B = SumFunctionOnSet(added, Requests) /\ C = SumFunctionOnSet(held, Requests)
    OBVIOUS
  <2>2. F <= (A + B) + C
    BY <1>7, <1>11, <2>1, ZenonT(40)
  <2>3. ~ (A + (B + C) + Estimate > Quota)
    BY <1>8, <1>9, <1>12, <1>13, <1>14, <2>1
  <2>4. F \in Nat /\ A \in Nat /\ B \in Nat /\ C \in Nat
    BY <1>15, <2>1
  <2>5. F + Estimate <= Quota
    BY <2>2, <2>3, <2>4, LedgerAssumption
  <2>6. QED
    BY <2>1, <2>5
<1>17. QED
  BY <1>1, <1>16

\* Admitting a request adds its estimate to the loads and nothing else.
LEMMA AdmitKeeps ==
    ASSUME IInv, TypeOK', Timeout <= Window, NEW r \in Requests, Admit(r), QuotaInv
    PROVE  QuotaInv'
<1>1. SUFFICES SumFunctionOnSet(Load', Requests) <= Quota
  BY DEF QuotaInv, Frugal
<1>2. PICK f \in [Requests -> Nat], g \in [Requests -> Nat] : f = Load /\ g = Load'
  <2>1. Load' \in [Requests -> Nat]
    <3>1. (TypeOK => Load \in [Requests -> Nat])'
      BY LoadType, PTL
    <3>2. QED
      BY <3>1
  <2>2. QED
    BY <2>1, LoadType DEF IInv
<1>3. /\ \A q \in Requests : q # r => g[q] = f[q]
      /\ g[r] <= f[r] + Estimate
  <2>1. stage' = [stage EXCEPT ![r] = "running"] /\ UNCHANGED <<place, cost>>
    BY DEF Admit, GateEnds, ledger
  <2>2. stage \in [Requests -> {"idle", "gating", "checked", "running", "ended"}]
    BY DEF IInv, TypeOK
  <2>3. \A q \in Requests : q # r => g[q] = f[q]
    BY <1>2, <2>1, <2>2 DEF Load
  <2>4. g[r] = IF place[r] # "none" THEN cost[r] ELSE Estimate
    BY <1>2, <2>1, <2>2 DEF Load
  <2>5. f[r] \in Nat /\ (place[r] # "none" => f[r] = cost[r])
    BY <1>2 DEF Load
  <2>6. QED
    BY <2>3, <2>4, <2>5, LedgerAssumption
<1>4. SumFunctionOnSet(g, Requests) + f[r] = SumFunctionOnSet(f, Requests) + g[r]
  BY <1>3, SumUpdated, LedgerAssumption
<1>5. SumFunctionOnSet(f, Requests) \in Nat /\ SumFunctionOnSet(g, Requests) \in Nat
  BY SumIsNat, LedgerAssumption
<1>6. SumFunctionOnSet(f, Requests) + Estimate <= Quota
  BY <1>2, GateCoversLoads
<1>7. f[r] \in Nat /\ g[r] \in Nat
  OBVIOUS
<1>8. SumFunctionOnSet(g, Requests) <= Quota
  BY <1>3, <1>4, <1>5, <1>6, <1>7, LedgerAssumption
<1>9. QED
  BY <1>2, <1>8

\* Every other step raises no load: a recorded cost takes the place of an
\* estimate that is no less, and writes only move costs.
LEMMA QuotaStep ==
    ASSUME IInv, TypeOK', Timeout <= Window, QuotaInv, [Next]_vars
    PROVE  QuotaInv'
<1>1. CASE \E r \in Requests : Admit(r)
  BY <1>1, AdmitKeeps
<1> USE DEF IInv
<1>2. ASSUME \A r \in Requests : Load'[r] = Load[r] PROVE QuotaInv'
  <2>1. \A r \in Requests : Load[r] \in Nat
    BY LoadType
  <2>2. QED
    BY <1>2, <2>1, LighterKeeps
<1>3. ASSUME UNCHANGED <<place, cost>>, NEW r \in Requests, NEW s, s # "running",
             stage' = [stage EXCEPT ![r] = s]
      PROVE  QuotaInv'
  <2>1. \A q \in Requests : Load'[q] = Load[q] \/ Load'[q] = 0
    BY <1>3 DEF Load, TypeOK
  <2>2. \A q \in Requests : Load[q] \in Nat
    BY LoadType
  <2>3. QED
    BY <2>1, <2>2, LighterKeeps
<1>4. CASE \E r \in Requests :
             GateBegins(r) \/ GateReads(r) \/ GateRefuses(r) \/ GateAbandoned(r) \/ Release(r)
  BY <1>3, <1>4 DEF GateBegins, GateReads, GateRefuses, GateAbandoned, Release, GateEnds, ledger
<1>5. ASSUME NEW r \in Requests, NEW c \in Costs, Record(r, c) PROVE QuotaInv'
  <2>1. /\ stage[r] = "running" /\ place[r] = "none" /\ UNCHANGED stage
        /\ place' = [place EXCEPT ![r] = "pending"] /\ cost' = [cost EXCEPT ![r] = c]
    BY <1>5 DEF Record, gates
  <2>2. \A q \in Requests : q # r => Load'[q] = Load[q]
    BY <2>1 DEF Load, TypeOK
  <2>3. Load[r] = Estimate /\ Load'[r] = c
    BY <2>1 DEF Load, TypeOK
  <2>4. \A q \in Requests : Load[q] \in Nat
    BY LoadType
  <2>5. Frugal => \A q \in Requests : Load'[q] <= Load[q]
    BY <2>2, <2>3, <2>4 DEF Frugal
  <2>6. QED
    BY <2>5, LighterKeeps
<1>6. ASSUME UNCHANGED <<stage, cost>>,
             \A r \in Requests : place'[r] = "none" <=> place[r] = "none"
      PROVE  QuotaInv'
  <2>1. \A r \in Requests : Load'[r] = Load[r]
    BY <1>6, ZenonT(40) DEF Load
  <2>2. QED
    BY <1>2, <2>1
<1>7. CASE Writes
  BY <1>6, <1>7 DEF Writes, WriterTakes, Commits, Landed, Failed, Unknown, WriteFinished, Moved,
                    gates, ledger
<1>8. CASE \/ \E batch \in doubtful, commits \in BOOLEAN : LateEnd(batch, commits)
           \/ RetryNow \/ FlushBegins \/ FlushTurn \/ FlushResumes \/ FlushGivesUp \/ Tick
           \/ UNCHANGED vars
  <2>1. UNCHANGED <<stage, place, cost>>
    BY <1>8, Zenon DEF LateEnd, RetryNow, FlushBegins, FlushTurn, FlushResumes, FlushGivesUp, Tick,
                gates, ledger, vars
  <2>2. QED
    BY <1>6, <2>1
<1>9. QED
  BY <1>1, <1>4, <1>5, <1>7, <1>8 DEF Next

\* Requests that are admitted at the same time, on readings of the table that
\* are out of date by then, do not pass the quota together, as long as none
\* costs more than the estimate.
THEOREM LedgerQuotaHeld ==
    ASSUME Timeout <= Window
    PROVE  Spec => []QuotaHeld
<1>1. Init => QuotaInv
  <2>1. SUFFICES ASSUME Init PROVE SumFunctionOnSet(Load, Requests) <= Quota
    BY DEF QuotaInv
  <2>2. PICK f \in [Requests -> Nat] : f = Load /\ \A r \in Requests : f[r] = 0
    BY <2>1 DEF Load, Init
  <2>3. SumFunctionOnSet(f, Requests) = 0 * Cardinality(Requests) /\ Cardinality(Requests) \in Nat
    BY <2>2, SumOfConstant, FS_CardinalityType, LedgerAssumption
  <2>4. QED
    BY <2>2, <2>3, LedgerAssumption
<1>2. IInv /\ IInv' /\ QuotaInv /\ [Next]_vars => QuotaInv'
  BY QuotaStep DEF IInv
<1>3. QED
  BY <1>1, <1>2, Invariance, QuotaForm, PTL DEF Spec

-----------------------------------------------------------------------------
(* BatchAdmission *)

Phases == {"none", "validating", "runnable", "sealing", "sealed"}
Statuses == {"none", "validating", "in_progress", "cancelling", "expired", "ended"}

Job ==
    [phase : Phases, status : Statuses, left : Nat, via : Vias \cup {"none"},
     deleted : BOOLEAN, key : Keys \cup {NoKey}]

KeyRecord == [batch : Nat, deleted : BOOLEAN, expires : BOOLEAN]

Client ==
    [at : {"idle", "looked", "creating"}, key : Keys \cup {NoKey},
     via : Vias \cup {"none"}, left : Nat]

Types ==
    /\ owner \in {"active", "pending", "erased"}
    /\ upload \in {"ready", "hidden", "collected"}
    /\ jobs \in [Ids -> Job]
    /\ made \in Nat /\ made <= MaxBatches
    /\ dayPast \in [Ids -> BOOLEAN]
    /\ records \in [Keys -> KeyRecord]
    /\ client \in [Clients -> Client]
    /\ locked \in Clients \cup {NoClient}

\* Every batch created under the key is more than a day past its end.
KeySpent(k) == \A b \in 1..made : jobs[b].key = k => dayPast[b]

\* The one create between its checks and its commit: the owner's row keeps the
\* account active, the key is not taken by anyone else, and the upload cannot
\* be collected.
CreateOpen ==
    /\ \A c \in Clients : client[c].at = "creating" <=> locked = c
    /\ locked # NoClient =>
          /\ owner = "active"
          /\ made < MaxBatches
          /\ client[locked].key \in Keys => KeySpent(client[locked].key)
          /\ client[locked].via # "inline" => upload # "collected"

AdmissionIInv == Types /\ CreateOpen /\ KeyHeld /\ InputHeld /\ ErasedIsEmpty

-----------------------------------------------------------------------------
(* Rows *)

\* _finalize leaves a row's key and never goes back to validating.
LEMMA Settled ==
    ASSUME NEW j \in Job
    PROVE  /\ SettledJob(j) \in Job
           /\ SettledJob(j).key = j.key
           /\ SettledJob(j).phase = "validating" => j.phase = "validating"
           /\ SettledJob(j).phase = "none" <=> j.phase = "none"
<1>1. CASE j.phase # "runnable" \/ j.left > 0
  BY <1>1 DEF SettledJob
<1>2. CASE j.phase = "runnable" /\ ~(j.left > 0) /\ j.via # "inline"
  BY <1>2 DEF SettledJob, Job, Phases
<1>3. CASE j.phase = "runnable" /\ ~(j.left > 0) /\ j.via = "inline"
  <2> DEFINE s == IF j.status = "expired" THEN j.status ELSE "ended"
  <2>1. s \in Statuses
    BY DEF Statuses
  <2>2. SettledJob(j) = [j EXCEPT !.phase = "sealed", !.status = s]
    BY <1>3 DEF SettledJob, Job
  <2> HIDE DEF s
  <2> QED
    BY <1>3, <2>1, <2>2, Zenon DEF Job, Phases
<1> QED
  BY <1>1, <1>2, <1>3

\* What is left of a row that is gone.
LEMMA Gone ==
    ASSUME NEW j \in Job
    PROVE  GoneJob(j) \in Job /\ GoneJob(j).key = j.key /\ GoneJob(j).phase = "none"
BY ZenonT(40) DEF GoneJob, NoJob, Job, Phases, Statuses

\* A step on one row that keeps its key, and neither brings a row back nor
\* makes it wait for its input again.
LEMMA JobMoves ==
    ASSUME AdmissionIInv, NEW b \in Ids, NEW j \in Job, jobs' = [jobs EXCEPT ![b] = j],
           j.key = jobs[b].key,
           j.phase = "validating" => jobs[b].phase = "validating",
           jobs[b].phase # "none",
           UNCHANGED <<owner, made, dayPast, records, upload, client, locked>>
    PROVE  AdmissionIInv'
<1>1. Types'
  BY DEF AdmissionIInv, Types
<1>2. \A d \in Ids : /\ jobs'[d].key = jobs[d].key
                     /\ jobs'[d].phase = "validating" => jobs[d].phase = "validating"
  BY DEF AdmissionIInv, Types
<1>3. 1..made \subseteq Ids
  BY AdmissionAssumption DEF Ids, AdmissionIInv, Types
<1>4. CreateOpen'
  BY <1>2, <1>3 DEF AdmissionIInv, CreateOpen, KeySpent
<1>5. KeyHeld'
  BY <1>2, <1>3, Zenon DEF AdmissionIInv, KeyHeld
<1>6. InputHeld'
  BY <1>2 DEF AdmissionIInv, InputHeld, Pinned
<1>7. ErasedIsEmpty'
  BY DEF AdmissionIInv, ErasedIsEmpty, Stored
<1> QED
  BY <1>1, <1>4, <1>5, <1>6, <1>7 DEF AdmissionIInv

-----------------------------------------------------------------------------
(* The life of a batch *)

\* StageChunk to SealBatch: a step of SetJob.
LEMMA SetJobKeeps ==
    ASSUME AdmissionIInv, NEW b \in Ids, NEW j \in Job, SetJob(b, j),
           j.key = jobs[b].key,
           j.phase = "validating" => jobs[b].phase = "validating",
           jobs[b].phase # "none"
    PROVE  AdmissionIInv'
BY Settled, JobMoves, Zenon DEF SetJob

\* The steps a batch takes after its create (staging, publishing, its requests,
\* cancellation, expiry, sealing) touch its own row only and never reopen it.
LEMMA LifeKeeps ==
    ASSUME AdmissionIInv, NEW b \in Ids,
           \/ StageChunk(b) \/ PublishBatch(b) \/ FailBatch(b) \/ FinishRequest(b)
           \/ CloseBatch(b, "cancelling") \/ CloseBatch(b, "expired") \/ SealBatch(b)
    PROVE  AdmissionIInv'
<1>1. jobs[b] \in Job /\ jobs[b].left \in Nat
  BY DEF AdmissionIInv, Types, Job
<1>2. CASE StageChunk(b)
  <2>1. [jobs[b] EXCEPT !.left = @ + 1] \in Job
    BY <1>1 DEF Job
  <2>2. jobs[b].phase = "validating" /\ SetJob(b, [jobs[b] EXCEPT !.left = @ + 1])
    BY <1>2 DEF StageChunk
  <2>3. [jobs[b] EXCEPT !.left = @ + 1].key = jobs[b].key
    BY <1>1 DEF Job
  <2> QED
    BY <2>1, <2>2, <2>3, SetJobKeeps, Zenon
<1>3. CASE PublishBatch(b)
  <2> DEFINE j == [jobs[b] EXCEPT !.phase = "runnable", !.status = "in_progress"]
  <2>1. j \in Job /\ j.key = jobs[b].key /\ j.phase = "runnable"
    BY <1>1, Zenon DEF Job, Phases, Statuses
  <2>2. jobs[b].phase # "none" /\ SetJob(b, j)
    BY <1>3, ZenonT(40) DEF PublishBatch
  <2> HIDE DEF j
  <2> QED
    BY <2>1, <2>2, SetJobKeeps
<1>4. CASE FailBatch(b)
  <2> DEFINE j == [jobs[b] EXCEPT !.phase = "sealing", !.left = 0]
  <2>1. j \in Job /\ j.key = jobs[b].key /\ j.phase = "sealing"
    BY <1>1, Zenon DEF Job, Phases, Statuses
  <2>2. jobs[b].phase # "none" /\ SetJob(b, j)
    BY <1>4, ZenonT(40) DEF FailBatch
  <2> HIDE DEF j
  <2> QED
    BY <2>1, <2>2, SetJobKeeps
<1>5. CASE FinishRequest(b)
  <2> DEFINE j == [jobs[b] EXCEPT !.left = @ - 1]
  <2>1. jobs[b].phase = "runnable" /\ jobs[b].left - 1 \in Nat /\ SetJob(b, j)
    BY <1>1, <1>5 DEF FinishRequest
  <2>2. j \in Job /\ j.key = jobs[b].key /\ j.phase = "runnable"
    BY <1>1, <2>1, ZenonT(40) DEF Job
  <2> HIDE DEF j
  <2> QED
    BY <2>1, <2>2, SetJobKeeps
<1>6. ASSUME NEW status \in {"cancelling", "expired"}, CloseBatch(b, status)
      PROVE  AdmissionIInv'
  <2>1. jobs[b].phase \in {"validating", "runnable"}
    BY <1>6, ZenonT(40) DEF CloseBatch
  <2>2. PICK running \in 0..jobs[b].left :
            SetJob(b, [jobs[b] EXCEPT !.status = status, !.left = running])
    BY <1>6, ZenonT(40) DEF CloseBatch
  <2> DEFINE j == [jobs[b] EXCEPT !.status = status, !.left = running]
  <2>3. running \in Nat /\ status \in Statuses
    BY <1>1 DEF Statuses
  <2>4. j \in Job /\ j.key = jobs[b].key /\ j.phase = jobs[b].phase
    BY <1>1, <2>3, Zenon DEF Job
  <2>5. SetJob(b, j)
    BY <2>2
  <2> HIDE DEF j
  <2> QED
    BY <2>1, <2>4, <2>5, SetJobKeeps
<1>7. CASE SealBatch(b)
  <2> DEFINE j == [jobs[b] EXCEPT !.phase = "sealed", !.status = "ended"]
  <2>1. j \in Job /\ j.key = jobs[b].key /\ j.phase = "sealed"
    BY <1>1, ZenonT(40) DEF Job, Phases, Statuses
  <2>2. jobs[b].phase # "none" /\ SetJob(b, j)
    BY <1>7 DEF SealBatch
  <2> HIDE DEF j
  <2> QED
    BY <2>1, <2>2, SetJobKeeps
<1> QED
  BY <1>2, <1>3, <1>4, <1>5, <1>6, <1>7

\* delete_batch starts the day of its key again, unless the key has gone to
\* another batch; a create that is open is never under the same key.
LEMMA DeleteKeeps ==
    ASSUME AdmissionIInv, NEW b \in Ids, DeleteJob(b)
    PROVE  AdmissionIInv'
<1> DEFINE k == jobs[b].key
           mine == k \in Keys /\ records[k].batch = b
<1>1. jobs[b] \in Job /\ jobs[b].phase # "none"
  BY DEF AdmissionIInv, Types, DeleteJob, Visible, Stored
<1>2. /\ records' = IF mine THEN [records EXCEPT ![k].deleted = TRUE, ![k].expires = TRUE]
                            ELSE records
      /\ dayPast' = IF mine THEN [dayPast EXCEPT ![b] = FALSE] ELSE dayPast
      /\ locked # NoClient => client[locked].key # k
      /\ UNCHANGED <<owner, made, upload, client, locked>>
  BY DEF DeleteJob, RecordFree
<1>3. PICK j \in Job : /\ jobs' = [jobs EXCEPT ![b] = j]
                       /\ j.key = k /\ j.phase \in {jobs[b].phase, "none"}
  <2>1. PICK read \in BOOLEAN :
            jobs' = [jobs EXCEPT ![b] = IF read THEN [jobs[b] EXCEPT !.deleted = TRUE]
                                                ELSE GoneJob(jobs[b])]
    BY Zenon DEF DeleteJob
  <2> DEFINE x == [jobs[b] EXCEPT !.deleted = TRUE]
  <2>2. x \in Job /\ x.key = k /\ x.phase = jobs[b].phase
    BY <1>1, Zenon DEF Job
  <2>3. GoneJob(jobs[b]) \in Job /\ GoneJob(jobs[b]).key = k /\ GoneJob(jobs[b]).phase = "none"
    BY <1>1, Gone
  <2>4. CASE read
    BY <2>1, <2>2, <2>4, Zenon
  <2>5. CASE ~read
    BY <2>1, <2>3, <2>5, Zenon
  <2> QED
    BY <2>4, <2>5
<1>4. records' \in [Keys -> KeyRecord] /\ \A q \in Keys : records'[q].batch = records[q].batch
  BY <1>2, ZenonT(40) DEF AdmissionIInv, Types, KeyRecord
<1>5. dayPast' \in [Ids -> BOOLEAN]
      /\ \A d \in Ids : (d = b /\ mine) \/ dayPast'[d] = dayPast[d]
  BY <1>2, Zenon DEF AdmissionIInv, Types
<1>6. \A d \in Ids : jobs'[d].key = jobs[d].key /\ jobs'[d].phase \in {jobs[d].phase, "none"}
  BY <1>3 DEF AdmissionIInv, Types
<1>7. Types'
  BY <1>2, <1>3, <1>4, <1>5 DEF AdmissionIInv, Types
<1>8. 1..made \subseteq Ids
  BY AdmissionAssumption DEF Ids, AdmissionIInv, Types
<1>9. CreateOpen'
  BY <1>2, <1>5, <1>6, <1>8, ZenonT(40) DEF AdmissionIInv, CreateOpen, KeySpent
<1>10. KeyHeld'
  BY <1>2, <1>4, <1>5, <1>6, <1>8 DEF AdmissionIInv, KeyHeld
<1>11. InputHeld'
  BY <1>2, <1>6 DEF AdmissionIInv, InputHeld, Pinned
<1>12. ErasedIsEmpty'
  BY <1>1, <1>2 DEF AdmissionIInv, ErasedIsEmpty, Stored
<1> QED
  BY <1>7, <1>9, <1>10, <1>11, <1>12 DEF AdmissionIInv

\* _purge_retained takes the row and leaves its key a record that expires.
LEMMA PurgeKeeps ==
    ASSUME AdmissionIInv, NEW b \in Ids, PurgeJob(b)
    PROVE  AdmissionIInv'
<1> DEFINE j == GoneJob(jobs[b])
<1>1. jobs[b] \in Job /\ jobs[b].phase # "none"
  BY DEF AdmissionIInv, Types, PurgeJob, Stored
<1>2. /\ jobs' = [jobs EXCEPT ![b] = j]
      /\ UNCHANGED <<owner, made, dayPast, upload, client, locked>>
  BY DEF PurgeJob
<1>3. j \in Job /\ j.key = jobs[b].key /\ j.phase = "none"
  BY <1>1, Gone
<1> HIDE DEF j
<1>4. records' \in [Keys -> KeyRecord] /\ \A q \in Keys : records'[q].batch = records[q].batch
  BY ZenonT(40) DEF PurgeJob, AdmissionIInv, Types, KeyRecord
<1>5. \A d \in Ids : jobs'[d].key = jobs[d].key /\ jobs'[d].phase \in {jobs[d].phase, "none"}
  BY <1>2, <1>3 DEF AdmissionIInv, Types
<1>6. Types'
  BY <1>2, <1>3, <1>4 DEF AdmissionIInv, Types
<1>7. 1..made \subseteq Ids
  BY AdmissionAssumption DEF Ids, AdmissionIInv, Types
<1>8. CreateOpen'
  BY <1>2, <1>5, <1>7, ZenonT(40) DEF AdmissionIInv, CreateOpen, KeySpent
<1>9. KeyHeld'
  BY <1>2, <1>4, <1>5, <1>7 DEF AdmissionIInv, KeyHeld
<1>10. InputHeld'
  BY <1>2, <1>5 DEF AdmissionIInv, InputHeld, Pinned
<1>11. ErasedIsEmpty'
  BY <1>1, <1>2 DEF AdmissionIInv, ErasedIsEmpty, Stored
<1> QED
  BY <1>6, <1>8, <1>9, <1>10, <1>11 DEF AdmissionIInv

\* A day that passes only frees keys.
LEMMA DayKeeps ==
    ASSUME AdmissionIInv, NEW b \in Ids, DayPasses(b)
    PROVE  AdmissionIInv'
<1>1. /\ dayPast' = [dayPast EXCEPT ![b] = TRUE]
      /\ UNCHANGED <<owner, jobs, made, records, upload, client, locked>>
  BY DEF DayPasses
<1>2. dayPast' \in [Ids -> BOOLEAN] /\ \A d \in Ids : dayPast[d] => dayPast'[d]
  BY <1>1, ZenonT(40) DEF AdmissionIInv, Types
<1>3. 1..made \subseteq Ids
  BY AdmissionAssumption DEF Ids, AdmissionIInv, Types
<1>4. CreateOpen'
  BY <1>1, <1>2, <1>3, ZenonT(40) DEF AdmissionIInv, CreateOpen, KeySpent
<1>5. KeyHeld'
  BY <1>1, <1>2, <1>3, ZenonT(40) DEF AdmissionIInv, KeyHeld
<1> QED
  BY <1>1, <1>2, <1>4, <1>5, ZenonT(40)
     DEF AdmissionIInv, Types, InputHeld, Pinned, ErasedIsEmpty, Stored

\* The sweep removes a record only when the day of its batch is past.
LEMMA SweepKeeps ==
    ASSUME AdmissionIInv, NEW k \in Keys, SweepRecord(k)
    PROVE  AdmissionIInv'
<1>1. UNCHANGED <<owner, jobs, made, dayPast, upload, client, locked>>
  BY DEF SweepRecord
<1>2. /\ records' \in [Keys -> KeyRecord]
      /\ \A q \in Keys : \/ records'[q].batch = records[q].batch
                         \/ dayPast[records[q].batch]
  <2>1. CASE records' = [records EXCEPT ![k].expires = TRUE]
    BY <2>1, Zenon DEF AdmissionIInv, Types, KeyRecord
  <2>2. CASE dayPast[records[k].batch] /\ records' = [records EXCEPT ![k] = NoRecord]
    <3>1. NoRecord \in KeyRecord
      BY DEF NoRecord, KeyRecord
    <3> QED
      BY <2>2, <3>1 DEF AdmissionIInv, Types
  <2> QED
    BY <2>1, <2>2 DEF SweepRecord
<1>3. KeyHeld'
  BY <1>1, <1>2, Zenon DEF AdmissionIInv, KeyHeld
<1> QED
  BY <1>1, <1>2, <1>3
     DEF AdmissionIInv, Types, CreateOpen, KeySpent, InputHeld, Pinned, ErasedIsEmpty, Stored

-----------------------------------------------------------------------------
(* Creating a batch *)

\* A create that passes under the lock finds every batch of its key more than
\* a day past: the record of any other would still be live.
LEMMA NotLiveIsSpent ==
    ASSUME AdmissionIInv, owner # "erased", NEW k \in Keys, ~KeyLive(k)
    PROVE  KeySpent(k)
<1> SUFFICES ASSUME NEW b \in 1..made, jobs[b].key = k, ~dayPast[b] PROVE FALSE
  BY DEF KeySpent
<1>1. records[k].batch = b
  BY DEF AdmissionIInv, KeyHeld
<1>2. b # 0
  OBVIOUS
<1> QED
  BY <1>1, <1>2 DEF KeyLive, Live

\* A request that is not open before or after its step.
LEMMA ClientMoves ==
    ASSUME AdmissionIInv, NEW c \in Clients, NEW x \in Client,
           client' = [client EXCEPT ![c] = x],
           client[c].at # "creating", x.at # "creating",
           UNCHANGED <<owner, jobs, made, dayPast, records, upload, locked>>
    PROVE  AdmissionIInv'
<1>1. Types'
  BY DEF AdmissionIInv, Types
<1>2. locked # c
  BY ZenonT(40) DEF AdmissionIInv, CreateOpen
<1>3. CreateOpen'
  BY <1>2, AdmissionAssumption DEF AdmissionIInv, Types, CreateOpen, KeySpent
<1> QED
  BY <1>1, <1>3 DEF AdmissionIInv, KeyHeld, InputHeld, Pinned, ErasedIsEmpty, Stored

\* A request that has not begun is one.
LEMMA IdleIsClient == IdleClient \in Client /\ IdleClient.at = "idle"
BY DEF IdleClient, Client

\* find_replay only reads: the request takes note of what it is to create.
LEMMA FindReplayKeeps ==
    ASSUME AdmissionIInv, NEW c \in Clients, FindReplay(c)
    PROVE  AdmissionIInv'
<1>1. PICK k \in Keys \cup {NoKey}, via \in Vias, n \in 0..MaxLines :
          client' = [client EXCEPT ![c] = [at |-> "looked", key |-> k, via |-> via, left |-> n]]
  BY Zenon DEF FindReplay
<1>2. n \in Nat
  BY AdmissionAssumption
<1> DEFINE x == [at |-> "looked", key |-> k, via |-> via, left |-> n]
<1>3. x \in Client /\ x.at # "creating"
  BY <1>2 DEF Client
<1>4. client' = [client EXCEPT ![c] = x]
  BY <1>1
<1> HIDE DEF x
<1> QED
  BY <1>3, <1>4, ClientMoves, Zenon DEF FindReplay

\* The checks of the create transaction establish what its commit relies on.
LEMMA BeginCreateKeeps ==
    ASSUME AdmissionIInv, NEW c \in Clients, BeginCreate(c)
    PROVE  AdmissionIInv'
<1>1. /\ client[c] \in Client /\ client[c].at = "looked" /\ locked = NoClient /\ made < MaxBatches
      /\ UNCHANGED <<owner, jobs, made, dayPast, records, upload>>
  BY DEF AdmissionIInv, Types, BeginCreate
<1>2. CASE ~Admitted(c)
  BY <1>1, <1>2, IdleIsClient, ClientMoves, ZenonT(40) DEF BeginCreate, ClientEnds
<1>3. CASE Admitted(c)
  <2> DEFINE x == [client[c] EXCEPT !.at = "creating"]
  <2>1. x \in Client /\ x.at = "creating" /\ x.key = client[c].key /\ x.via = client[c].via
    BY <1>1 DEF Client
  <2>2. client' = [client EXCEPT ![c] = x] /\ locked' = c
    BY <1>3 DEF BeginCreate, AdmissionIInv, Types
  <2> HIDE DEF x
  <2>3. owner = "active" /\ (client[c].via # "inline" => upload = "ready")
    BY <1>3, ZenonT(40) DEF Admitted, OwnerActive
  <2>4. client[c].key \in Keys => KeySpent(client[c].key)
    BY <1>3, <2>3, NotLiveIsSpent DEF Admitted, ReplayUnderLock
  <2>5. Types'
    BY <1>1, <2>1, <2>2 DEF AdmissionIInv, Types
  <2>6. client'[c] = x
    BY <2>2, ZenonT(40) DEF AdmissionIInv, Types
  <2>7. CreateOpen'
    <3>1. \A d \in Clients : client'[d].at = "creating" <=> locked' = d
      BY <1>1, <2>1, <2>2, AdmissionAssumption, ZenonT(40) DEF AdmissionIInv, Types, CreateOpen
    <3>2. /\ owner' = "active" /\ made' < MaxBatches
          /\ client'[locked'].key \in Keys => KeySpent(client[locked].key)'
          /\ client'[locked'].via # "inline" => upload' # "collected"
      BY <1>1, <2>1, <2>2, <2>3, <2>4, <2>6 DEF KeySpent
    <3> QED
      BY <3>1, <3>2 DEF CreateOpen
  <2> QED
    BY <1>1, <2>5, <2>7 DEF AdmissionIInv, KeyHeld, InputHeld, Pinned, ErasedIsEmpty, Stored
<1> QED
  BY <1>2, <1>3

\* _insert_batch: the new row is the only one of its key that still counts, its
\* input is there, and the account is not being erased.
LEMMA CommitKeeps ==
    ASSUME AdmissionIInv, NEW c \in Clients, CommitCreate(c)
    PROVE  AdmissionIInv'
<1> DEFINE b == made + 1
           r == client[c]
           j0 == [phase |-> IF r.via = "inline" THEN "runnable" ELSE "validating",
                  status |-> IF r.via = "inline" THEN "in_progress" ELSE "validating",
                  left |-> r.left, via |-> r.via, deleted |-> FALSE, key |-> r.key]
           j == SettledJob(j0)
           new == [batch |-> b, deleted |-> FALSE, expires |-> FALSE]
<1>1. /\ r \in Client /\ r.key \in Keys \cup {NoKey} /\ locked = c /\ locked # NoClient
      /\ owner = "active" /\ made < MaxBatches /\ made \in Nat
      /\ r.key \in Keys => KeySpent(r.key)
      /\ r.via # "inline" => upload # "collected"
  BY AdmissionAssumption, ZenonT(40) DEF AdmissionIInv, Types, CreateOpen, CommitCreate, Client
<1>2. b \in Ids /\ b \in Nat /\ 1..made \subseteq Ids /\ \A d \in 1..b : d = b \/ d \in 1..made
  BY <1>1, AdmissionAssumption DEF Ids
<1>3. j0 \in Job /\ j0.key = r.key /\ (j0.phase = "validating" => r.via # "inline")
  BY <1>1, ZenonT(40) DEF Job, Client, Phases, Statuses
<1>4. /\ jobs' = [jobs EXCEPT ![b] = j] /\ made' = b /\ locked' = NoClient
      /\ client' = [client EXCEPT ![c] = IdleClient]
      /\ records' = IF r.key = NoKey THEN records ELSE [records EXCEPT ![r.key] = new]
      /\ UNCHANGED <<owner, dayPast, upload>>
  BY DEF CommitCreate, ClientEnds
<1>5. new \in KeyRecord /\ new.batch = b
  BY <1>2 DEF KeyRecord
<1> HIDE DEF j0
<1>6. j \in Job /\ j.key = r.key /\ (j.phase = "validating" => r.via # "inline")
  BY <1>3, Settled, Zenon
<1> HIDE DEF b, r, j, new
<1>7. /\ jobs' \in [Ids -> Job] /\ jobs'[b] = j
      /\ \A d \in Ids : d # b => jobs'[d] = jobs[d]
  BY <1>2, <1>4, <1>6, ZenonT(40) DEF AdmissionIInv, Types
<1>8. /\ records' \in [Keys -> KeyRecord]
      /\ r.key \in Keys => records'[r.key].batch = b
      /\ \A k \in Keys : k # r.key => records'[k] = records[k]
  BY <1>1, <1>4, <1>5, AdmissionAssumption, ZenonT(40) DEF AdmissionIInv, Types
<1>9. client' \in [Clients -> Client] /\ \A d \in Clients : client'[d].at # "creating"
  BY <1>1, <1>4, IdleIsClient, ZenonT(40) DEF AdmissionIInv, Types, CreateOpen
<1>10. Types'
  BY <1>1, <1>2, <1>4, <1>7, <1>8, <1>9 DEF AdmissionIInv, Types, Ids
<1>11. CreateOpen'
  BY <1>4, <1>9, AdmissionAssumption, ZenonT(40) DEF CreateOpen
<1>12. KeyHeld'
  <2> SUFFICES ASSUME NEW d \in 1..b, jobs'[d].key \in Keys, ~dayPast'[d]
               PROVE  records'[jobs'[d].key].batch = d
    BY <1>4, ZenonT(40) DEF KeyHeld
  <2>1. CASE d = b
    BY <1>6, <1>7, <1>8, <2>1, ZenonT(40)
  <2>2. CASE d # b
    <3>1. d \in 1..made /\ jobs'[d] = jobs[d] /\ ~dayPast[d]
      BY <1>2, <1>4, <1>7, <2>2, ZenonT(40)
    <3>2. jobs[d].key # r.key
      BY <1>1, <3>1, ZenonT(40) DEF KeySpent
    <3>3. records[jobs[d].key].batch = d
      BY <1>1, <3>1, ZenonT(40) DEF AdmissionIInv, KeyHeld
    <3> QED
      BY <1>8, <3>1, <3>2, <3>3, ZenonT(40)
  <2> QED
    BY <2>1, <2>2, ZenonT(40)
<1>13. InputHeld'
  BY <1>1, <1>4, <1>6, <1>7, ZenonT(40) DEF AdmissionIInv, InputHeld, Pinned
<1>14. ErasedIsEmpty'
  BY <1>1, <1>4, ZenonT(40) DEF ErasedIsEmpty
<1> QED
  BY <1>10, <1>11, <1>12, <1>13, <1>14, ZenonT(40) DEF AdmissionIInv

\* A lost connection undoes the transaction and gives back its locks.
LEMMA AbandonKeeps ==
    ASSUME AdmissionIInv, NEW c \in Clients, AbandonCreate(c)
    PROVE  AdmissionIInv'
<1>1. /\ client' = [client EXCEPT ![c] = IdleClient]
      /\ locked' = IF locked = c THEN NoClient ELSE locked
      /\ UNCHANGED <<owner, jobs, made, dayPast, records, upload>>
  BY DEF AbandonCreate, ClientEnds
<1>2. Types'
  BY <1>1, IdleIsClient DEF AdmissionIInv, Types
<1>3. CreateOpen'
  BY <1>1, IdleIsClient, AdmissionAssumption, ZenonT(40) DEF AdmissionIInv, Types, CreateOpen, KeySpent
<1> QED
  BY <1>1, <1>2, <1>3 DEF AdmissionIInv, KeyHeld, InputHeld, Pinned, ErasedIsEmpty, Stored

-----------------------------------------------------------------------------
(* The upload and the account *)

\* Hiding and collecting the input spare an input some live batch still needs.
LEMMA UploadKeeps ==
    ASSUME AdmissionIInv, HideUpload \/ ChooseUpload \/ CollectUpload
    PROVE  AdmissionIInv'
<1>1. UNCHANGED <<owner, jobs, made, dayPast, records, client, locked>>
  BY DEF HideUpload, ChooseUpload, CollectUpload
<1>2. /\ upload' \in {"ready", "hidden", "collected"}
      /\ upload' = "collected" =>
            \/ upload = "collected"
            \/ ~Pinned /\ (locked # NoClient => client[locked].via = "inline")
  BY DEF AdmissionIInv, Types, HideUpload, ChooseUpload, CollectUpload
<1>3. Types'
  BY <1>1, <1>2 DEF AdmissionIInv, Types
<1>4. CreateOpen'
  BY <1>1, <1>2, ZenonT(40) DEF AdmissionIInv, CreateOpen, KeySpent
<1>5. InputHeld'
  BY <1>1, <1>2, Zenon DEF AdmissionIInv, InputHeld, Pinned
<1> QED
  BY <1>1, <1>3, <1>4, <1>5, ZenonT(40) DEF AdmissionIInv, KeyHeld, ErasedIsEmpty, Stored

\* The hard delete is marked before the account is erased, and erasing it takes
\* its batches, its records and its creates along.
LEMMA AccountKeeps ==
    ASSUME AdmissionIInv, MarkHardDelete \/ EraseAccount
    PROVE  AdmissionIInv'
<1>1. CASE MarkHardDelete
  BY <1>1, ZenonT(40) DEF MarkHardDelete, AdmissionIInv, Types, CreateOpen, KeySpent, KeyHeld, InputHeld,
              Pinned, ErasedIsEmpty, Stored
<1>2. CASE EraseAccount
  <2>1. /\ owner' = "erased" /\ upload' = "collected" /\ locked = NoClient
        /\ UNCHANGED <<made, dayPast, client, locked>>
    BY <1>2 DEF EraseAccount
  <2>2. \A b \in Ids : GoneJob(jobs[b]) \in Job /\ GoneJob(jobs[b]).phase = "none"
    BY Gone DEF AdmissionIInv, Types
  <2>3. jobs' \in [Ids -> Job] /\ \A b \in Ids : jobs'[b].phase = "none"
    BY <1>2, <2>2 DEF EraseAccount
  <2>4. NoRecord \in KeyRecord
    BY DEF NoRecord, KeyRecord
  <2>5. records' \in [Keys -> KeyRecord]
    BY <1>2, <2>4 DEF EraseAccount
  <2> QED
    BY <2>1, <2>3, <2>5, ZenonT(40) DEF AdmissionIInv, Types, CreateOpen, KeyHeld, InputHeld, Pinned,
                            ErasedIsEmpty, Stored
<1> QED
  BY <1>1, <1>2

-----------------------------------------------------------------------------
\* Before the first create there is no batch and no record of a key.
LEMMA AdmissionInitIInv == AdmissionInit => AdmissionIInv
<1> SUFFICES ASSUME AdmissionInit PROVE AdmissionIInv
  OBVIOUS
<1>1. NoJob \in Job /\ NoJob.phase = "none"
  BY DEF NoJob, Job, Phases, Statuses
<1>2. NoRecord \in KeyRecord
  BY DEF NoRecord, KeyRecord
<1>3. Types
  BY <1>1, <1>2, IdleIsClient, AdmissionAssumption DEF AdmissionInit, Types
<1>4. CreateOpen
  BY IdleIsClient, AdmissionAssumption DEF AdmissionInit, CreateOpen
<1>5. KeyHeld /\ ErasedIsEmpty
  BY DEF AdmissionInit, KeyHeld, ErasedIsEmpty
<1>6. InputHeld
  BY DEF AdmissionInit, InputHeld
<1> QED
  BY <1>3, <1>4, <1>5, <1>6, ZenonT(40) DEF AdmissionIInv

\* Every step of a create, a batch, a sweep or an erasure keeps the invariant.
LEMMA AdmissionStep == AdmissionIInv /\ [AdmissionNext]_admissionVars => AdmissionIInv'
<1> SUFFICES ASSUME AdmissionIInv, [AdmissionNext]_admissionVars PROVE AdmissionIInv'
  OBVIOUS
<1>1. CASE UNCHANGED admissionVars
  BY <1>1, ZenonT(40) DEF admissionVars, AdmissionIInv, Types, CreateOpen, KeySpent, KeyHeld, InputHeld,
              Pinned, ErasedIsEmpty, Stored
<1>2. CASE AdmissionNext
  BY <1>2, FindReplayKeeps, BeginCreateKeeps, CommitKeeps, AbandonKeeps, LifeKeeps, DeleteKeeps,
     PurgeKeeps, DayKeeps, SweepKeeps, UploadKeeps, AccountKeeps, ZenonT(40)
     DEF AdmissionNext
<1> QED
  BY <1>1, <1>2

\* The invariant holds throughout.
LEMMA AdmissionInvariance == AdmissionSpec => []AdmissionIInv
BY AdmissionInitIInv, AdmissionStep, PTL DEF AdmissionSpec

\* A key answers for the batch it created until a day after its end or its
\* deletion, whatever creates, deletions, purges and sweeps run beside it.
THEOREM KeyAnswersForItsBatch == AdmissionSpec => []KeyHeld
BY AdmissionInvariance, PTL DEF AdmissionIInv

\* _pin_input and collect_upload never take the file a batch waits to read.
THEOREM InputOutlivesValidation == AdmissionSpec => []InputHeld
BY AdmissionInvariance, PTL DEF AdmissionIInv

\* _lock_owner: nothing is created in an account once delete_user_batches has
\* emptied it.
THEOREM ErasedAccountIsEmpty == AdmissionSpec => []ErasedIsEmpty
BY AdmissionInvariance, PTL DEF AdmissionIInv

-----------------------------------------------------------------------------
(* The cap on queued requests *)

\* What a row adds to the queued count of _check_user_caps.
Weight(j) ==
    IF /\ ~j.deleted
       /\ j.status \in {"validating", "in_progress", "cancelling"}
       /\ j.phase \in {"validating", "runnable"}
    THEN j.left ELSE 0

Weights == [b \in Ids |-> Weight(jobs[b])]

Queued == SumFunctionOnSet(Weights, Ids)

\* An open create has been checked and is not counted yet.
QueueInv ==
    /\ caps.queued \in Nat
    /\ Queued <= caps.queued
    /\ locked # NoClient => Queued + client[locked].left <= caps.queued

\* There are finitely many rows.
LEMMA IdsFinite == IsFiniteSet(Ids)
BY FS_Interval, AdmissionAssumption DEF Ids

\* Weights are numbers.
LEMMA WeightType == ASSUME NEW j \in Job PROVE Weight(j) \in Nat /\ Weight(j) <= j.left
BY DEF Weight, Job

\* What the batches weigh is a number each.
LEMMA WeightsType == Types => Weights \in [Ids -> Nat]
<1> SUFFICES ASSUME Types PROVE Weights \in [Ids -> Nat]
  OBVIOUS
<1>1. \A b \in Ids : Weight(jobs[b]) \in Nat
  BY WeightType, ZenonT(40) DEF Types
<1>2. QED
  BY <1>1 DEF Weights

\* The count that create_batch and stage_items check is this sum.
LEMMA QueuedForm == AdmissionIInv => QueuedRequests = Queued /\ Queued \in Nat
<1> SUFFICES ASSUME AdmissionIInv PROVE QueuedRequests = Queued /\ Queued \in Nat
  OBVIOUS
<1> DEFINE counted == {b \in Ids : /\ Visible(b)
                                   /\ jobs[b].status \in {"validating", "in_progress", "cancelling"}
                                   /\ jobs[b].phase \in {"validating", "runnable"}}
<1>1. PICK g \in [Ids -> Nat] : g = Weights
  BY WeightsType DEF AdmissionIInv
<1>2. PICK f \in [Ids -> Nat] : f = [b \in Ids |-> jobs[b].left]
  BY ZenonT(40) DEF AdmissionIInv, Types, Job
<1>3. PICK T \in SUBSET Ids : T = counted
  BY Zenon
<1>4. ASSUME NEW b \in Ids PROVE g[b] = IF b \in T THEN f[b] ELSE 0
  BY <1>1, <1>2, <1>3 DEF Weights, Weight, Visible, Stored
<1>5. SumFunctionOnSet(g, Ids) = SumFunctionOnSet(f, T)
  BY <1>4, SumOfSome, IdsFinite
<1>6. SumFunctionOnSet(g, Ids) \in Nat
  BY SumIsNat, IdsFinite
<1>7. QED
  BY <1>1, <1>2, <1>3, <1>5, <1>6 DEF QueuedRequests, Queued

\* A step that makes no row heavier counts no more than before.
LEMMA LighterRows ==
    ASSUME AdmissionIInv, AdmissionIInv', \A b \in Ids : Weight(jobs'[b]) <= Weight(jobs[b])
    PROVE  Queued' <= Queued /\ Queued \in Nat /\ Queued' \in Nat
<1>1. PICK f \in [Ids -> Nat] : f = Weights
  BY WeightsType DEF AdmissionIInv
<1>2. PICK g \in [Ids -> Nat] : g = Weights'
  <2>1. (Types => Weights \in [Ids -> Nat])'
    BY WeightsType, PTL
  <2>2. QED
    BY <2>1 DEF AdmissionIInv
<1>3. \A b \in Ids : g[b] <= f[b]
  BY <1>1, <1>2 DEF Weights
<1>4. /\ SumFunctionOnSet(g, Ids) <= SumFunctionOnSet(f, Ids)
      /\ SumFunctionOnSet(g, Ids) \in Nat /\ SumFunctionOnSet(f, Ids) \in Nat
  BY <1>3, SumGrows, SumIsNat, IdsFinite, ZenonT(40)
<1>5. QED
  BY <1>1, <1>2, <1>4, ZenonT(40) DEF Queued

\* A step that makes one row heavier by n counts at most n more.
LEMMA HeavierRow ==
    ASSUME AdmissionIInv, AdmissionIInv', NEW b \in Ids, NEW n \in Nat,
           \A d \in Ids : d # b => jobs'[d] = jobs[d],
           Weight(jobs'[b]) <= Weight(jobs[b]) + n
    PROVE  Queued' <= Queued + n /\ Queued \in Nat /\ Queued' \in Nat
<1>1. PICK f \in [Ids -> Nat] : f = Weights
  BY WeightsType DEF AdmissionIInv
<1>2. PICK g \in [Ids -> Nat] : g = Weights'
  <2>1. (Types => Weights \in [Ids -> Nat])'
    BY WeightsType, PTL
  <2>2. QED
    BY <2>1 DEF AdmissionIInv
<1>3. (\A d \in Ids : d # b => g[d] = f[d]) /\ g[b] <= f[b] + n
  BY <1>1, <1>2, ZenonT(40) DEF Weights
<1>4. SumFunctionOnSet(g, Ids) + f[b] = SumFunctionOnSet(f, Ids) + g[b]
  BY <1>3, SumUpdated, IdsFinite
<1>5. /\ SumFunctionOnSet(g, Ids) \in Nat /\ SumFunctionOnSet(f, Ids) \in Nat
      /\ f[b] \in Nat /\ g[b] \in Nat
  BY SumIsNat, IdsFinite, ZenonT(40)
<1>6. SumFunctionOnSet(g, Ids) <= SumFunctionOnSet(f, Ids) + n
  BY <1>3, <1>4, <1>5
<1>7. QED
  BY <1>1, <1>2, <1>5, <1>6, ZenonT(40) DEF Queued

\* _finalize makes no row heavier.
LEMMA SettledWeight ==
    ASSUME NEW j \in Job
    PROVE  Weight(SettledJob(j)) <= Weight(j)
<1>1. CASE j.phase # "runnable" \/ j.left > 0
  <2>1. SettledJob(j) = j /\ Weight(j) \in Nat
    BY <1>1, WeightType DEF SettledJob
  <2>2. QED
    BY <2>1
<1>2. CASE j.phase = "runnable" /\ ~(j.left > 0) /\ j.via # "inline"
  <2>1. SettledJob(j).phase = "sealing"
    BY <1>2 DEF SettledJob, Job
  <2>2. Weight(SettledJob(j)) = 0 /\ Weight(j) \in Nat
    BY <2>1, WeightType DEF Weight
  <2>3. QED
    BY <2>2
<1>3. CASE j.phase = "runnable" /\ ~(j.left > 0) /\ j.via = "inline"
  <2> DEFINE s == IF j.status = "expired" THEN j.status ELSE "ended"
  <2>1. SettledJob(j) = [j EXCEPT !.phase = "sealed", !.status = s]
    BY <1>3 DEF SettledJob, Job
  <2> HIDE DEF s
  <2>2. SettledJob(j).phase = "sealed"
    BY <2>1 DEF Job
  <2>3. Weight(SettledJob(j)) = 0 /\ Weight(j) \in Nat
    BY <2>2, WeightType, ZenonT(40) DEF Weight
  <2>4. QED
    BY <2>3
<1>4. QED
  BY <1>1, <1>2, <1>3

\* Steps that change no row's weight upwards and leave the open create alone.
LEMMA QueueShrinks ==
    ASSUME AdmissionIInv, AdmissionIInv', QueueInv, \A b \in Ids : Weight(jobs'[b]) <= Weight(jobs[b]),
           UNCHANGED caps,
           locked' # NoClient => locked' = locked /\ client'[locked] = client[locked]
    PROVE  QueueInv'
<1>1. Queued' <= Queued /\ Queued \in Nat /\ Queued' \in Nat
  BY LighterRows, ZenonT(40)
<1>2. locked # NoClient => client[locked].left \in Nat
  BY DEF AdmissionIInv, Types, Client
<1>3. QED
  BY <1>1, <1>2 DEF QueueInv

\* A step of SetJob to a row that is no heavier.
LEMMA SetJobShrinks ==
    ASSUME AdmissionIInv, AdmissionIInv', QueueInv, NEW b \in Ids, NEW j \in Job,
           SetJob(b, j), Weight(j) <= Weight(jobs[b])
    PROVE  QueueInv'
<1>1. SettledJob(j) \in Job /\ jobs \in [Ids -> Job]
  BY Settled DEF AdmissionIInv, Types
<1>2. /\ jobs' = [jobs EXCEPT ![b] = SettledJob(j)] /\ UNCHANGED <<caps, locked, client>>
  BY DEF SetJob, settings
<1>3. Weight(SettledJob(j)) <= Weight(j) /\ Weight(SettledJob(j)) \in Nat /\ Weight(j) \in Nat
  BY <1>1, SettledWeight, WeightType
<1>4. \A d \in Ids : Weight(jobs[d]) \in Nat
  BY <1>1, WeightType
<1>5. jobs'[b] = SettledJob(j) /\ \A d \in Ids : d # b => jobs'[d] = jobs[d]
  BY <1>1, <1>2, ZenonT(40)
<1>6. ASSUME NEW d \in Ids PROVE Weight(jobs'[d]) <= Weight(jobs[d])
  <2>1. CASE d = b
    BY <1>3, <1>4, <1>5, <2>1
  <2>2. CASE d # b
    BY <1>4, <1>5, <2>2
  <2>3. QED
    BY <2>1, <2>2, ZenonT(40)
<1>7. QED
  BY <1>2, <1>6, QueueShrinks, ZenonT(40)

\* A validator stages one more request, under the admission lock.
LEMMA StageFits ==
    ASSUME AdmissionIInv, AdmissionIInv', QueueInv, NEW b \in Ids, StageChunk(b)
    PROVE  QueueInv'
<1> DEFINE j == [jobs[b] EXCEPT !.left = @ + 1]
<1>1. jobs[b] \in Job /\ jobs \in [Ids -> Job]
  BY DEF AdmissionIInv, Types
<1>2. j \in Job /\ Weight(j) <= Weight(jobs[b]) + 1
  BY <1>1 DEF Job, Weight
<1>3. /\ jobs' = [jobs EXCEPT ![b] = SettledJob(j)] /\ UNCHANGED <<caps, locked, client>>
      /\ locked = NoClient /\ QueuedRequests + 1 <= caps.queued
  BY ZenonT(40) DEF StageChunk, SetJob, settings
<1> HIDE DEF j
<1>4. SettledJob(j) \in Job /\ Weight(SettledJob(j)) <= Weight(j)
  BY <1>2, Settled, SettledWeight, ZenonT(40)
<1>5. Weight(j) \in Nat /\ Weight(SettledJob(j)) \in Nat /\ Weight(jobs[b]) \in Nat
  BY <1>1, <1>2, <1>4, WeightType
<1>6. jobs'[b] = SettledJob(j) /\ \A d \in Ids : d # b => jobs'[d] = jobs[d]
  BY <1>1, <1>3, ZenonT(40)
<1>7. Weight(jobs'[b]) <= Weight(jobs[b]) + 1
  BY <1>2, <1>4, <1>5, <1>6
<1>8. Queued' <= Queued + 1 /\ Queued \in Nat /\ Queued' \in Nat
  BY <1>6, <1>7, HeavierRow, ZenonT(40)
<1>9. QED
  BY <1>3, <1>8, QueuedForm DEF QueueInv

\* A create commits what its checks made room for.
LEMMA CommitFits ==
    ASSUME AdmissionIInv, AdmissionIInv', QueueInv, NEW c \in Clients, CommitCreate(c)
    PROVE  QueueInv'
<1> DEFINE r == client[c]
           j0 == [phase |-> IF r.via = "inline" THEN "runnable" ELSE "validating",
                  status |-> IF r.via = "inline" THEN "in_progress" ELSE "validating",
                  left |-> r.left, via |-> r.via, deleted |-> FALSE, key |-> r.key]
<1>1. /\ r \in Client /\ r.left \in Nat /\ locked = c /\ locked # NoClient
      /\ made < MaxBatches /\ made \in Nat /\ jobs \in [Ids -> Job]
  BY AdmissionAssumption, ZenonT(40) DEF AdmissionIInv, Types, CreateOpen, CommitCreate, Client
<1>2. PICK b \in Ids : b = made + 1
  BY <1>1, AdmissionAssumption DEF Ids
<1>3. jobs' = [jobs EXCEPT ![b] = SettledJob(j0)] /\ locked' = NoClient /\ UNCHANGED caps
  BY <1>2, ZenonT(40) DEF CommitCreate, settings
<1>4. j0 \in Job /\ j0.left = r.left
  BY <1>1, ZenonT(40) DEF Job, Client, Phases, Statuses
<1> HIDE DEF j0
<1>5. /\ SettledJob(j0) \in Job /\ Weight(SettledJob(j0)) <= Weight(j0)
      /\ Weight(j0) <= r.left /\ Weight(j0) \in Nat
  BY <1>4, Settled, SettledWeight, WeightType, ZenonT(40)
<1>6. Weight(SettledJob(j0)) \in Nat /\ Weight(jobs[b]) \in Nat
  BY <1>1, <1>5, WeightType, ZenonT(40)
<1>7. jobs'[b] = SettledJob(j0) /\ \A d \in Ids : d # b => jobs'[d] = jobs[d]
  BY <1>1, <1>3, ZenonT(40)
<1>8. Weight(jobs'[b]) <= Weight(jobs[b]) + r.left
  BY <1>1, <1>5, <1>6, <1>7
<1>9. Queued' <= Queued + r.left /\ Queued \in Nat /\ Queued' \in Nat
  BY <1>1, <1>7, <1>8, HeavierRow, ZenonT(40)
<1>10. Queued + r.left <= caps.queued /\ caps.queued \in Nat
  BY <1>1 DEF QueueInv
<1>11. caps' = caps /\ locked' = NoClient /\ r.left \in Nat
  BY <1>1, <1>3, Zenon
<1>12. QED
  BY <1>9, <1>10, <1>11 DEF QueueInv

\* The checks of a create make room for its requests while it is open.
LEMMA BeginFits ==
    ASSUME AdmissionIInv, AdmissionIInv', QueueInv, NEW c \in Clients, BeginCreate(c)
    PROVE  QueueInv'
<1>1. UNCHANGED <<caps, jobs>>
  BY DEF BeginCreate, settings
<1>2. Queued' = Queued /\ Queued \in Nat /\ QueuedRequests = Queued
  BY <1>1, QueuedForm DEF Queued, Weights
<1>3. CASE Admitted(c)
  <2>1. /\ locked' = c /\ client' = [client EXCEPT ![c].at = "creating"]
        /\ QueuedRequests + client[c].left <= caps.queued
    BY <1>3 DEF BeginCreate, Admitted, WithinCaps
  <2>2. client'[c].left = client[c].left
    BY <2>1 DEF AdmissionIInv, Types, Client
  <2>3. QED
    BY <1>1, <1>2, <2>1, <2>2 DEF QueueInv
<1>4. CASE ~Admitted(c)
  <2>1. locked' = NoClient
    BY <1>4 DEF BeginCreate
  <2>2. QED
    BY <1>1, <1>2, <2>1 DEF QueueInv
<1>5. QED
  BY <1>3, <1>4

\* Every step keeps the cap, with the open create counted.
LEMMA QueueStep ==
    ASSUME AdmissionIInv, AdmissionIInv', QueueInv, [AdmissionNext]_admissionVars
    PROVE  QueueInv'
<1>1. jobs \in [Ids -> Job] /\ \A b \in Ids : jobs[b] \in Job /\ Weight(jobs[b]) \in Nat
  BY WeightType, ZenonT(40) DEF AdmissionIInv, Types
<1>2. ASSUME UNCHANGED <<caps, jobs, locked, client>> PROVE QueueInv'
  BY <1>2, ZenonT(40) DEF QueueInv, Queued, Weights
<1>3. ASSUME NEW c \in Clients, FindReplay(c) \/ AbandonCreate(c) PROVE QueueInv'
  <2>1. UNCHANGED <<caps, jobs>>
    BY <1>3, ZenonT(40) DEF FindReplay, AbandonCreate, settings
  <2>2. locked' # NoClient => locked' = locked /\ locked # c
    BY <1>3, ZenonT(40) DEF FindReplay, AbandonCreate, AdmissionIInv, CreateOpen
  <2>3. \A d \in Clients : d # c => client'[d] = client[d]
    BY <1>3, ZenonT(40) DEF FindReplay, AbandonCreate, ClientEnds, AdmissionIInv, Types
  <2>4. locked' # NoClient => locked' = locked /\ client'[locked] = client[locked]
    BY <2>2, <2>3 DEF AdmissionIInv, Types
  <2>5. \A b \in Ids : Weight(jobs'[b]) <= Weight(jobs[b])
    BY <1>1, <2>1
  <2>6. QED
    BY <2>1, <2>4, <2>5, QueueShrinks, ZenonT(40)
<1>4. ASSUME NEW b \in Ids, PublishBatch(b) PROVE QueueInv'
  <2> DEFINE j == [jobs[b] EXCEPT !.phase = "runnable", !.status = "in_progress"]
  <2>1. jobs[b].phase = "validating" /\ jobs[b].status = "validating" /\ SetJob(b, j)
    BY <1>4 DEF PublishBatch
  <2>2. j \in Job /\ j.left = jobs[b].left /\ j.deleted = jobs[b].deleted
    BY <1>1, Zenon DEF Job, Phases, Statuses
  <2>3. Weight(j) <= Weight(jobs[b])
    BY <1>1, <2>1, <2>2 DEF Weight, Job
  <2> HIDE DEF j
  <2>4. QED
    BY <2>1, <2>2, <2>3, SetJobShrinks
<1>5. ASSUME NEW b \in Ids, FailBatch(b) PROVE QueueInv'
  <2> DEFINE j == [jobs[b] EXCEPT !.phase = "sealing", !.left = 0]
  <2>1. j \in Job /\ Weight(j) = 0 /\ SetJob(b, j)
    BY <1>1, <1>5, ZenonT(40) DEF Job, Phases, Statuses, Weight, FailBatch
  <2> HIDE DEF j
  <2>2. Weight(j) <= Weight(jobs[b])
    BY <1>1, <2>1
  <2>3. QED
    BY <2>1, <2>2, SetJobShrinks
<1>6. ASSUME NEW b \in Ids, FinishRequest(b) PROVE QueueInv'
  <2> DEFINE j == [jobs[b] EXCEPT !.left = @ - 1]
  <2>1. jobs[b].left \in Nat /\ jobs[b].left - 1 \in Nat /\ SetJob(b, j)
    BY <1>1, <1>6 DEF FinishRequest, Job
  <2>2. j \in Job /\ Weight(j) <= Weight(jobs[b])
    BY <1>1, <2>1 DEF Job, Weight
  <2> HIDE DEF j
  <2>3. QED
    BY <2>1, <2>2, SetJobShrinks
<1>7. ASSUME NEW b \in Ids, NEW status \in {"cancelling", "expired"}, CloseBatch(b, status) PROVE QueueInv'
  <2>1. PICK running \in 0..jobs[b].left :
            SetJob(b, [jobs[b] EXCEPT !.status = status, !.left = running])
    BY <1>7, Zenon DEF CloseBatch
  <2> DEFINE j == [jobs[b] EXCEPT !.status = status, !.left = running]
  <2>2. running \in Nat /\ running <= jobs[b].left /\ status \in Statuses
    BY <1>1 DEF Statuses, Job
  <2>3. /\ jobs[b].status \in {"validating", "in_progress"}
        /\ jobs[b].phase \in {"validating", "runnable"}
    BY <1>7 DEF CloseBatch
  <2>4. /\ j \in Job /\ j.left = running /\ j.deleted = jobs[b].deleted /\ j.phase = jobs[b].phase
        /\ jobs[b].left \in Nat
    BY <1>1, <2>2, Zenon DEF Job
  <2>5. SetJob(b, j)
    BY <2>1, ZenonT(40)
  <2> HIDE DEF j
  <2>6. Weight(j) <= Weight(jobs[b])
    BY <2>2, <2>3, <2>4 DEF Weight
  <2>7. QED
    BY <2>4, <2>5, <2>6, SetJobShrinks
<1>8. ASSUME NEW b \in Ids, SealBatch(b) PROVE QueueInv'
  <2> DEFINE j == [jobs[b] EXCEPT !.phase = "sealed", !.status = "ended"]
  <2>1. j \in Job /\ Weight(j) = 0 /\ SetJob(b, j)
    BY <1>1, <1>8, ZenonT(40) DEF Job, Phases, Statuses, Weight, SealBatch
  <2> HIDE DEF j
  <2>2. Weight(j) <= Weight(jobs[b])
    BY <1>1, <2>1
  <2>3. QED
    BY <2>1, <2>2, SetJobShrinks
<1>9. ASSUME NEW b \in Ids, DeleteJob(b) \/ PurgeJob(b) PROVE QueueInv'
  <2>1. UNCHANGED <<caps, locked, client>>
    BY <1>9 DEF DeleteJob, PurgeJob, settings
  <2>2. PICK j : jobs' = [jobs EXCEPT ![b] = j] /\ Weight(j) = 0
    <3>1. Weight([jobs[b] EXCEPT !.deleted = TRUE]) = 0
      BY <1>1 DEF Weight, Job
    <3>2. Weight(GoneJob(jobs[b])) = 0
      BY <1>1, Gone, ZenonT(40) DEF Weight
    <3>3. \/ jobs' = [jobs EXCEPT ![b] = [jobs[b] EXCEPT !.deleted = TRUE]]
          \/ jobs' = [jobs EXCEPT ![b] = GoneJob(jobs[b])]
      BY <1>9 DEF DeleteJob, PurgeJob
    <3>4. QED
      BY <3>1, <3>2, <3>3, ZenonT(40)
  <2>3. ASSUME NEW d \in Ids PROVE Weight(jobs'[d]) <= Weight(jobs[d])
    <3>1. jobs'[b] = j /\ (d # b => jobs'[d] = jobs[d])
      BY <1>1, <2>2
    <3>2. Weight(jobs[d]) \in Nat
      BY <1>1
    <3>3. Weight(jobs'[d]) \in {0, Weight(jobs[d])}
      BY <2>2, <3>1
    <3>4. QED
      BY <3>2, <3>3
  <2>4. QED
    BY <2>1, <2>3, QueueShrinks, ZenonT(40)
<1>10. ASSUME EraseAccount PROVE QueueInv'
  <2>1. \A b \in Ids : jobs'[b] = GoneJob(jobs[b]) /\ GoneJob(jobs[b]).phase = "none"
    BY <1>1, <1>10, Gone, ZenonT(40) DEF EraseAccount
  <2>2. \A b \in Ids : Weight(jobs'[b]) = 0
    BY <2>1 DEF Weight
  <2>3. \A b \in Ids : Weight(jobs'[b]) <= Weight(jobs[b])
    BY <1>1, <2>2
  <2>4. UNCHANGED caps /\ locked' = NoClient
    BY <1>10 DEF EraseAccount, settings
  <2>5. QED
    BY <2>3, <2>4, QueueShrinks, ZenonT(40)
<1>11. CASE \/ \E b \in Ids : DayPasses(b)
            \/ \E k \in Keys : SweepRecord(k)
            \/ HideUpload \/ ChooseUpload \/ CollectUpload \/ MarkHardDelete
            \/ UNCHANGED admissionVars
  BY <1>2, <1>11 DEF DayPasses, SweepRecord, HideUpload, ChooseUpload, CollectUpload, MarkHardDelete,
                     settings, admissionVars
<1>12. QED
  BY <1>3, <1>4, <1>5, <1>6, <1>7, <1>8, <1>9, <1>10, <1>11, StageFits, CommitFits, BeginFits, ZenonT(40)
     DEF AdmissionNext

\* The requests that creates and validators reserve, each after a count of its
\* own, never pass the owner's cap together.
THEOREM QueueStaysWithinCap == AdmissionSpec => []QueuedWithinCap
<1>1. AdmissionInit => QueueInv
  <2>1. SUFFICES ASSUME AdmissionInit PROVE QueueInv
    OBVIOUS
  <2>2. caps.queued \in Nat /\ locked = NoClient
    BY <2>1, AdmissionAssumption DEF AdmissionInit
  <2>3. PICK f \in [Ids -> Nat] : f = Weights /\ \A b \in Ids : f[b] = 0
    <3>1. Weight(NoJob) = 0
      BY DEF Weight, NoJob
    <3>2. \A b \in Ids : jobs[b] = NoJob
      BY <2>1 DEF AdmissionInit
    <3>3. \A b \in Ids : Weight(jobs[b]) = 0
      BY <3>1, <3>2
    <3>4. Weights \in [Ids -> Nat] /\ \A b \in Ids : Weights[b] = 0
      <4>1. Weights = [b \in Ids |-> Weight(jobs[b])]
        BY DEF Weights
      <4>2. QED
        BY <3>3, <4>1
    <3>5. QED
      BY <3>4
  <2>4. SumFunctionOnSet(f, Ids) = 0 * Cardinality(Ids) /\ Cardinality(Ids) \in Nat
    BY <2>3, SumOfConstant, FS_CardinalityType, IdsFinite
  <2>5. QED
    BY <2>2, <2>3, <2>4 DEF QueueInv, Queued
<1>2. AdmissionIInv /\ AdmissionIInv' /\ QueueInv /\ [AdmissionNext]_admissionVars => QueueInv'
  BY QueueStep
<1>3. AdmissionIInv /\ QueueInv => QueuedWithinCap
  BY QueuedForm DEF QueueInv, QueuedWithinCap
<1>4. QED
  BY <1>1, <1>2, <1>3, AdmissionInvariance, PTL DEF AdmissionSpec
=============================================================================
