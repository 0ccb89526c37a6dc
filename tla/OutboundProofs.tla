--------------------------- MODULE OutboundProofs ---------------------------
(***************************************************************************)
(* Proofs about the two halves of the outbound limiter, for every value of *)
(* the constants: the bucket of a remote endpoint (UpstreamLimiter), for   *)
(* any number of tasks and any setting, and the hold of a local engine     *)
(* (EngineGate), for any dispatches and limits.                            *)
(*                                                                         *)
(* For the bucket, the inductive invariant IInv adds to the checked        *)
(* invariants what ties a task's place in the code to its future: a future *)
(* exists exactly while its task waits, an interruption concerns a waiting *)
(* task whose future is resolved, and a bucket without a loop has no       *)
(* tasks.  For the engine, GateIInv counts the places: besides the types   *)
(* it says where a future and a place can be, and that the count is exact  *)
(* in every state, that of a loop that has ended included.                 *)
(***************************************************************************)
EXTENDS UpstreamLimiter, EngineGate, FiniteSetTheorems, TLAPS

\* A leaf that names no prover is tried with SMT, then with Zenon.
USE SMTT(30), ZenonT(30)

-----------------------------------------------------------------------------
(* UpstreamLimiter *)

\* A task has a future exactly while it waits; it is interrupted only there,
\* after its future was resolved; the replaced loop's tasks are gone.
TasksConsistent ==
    /\ \A t \in Tasks : pc[t] = "waiting" <=> fut[t] # "none"
    /\ \A t \in Tasks : interrupted[t] => fut[t] \in {"granted", "cancelled"}
    /\ ~ bound => \A t \in Tasks : pc[t] = "idle" /\ fut[t] = "none"

IInv == /\ TypeOK
        /\ TasksConsistent
        /\ SlotsConserved
        /\ QueuedOnlyWhenFull
        /\ QueueMatchesTasks

\* What the elements of a concatenation are.
LEMMA ConcatAt ==
    ASSUME NEW S, NEW s \in Seq(S), NEW u \in Seq(S)
    PROVE  /\ s \o u \in Seq(S)
           /\ Len(s \o u) = Len(s) + Len(u)
           /\ \A i \in 1 .. Len(s) + Len(u) :
                (s \o u)[i] = IF i <= Len(s) THEN s[i] ELSE u[i - Len(s)]
OBVIOUS

\* One more element makes a set at most one larger.
LEMMA OneMore ==
    ASSUME NEW S, IsFiniteSet(S), NEW x
    PROVE  /\ IsFiniteSet(S \cup {x})
           /\ Cardinality(S \cup {x}) \in Nat
           /\ Cardinality(S \cup {x}) <= Cardinality(S) + 1
<1>1. /\ IsFiniteSet(S \cup {x})
      /\ Cardinality(S \cup {x}) = IF x \in S THEN Cardinality(S) ELSE Cardinality(S) + 1
  BY FS_AddElement
<1>2. Cardinality(S) \in Nat
  BY FS_CardinalityType
<1> QED BY <1>1, <1>2

\* What a wake does: it pops k futures and grants the pending ones among them,
\* one slot each, never past the limit, and leaves waiters only when the limit
\* is reached.
WakeEffect(n, l, f, k) ==
    /\ Granted(k) \in SUBSET {t \in Tasks : fut[t] = "pending"}
    /\ IsFiniteSet(Granted(k))
    /\ Cardinality(Granted(k)) \in Nat
    /\ in_flight' = n + Cardinality(Granted(k))
    /\ in_flight' \in Nat
    /\ in_flight' > n => in_flight' <= l
    /\ waiters' = SubSeq(waiters, k + 1, Len(waiters))
    /\ waiters' \in Seq(Tasks)
    /\ waiters' # << >> => in_flight' >= l
    /\ fut' = [t \in Tasks |-> IF t \in Granted(k) THEN "granted" ELSE f[t]]

\* wake_waiters has the effect of a wake.
LEMMA WakeGrants ==
    ASSUME TypeOK, NEW n \in Nat, NEW l \in Nat, NEW f, Wake(n, l, f)
    PROVE  \E k \in 0 .. Len(waiters) : WakeEffect(n, l, f, k)
<1>1. PICK k \in 0 .. Len(waiters) :
        /\ WakePoint(n, l, k)
        /\ in_flight' = n + Cardinality(Granted(k))
        /\ waiters' = SubSeq(waiters, k + 1, Len(waiters))
        /\ fut' = [t \in Tasks |-> IF t \in Granted(k) THEN "granted" ELSE f[t]]
  BY DEF Wake
<1> USE DEF TypeOK
<1>2. \A j \in 0 .. Len(waiters) :
        /\ Granted(j) \in SUBSET {t \in Tasks : fut[t] = "pending"}
        /\ IsFiniteSet(Granted(j))
        /\ Cardinality(Granted(j)) \in Nat
  <2> TAKE j \in 0 .. Len(waiters)
  <2>1. Granted(j) \in SUBSET {t \in Tasks : fut[t] = "pending"}
    BY DEF Granted, Popped
  <2>2. Granted(j) \in SUBSET Tasks
    BY <2>1
  <2> QED BY <2>1, <2>2, FS_Subset, FS_CardinalityType, LimiterAssumption DEF LimiterAssumption
<1>3. in_flight' \in Nat
  BY <1>1, <1>2
<1>4. ASSUME in_flight' > n PROVE in_flight' <= l
  <2>1. k # 0
    <3>1. ASSUME k = 0 PROVE FALSE
      <4>1. Granted(k) = {}
        BY <3>1 DEF Granted, Popped
      <4> QED BY <1>1, <1>4, <4>1, FS_EmptySet
    <3> QED BY <3>1
  <2>2. PICK j \in 0 .. Len(waiters) : j = k - 1
    BY <2>1
  <2>3. n + Cardinality(Granted(j)) < l
    <3>1. j \in 0 .. k - 1
      BY <2>1, <2>2
    <3>2. ~ LoopStops(n, l, j)
      BY <1>1, <3>1 DEF WakePoint
    <3> QED BY <1>2, <3>2 DEF LoopStops
  <2>4. Granted(k) \subseteq Granted(j) \cup {waiters[k]}
    BY <2>1, <2>2 DEF Granted, Popped
  <2>5. /\ IsFiniteSet(Granted(j))
        /\ Cardinality(Granted(j)) \in Nat
    BY <1>2
  <2>6. /\ IsFiniteSet(Granted(j) \cup {waiters[k]})
        /\ Cardinality(Granted(j) \cup {waiters[k]}) \in Nat
        /\ Cardinality(Granted(j) \cup {waiters[k]}) <= Cardinality(Granted(j)) + 1
    BY <2>5, OneMore, Zenon
  <2>7. Cardinality(Granted(k)) <= Cardinality(Granted(j) \cup {waiters[k]})
    BY <2>4, <2>6, FS_Subset
  <2> QED BY <1>1, <1>2, <2>3, <2>5, <2>6, <2>7
<1>5. waiters' \in Seq(Tasks)
  BY <1>1
<1>6. ASSUME waiters' # << >> PROVE in_flight' >= l
  <2>1. k # Len(waiters)
    BY <1>1, <1>6
  <2> QED BY <1>1, <1>2, <2>1 DEF WakePoint, LoopStops
<1> QED BY <1>1, <1>2, <1>3, <1>4, <1>5, <1>6, ZenonT(40) DEF WakeEffect

\* The AIMD step keeps the limit between 1 and its ceiling.
LEMMA LimitStays ==
    ASSUME TypeOK, NEW outcome \in Outcomes
    PROVE  /\ LimitAfter(outcome) \in 1 .. MaxLimit
           /\ SuccessesAfter(outcome) \in 0 .. ProbeInterval - 1
<1>1. /\ MaxLimit \in Nat /\ ProbeInterval \in Nat
      /\ limit \in Nat /\ 1 <= limit /\ limit <= MaxLimit
      /\ successes \in Nat /\ successes < ProbeInterval
  BY LimiterAssumption DEF TypeOK, LimiterAssumption
<1>2. CASE outcome = "429"
  BY <1>1, <1>2 DEF LimitAfter, SuccessesAfter
<1>3. CASE outcome = "200"
  <2>1. CASE successes + 1 >= ProbeInterval
    BY <1>1, <1>3, <2>1 DEF LimitAfter, SuccessesAfter
  <2>2. CASE ~ (successes + 1 >= ProbeInterval)
    BY <1>1, <1>3, <2>2 DEF LimitAfter, SuccessesAfter
  <2> QED BY <2>1, <2>2
<1>4. CASE outcome = "other"
  BY <1>1, <1>4 DEF LimitAfter, SuccessesAfter
<1> QED BY <1>2, <1>3, <1>4 DEF Outcomes

\* The common part of Release and AbandonGranted: a task t gives its slot back.
GivesBack(t, outcome) ==
    /\ t \in Holders
    /\ Complete(outcome, [fut EXCEPT ![t] = "none"])
    /\ pc' = [pc EXCEPT ![t] = "idle"]
    /\ interrupted' = [interrupted EXCEPT ![t] = FALSE]
    /\ UNCHANGED bound

\* The slot holders can be counted.
LEMMA HoldersFinite ==
    IsFiniteSet(Holders) /\ Cardinality(Holders) \in Nat
<1>1. Holders \in SUBSET Tasks
  BY DEF Holders
<1> QED BY <1>1, FS_Subset, FS_CardinalityType, LimiterAssumption DEF LimiterAssumption

\* Giving a slot back, with the wake that follows, preserves the invariant.
LEMMA GivesBackPreserves ==
    ASSUME IInv, NEW t \in Tasks, NEW outcome \in Outcomes, GivesBack(t, outcome)
    PROVE  IInv'
<1> USE DEF IInv
<1>1. bound /\ bound'
  BY DEF GivesBack, TasksConsistent, Holders
<1>2. in_flight = Cardinality(Holders) /\ in_flight > 0
  BY <1>1, HoldersFinite, FS_EmptySet DEF SlotsConserved, GivesBack
<1>3. PICK n \in Nat : n = in_flight - 1
  BY <1>2 DEF TypeOK
<1>4. PICK l \in Nat : l = LimitAfter(outcome)
  BY LimitStays
<1>5. PICK f : f = [fut EXCEPT ![t] = "none"]
  BY Zenon
<1>6. Wake(n, l, f)
  BY <1>2, <1>3, <1>4, <1>5 DEF GivesBack, Complete
<1>7. /\ limit' = l
      /\ successes' = SuccessesAfter(outcome)
      /\ pc' = [pc EXCEPT ![t] = "idle"]
      /\ interrupted' = [interrupted EXCEPT ![t] = FALSE]
  BY <1>4 DEF GivesBack, Complete
<1>8. PICK k \in 0 .. Len(waiters) : WakeEffect(n, l, f, k)
  BY <1>6, WakeGrants
<1>9. /\ Granted(k) \in SUBSET {u \in Tasks : fut[u] = "pending"}
      /\ IsFiniteSet(Granted(k))
      /\ Cardinality(Granted(k)) \in Nat
      /\ in_flight' = n + Cardinality(Granted(k))
      /\ in_flight' \in Nat
      /\ waiters' = SubSeq(waiters, k + 1, Len(waiters))
      /\ waiters' \in Seq(Tasks)
      /\ waiters' # << >> => in_flight' >= l
      /\ fut' = [u \in Tasks |-> IF u \in Granted(k) THEN "granted" ELSE f[u]]
  BY <1>8 DEF WakeEffect
<1>10. TypeOK'
  BY <1>1, <1>4, <1>5, <1>7, <1>9, LimitStays DEF TypeOK
<1>11. fut[t] # "pending" /\ t \notin Granted(k)
  BY <1>9 DEF GivesBack, Holders, TasksConsistent
<1>12. TasksConsistent'
  BY <1>1, <1>5, <1>7, <1>9, <1>11 DEF TypeOK, TasksConsistent
<1>13. SlotsConserved'
  <2>1. Holders' = (Holders \ {t}) \cup Granted(k)
    BY <1>5, <1>7, <1>9, <1>11 DEF Holders, TypeOK
  <2>2. (Holders \ {t}) \cap Granted(k) = {}
    BY <1>9 DEF Holders, TasksConsistent
  <2>3. IsFiniteSet(Holders \ {t}) /\ Cardinality(Holders \ {t}) = n
    BY <1>2, <1>3, HoldersFinite, FS_RemoveElement DEF GivesBack
  <2>4. Cardinality(Holders') =
          Cardinality(Holders \ {t}) + Cardinality(Granted(k))
            - Cardinality((Holders \ {t}) \cap Granted(k))
    BY <1>9, <2>1, <2>3, FS_Union, Zenon
  <2>5. Cardinality(Holders') = n + Cardinality(Granted(k))
    <3>1. Cardinality((Holders \ {t}) \cap Granted(k)) = 0
      BY <2>2, FS_EmptySet
    <3> QED BY <1>3, <1>9, <2>3, <2>4, <3>1
  <2> QED BY <1>9, <2>5 DEF SlotsConserved
<1>14. QueuedOnlyWhenFull'
  BY <1>7, <1>9 DEF QueuedOnlyWhenFull
<1>15. QueueMatchesTasks'
  <2> DEFINE m == Len(waiters) - k
  <2>1. Len(waiters') = m /\ \A i \in 1 .. m : waiters'[i] = waiters[k + i] /\ k + i \in 1 .. Len(waiters)
    BY <1>9 DEF TypeOK
  <2>2. \A i \in 1 .. m : waiters[k + i] \notin Popped(k)
    BY <1>1, <2>1 DEF QueueMatchesTasks, Popped
  <2>3. \A i \in 1 .. Len(waiters) : waiters[i] # t /\ waiters[i] \in Tasks
    BY <1>1 DEF QueueMatchesTasks, GivesBack, Holders, TasksConsistent, TypeOK
  <2>4. ASSUME NEW i \in 1 .. Len(waiters'), NEW j \in 1 .. Len(waiters'),
               waiters'[i] = waiters'[j]
        PROVE  i = j
    <3>1. /\ k + i \in 1 .. Len(waiters)
          /\ k + j \in 1 .. Len(waiters)
          /\ waiters[k + i] = waiters[k + j]
      BY <2>1, <2>4, Zenon
    <3>2. k + i = k + j
      BY <1>1, <3>1 DEF QueueMatchesTasks
    <3>3. i \in Int /\ j \in Int /\ k \in Int
      BY <2>1 DEF TypeOK
    <3> QED BY <3>2, <3>3
  <2>5. ASSUME NEW i \in 1 .. Len(waiters')
        PROVE  fut'[waiters'[i]] \in {"pending", "cancelled"}
    <3>1. waiters'[i] = waiters[k + i] /\ waiters[k + i] \notin Granted(k)
      BY <2>1, <2>2 DEF Granted
    <3>2. waiters[k + i] \in Tasks /\ waiters[k + i] # t
      BY <2>1, <2>3
    <3>3. fut[waiters[k + i]] \in {"pending", "cancelled"}
      BY <1>1, <2>1 DEF QueueMatchesTasks
    <3> QED BY <1>5, <1>9, <3>1, <3>2, <3>3, ZenonT(40) DEF TypeOK
  <2>6. ASSUME NEW u \in Tasks, fut'[u] = "pending"
        PROVE  \E i \in 1 .. Len(waiters') : waiters'[i] = u
    <3>1. u \notin Granted(k) /\ fut[u] = "pending"
      BY <1>5, <1>9, <2>6 DEF TypeOK
    <3>2. PICK j \in 1 .. Len(waiters) : waiters[j] = u
      BY <1>1, <3>1 DEF QueueMatchesTasks
    <3>3. j > k
      BY <3>1, <3>2 DEF Granted, Popped
    <3>4. j - k \in 1 .. m /\ k + (j - k) = j
      BY <3>3
    <3> QED BY <2>1, <3>2, <3>4, Zenon
  <2> QED BY <2>4, <2>5, <2>6 DEF QueueMatchesTasks
<1> QED BY <1>10, <1>12, <1>13, <1>14, <1>15

\* The i-th place of a line once place x is left out.
Skip(x, i) == IF i < x THEN i ELSE i + 1

\* Leaving a place out keeps the order of the others and loses none.
LEMMA SkipOrder ==
    ASSUME NEW n \in Nat, NEW x \in 1 .. n
    PROVE  /\ \A i \in 1 .. n - 1 : Skip(x, i) \in 1 .. n /\ Skip(x, i) # x
           /\ \A i, j \in 1 .. n - 1 : Skip(x, i) = Skip(x, j) => i = j
           /\ \A i, j \in 1 .. n - 1 : Skip(x, i) < Skip(x, j) => i < j
           /\ \A j \in 1 .. n : j # x => \E i \in 1 .. n - 1 : Skip(x, i) = j
<1>1. \A i \in 1 .. n - 1 : Skip(x, i) \in 1 .. n /\ Skip(x, i) # x
  BY DEF Skip
<1>2. \A i, j \in 1 .. n - 1 : Skip(x, i) = Skip(x, j) => i = j
  BY DEF Skip
<1>3. \A i, j \in 1 .. n - 1 : Skip(x, i) < Skip(x, j) => i < j
  BY DEF Skip
<1>4. ASSUME NEW j \in 1 .. n, j # x
      PROVE  \E i \in 1 .. n - 1 : Skip(x, i) = j
  <2>1. CASE j < x
    <3>1. j \in 1 .. n - 1 /\ Skip(x, j) = j
      BY <2>1 DEF Skip
    <3> QED BY <3>1
  <2>2. CASE j > x
    <3>1. j - 1 \in 1 .. n - 1 /\ Skip(x, j - 1) = j
      BY <2>2 DEF Skip
    <3> QED BY <3>1
  <2> QED BY <1>4, <2>1, <2>2
<1> QED BY <1>1, <1>2, <1>3, <1>4

\* What deque.remove leaves of a queue the task is in: every other entry, those
\* behind it moved up by one.
LEMMA WithoutAt ==
    ASSUME TypeOK, NEW t \in Tasks, {i \in 1 .. Len(waiters) : waiters[i] = t} # {}
    PROVE  \E x \in 1 .. Len(waiters), q \in Seq(Tasks) :
             /\ waiters[x] = t
             /\ q = Without(t)
             /\ Len(q) = Len(waiters) - 1
             /\ \A i \in 1 .. Len(q) : q[i] = waiters[Skip(x, i)]
<1> DEFINE At == {i \in 1 .. Len(waiters) : waiters[i] = t}
<1> USE DEF TypeOK
<1>1. PICK x \in At : Without(t) = SubSeq(waiters, 1, x - 1) \o SubSeq(waiters, x + 1, Len(waiters))
  BY Zenon DEF Without
<1> DEFINE a == SubSeq(waiters, 1, x - 1)
           b == SubSeq(waiters, x + 1, Len(waiters))
<1>2. /\ a \in Seq(Tasks) /\ Len(a) = x - 1
      /\ \A i \in 1 .. x - 1 : a[i] = waiters[i]
  OBVIOUS
<1>3. /\ b \in Seq(Tasks) /\ Len(b) = Len(waiters) - x
      /\ \A i \in 1 .. Len(waiters) - x : b[i] = waiters[x + i]
  OBVIOUS
<1> HIDE DEF a, b
<1>4. PICK q \in Seq(Tasks) : q = a \o b
  <2>1. a \o b \in Seq(Tasks)
    BY <1>2, <1>3, ConcatAt
  <2> QED BY <2>1, Zenon
<1>5. q = Without(t)
  BY <1>1, <1>4 DEF a, b
<1>6. /\ Len(q) = Len(waiters) - 1
      /\ \A i \in 1 .. Len(q) : q[i] = IF i < x THEN waiters[i] ELSE waiters[i + 1]
  <2>1. /\ Len(a \o b) = Len(a) + Len(b)
        /\ \A i \in 1 .. Len(a) + Len(b) :
              (a \o b)[i] = IF i <= Len(a) THEN a[i] ELSE b[i - Len(a)]
    <3>1. a \in Seq(Tasks) /\ b \in Seq(Tasks)
      BY <1>2, <1>3, Zenon
    <3> QED BY <3>1, ConcatAt, ZenonT(60)
  <2>2. /\ Len(q) = Len(a) + Len(b)
        /\ \A i \in 1 .. Len(a) + Len(b) :
              q[i] = IF i <= Len(a) THEN a[i] ELSE b[i - Len(a)]
    BY <1>4, <2>1
  <2>3. Len(q) = Len(waiters) - 1
    BY <1>2, <1>3, <2>2
  <2>4. ASSUME NEW i \in 1 .. Len(q), i < x PROVE q[i] = waiters[i]
    BY <1>2, <1>3, <2>2, <2>4
  <2>5. ASSUME NEW i \in 1 .. Len(q), ~ (i < x) PROVE q[i] = waiters[i + 1]
    <3>1. /\ i - (x - 1) \in 1 .. Len(waiters) - x
          /\ x + (i - (x - 1)) = i + 1
      BY <2>3, <2>5
    <3>2. q[i] = b[i - (x - 1)]
      BY <1>2, <1>3, <2>2, <2>5
    <3> QED BY <1>3, <3>1, <3>2
  <2> QED BY <2>3, <2>4, <2>5
<1>7. x \in 1 .. Len(waiters) /\ waiters[x] = t
  OBVIOUS
<1> QED BY <1>5, <1>6, <1>7, Zenon DEF Skip

\* Removing a task from the queue keeps the other members.
LEMMA WithoutMember ==
    ASSUME TypeOK, NEW t \in Tasks, QueueMatchesTasks, bound
    PROVE  \E q \in Seq(Tasks) :
             /\ q = Without(t)
             /\ Len(q) <= Len(waiters)
             /\ \A i, j \in 1 .. Len(q) : q[i] = q[j] => i = j
             /\ \A i \in 1 .. Len(q) : q[i] # t /\ \E j \in 1 .. Len(waiters) : q[i] = waiters[j]
             /\ \A j \in 1 .. Len(waiters) : waiters[j] # t => \E i \in 1 .. Len(q) : q[i] = waiters[j]
<1> DEFINE At == {i \in 1 .. Len(waiters) : waiters[i] = t}
<1>1. waiters \in Seq(Tasks) /\ Len(waiters) \in Nat
  BY DEF TypeOK
<1>2. \A i, j \in 1 .. Len(waiters) : waiters[i] = waiters[j] => i = j
  BY DEF QueueMatchesTasks
<1>3. CASE At = {}
  <2>1. Without(t) = waiters
    BY <1>3 DEF Without
  <2> QED BY <1>1, <1>2, <1>3, <2>1
<1>4. CASE At # {}
  <2>1. PICK x \in 1 .. Len(waiters), q \in Seq(Tasks) :
             /\ waiters[x] = t
             /\ q = Without(t)
             /\ Len(q) = Len(waiters) - 1
             /\ \A i \in 1 .. Len(q) : q[i] = waiters[Skip(x, i)]
    BY <1>4, WithoutAt
  <2>2. PICK n \in Nat : n = Len(waiters)
    BY <1>1
  <2>3. x \in 1 .. n /\ Len(q) = n - 1 /\ n - 1 <= n
    BY <2>1, <2>2
  <2>4. /\ \A i \in 1 .. n - 1 : Skip(x, i) \in 1 .. n /\ Skip(x, i) # x
        /\ \A i, j \in 1 .. n - 1 : Skip(x, i) = Skip(x, j) => i = j
        /\ \A j \in 1 .. n : j # x => \E i \in 1 .. n - 1 : Skip(x, i) = j
    BY <2>3, SkipOrder, Zenon
  <2>5. ASSUME NEW i \in 1 .. Len(q), NEW j \in 1 .. Len(q), q[i] = q[j]
        PROVE  i = j
    <3>1. i \in 1 .. n - 1 /\ j \in 1 .. n - 1
      BY <2>3
    <3>2. /\ Skip(x, i) \in 1 .. Len(waiters) /\ Skip(x, j) \in 1 .. Len(waiters)
          /\ waiters[Skip(x, i)] = waiters[Skip(x, j)]
      BY <2>1, <2>2, <2>4, <2>5, <3>1, ZenonT(40)
    <3>3. Skip(x, i) = Skip(x, j)
      BY <1>2, <3>2
    <3> QED BY <2>4, <3>1, <3>3
  <2>6. \A i \in 1 .. Len(q) : q[i] # t /\ \E j \in 1 .. Len(waiters) : q[i] = waiters[j]
    BY <1>2, <2>1, <2>2, <2>3, <2>4
  <2>7. ASSUME NEW j \in 1 .. Len(waiters), waiters[j] # t
        PROVE  \E i \in 1 .. Len(q) : q[i] = waiters[j]
    <3>1. j \in 1 .. n /\ j # x
      BY <2>1, <2>2, <2>7
    <3>2. PICK i \in 1 .. n - 1 : Skip(x, i) = j
      BY <2>4, <3>1
    <3>3. i \in 1 .. Len(q)
      BY <2>3
    <3> QED BY <2>1, <3>2, <3>3
  <2> QED BY <2>1, <2>2, <2>3, <2>5, <2>6, <2>7
<1> QED BY <1>3, <1>4

\* Whoever is ahead of another task stays ahead of it when a third one leaves.
LEMMA WithoutOrder ==
    ASSUME TypeOK, NEW t \in Tasks, NEW u, NEW v, u # t, v # t, Behind(waiters, u, v)
    PROVE  Behind(Without(t), u, v)
<1>1. PICK i \in 1 .. Len(waiters), j \in 1 .. Len(waiters) :
        i < j /\ waiters[i] = u /\ waiters[j] = v
  BY DEF Behind
<1>2. CASE {m \in 1 .. Len(waiters) : waiters[m] = t} = {}
  <2>1. Without(t) = waiters
    BY <1>2 DEF Without
  <2> QED BY <2>1
<1>3. CASE {m \in 1 .. Len(waiters) : waiters[m] = t} # {}
  <2>1. PICK x \in 1 .. Len(waiters), q \in Seq(Tasks) :
             /\ waiters[x] = t
             /\ q = Without(t)
             /\ Len(q) = Len(waiters) - 1
             /\ \A m \in 1 .. Len(q) : q[m] = waiters[Skip(x, m)]
    BY <1>3, WithoutAt, ZenonT(40)
  <2>2. PICK n \in Nat : n = Len(waiters)
    BY DEF TypeOK
  <2>3. x \in 1 .. n /\ i \in 1 .. n /\ j \in 1 .. n /\ i # x /\ j # x /\ Len(q) = n - 1
    BY <1>1, <2>1, <2>2
  <2>4. /\ \A a, b \in 1 .. n - 1 : Skip(x, a) < Skip(x, b) => a < b
        /\ \A m \in 1 .. n : m # x => \E a \in 1 .. n - 1 : Skip(x, a) = m
    BY <2>3, SkipOrder, Zenon
  <2>5. PICK a \in 1 .. n - 1 : Skip(x, a) = i
    BY <2>3, <2>4
  <2>6. PICK b \in 1 .. n - 1 : Skip(x, b) = j
    BY <2>3, <2>4
  <2>7. a < b
    BY <1>1, <2>4, <2>5, <2>6
  <2>8. q[a] = u /\ q[b] = v /\ a \in 1 .. Len(q) /\ b \in 1 .. Len(q)
    BY <1>1, <2>1, <2>3, <2>5, <2>6, ZenonT(40)
  <2> QED BY <2>1, <2>7, <2>8 DEF Behind
<1> QED BY <1>2, <1>3

\* Initially the bucket has no loop, no tasks and no queue.
LEMMA InitIInv == Init => IInv
<1> SUFFICES ASSUME Init PROVE IInv
  OBVIOUS
<1>1. TypeOK
  <2>1. limit \in 1 .. MaxLimit /\ in_flight \in Nat /\ successes \in 0 .. ProbeInterval - 1
    BY LimiterAssumption DEF LimiterAssumption, Init
  <2>2. waiters \in Seq(Tasks)
    BY DEF Init
  <2>3. pc \in [Tasks -> {"idle", "waiting", "holding"}]
        /\ fut \in [Tasks -> {"none", "pending", "granted", "cancelled"}]
    BY DEF Init
  <2>4. bound \in BOOLEAN /\ interrupted \in [Tasks -> BOOLEAN]
    BY Zenon DEF Init
  <2> QED BY <2>1, <2>2, <2>3, <2>4 DEF TypeOK
<1>2. TasksConsistent
  BY DEF Init, TasksConsistent
<1>3. SlotsConserved /\ QueuedOnlyWhenFull /\ QueueMatchesTasks
  BY DEF Init, SlotsConserved, QueuedOnlyWhenFull, QueueMatchesTasks
<1> QED BY <1>1, <1>2, <1>3 DEF IInv

\* Every step of a task or of the loop preserves the inductive invariant.
LEMMA NextIInv == IInv /\ [Next]_vars => IInv'
<1> SUFFICES ASSUME IInv, [Next]_vars PROVE IInv'
  OBVIOUS
<1>1. IsFiniteSet(Holders) /\ Cardinality(Holders) \in Nat
  BY HoldersFinite
<1>2. ASSUME NEW t \in Tasks, AcquireNow(t) PROVE IInv'
  <2>1. fut[t] = "none" /\ pc[t] = "idle" /\ ~ interrupted[t]
    BY <1>2 DEF IInv, TypeOK, TasksConsistent, AcquireNow
  <2>2. TypeOK'
    BY <1>2 DEF IInv, TypeOK, AcquireNow
  <2>3. TasksConsistent'
    BY <1>2, <2>1 DEF IInv, TypeOK, TasksConsistent, AcquireNow
  <2>4. SlotsConserved'
    <3>1. Holders' = Holders \cup {t} /\ t \notin Holders
      BY <1>2, <2>1 DEF IInv, TypeOK, Holders, AcquireNow
    <3>2. Cardinality(Holders') = Cardinality(Holders) + 1
      BY <1>1, <3>1, FS_AddElement
    <3>3. ~ bound => Cardinality(Holders) = 0
      <4>1. ~ bound => Holders = {}
        BY DEF IInv, TasksConsistent, Holders
      <4> QED BY <4>1, FS_EmptySet
    <3> QED BY <1>1, <1>2, <3>2, <3>3 DEF IInv, SlotsConserved, AcquireNow
  <2>5. QueuedOnlyWhenFull' /\ QueueMatchesTasks'
    <3>1. bound => \A u \in Tasks : fut[u] # "pending"
      BY <1>2 DEF AcquireNow, IInv, QueueMatchesTasks
    <3>2. \A u \in Tasks : fut[u] # "pending"
      BY <3>1 DEF IInv, TasksConsistent
    <3> QED BY <1>2, <3>2 DEF AcquireNow, QueuedOnlyWhenFull, QueueMatchesTasks
  <2> QED BY <2>2, <2>3, <2>4, <2>5 DEF IInv
<1>3. ASSUME NEW t \in Tasks, AcquireQueue(t) PROVE IInv'
  <2>1. fut[t] = "none" /\ bound
    BY <1>3 DEF IInv, TypeOK, TasksConsistent, AcquireQueue
  <2>2. TypeOK'
    BY <1>3 DEF IInv, TypeOK, AcquireQueue
  <2>3. TasksConsistent'
    BY <1>3, <2>1 DEF IInv, TypeOK, TasksConsistent, AcquireQueue
  <2>4. SlotsConserved'
    <3>1. Holders' = Holders
      BY <1>3, <2>1 DEF IInv, TypeOK, Holders, AcquireQueue
    <3> QED BY <1>3, <3>1 DEF IInv, SlotsConserved, AcquireQueue
  <2>5. QueuedOnlyWhenFull'
    BY <1>3, <2>1 DEF IInv, QueuedOnlyWhenFull, AcquireQueue
  <2>6. QueueMatchesTasks'
    BY <1>3, <2>1 DEF IInv, TypeOK, QueueMatchesTasks, AcquireQueue
  <2> QED BY <2>2, <2>3, <2>4, <2>5, <2>6 DEF IInv
<1>4. ASSUME NEW t \in Tasks, Interrupt(t) PROVE IInv'
  <2>1. TypeOK'
    BY <1>4 DEF IInv, TypeOK, Interrupt
  <2>2. TasksConsistent'
    BY <1>4 DEF IInv, TypeOK, TasksConsistent, Interrupt
  <2>3. SlotsConserved'
    <3>1. Holders' = Holders
      BY <1>4 DEF IInv, TypeOK, Holders, Interrupt
    <3> QED BY <1>4, <3>1 DEF IInv, SlotsConserved, Interrupt
  <2>4. QueuedOnlyWhenFull' /\ QueueMatchesTasks'
    BY <1>4 DEF IInv, TypeOK, QueuedOnlyWhenFull, QueueMatchesTasks, Interrupt
  <2> QED BY <2>1, <2>2, <2>3, <2>4 DEF IInv
<1>5. ASSUME NEW t \in Tasks, ResumeGranted(t) PROVE IInv'
  <2>1. TypeOK'
    BY <1>5 DEF IInv, TypeOK, ResumeGranted
  <2>2. TasksConsistent'
    BY <1>5 DEF IInv, TypeOK, TasksConsistent, ResumeGranted
  <2>3. SlotsConserved'
    <3>1. Holders' = Holders
      BY <1>5 DEF IInv, TypeOK, Holders, ResumeGranted
    <3> QED BY <1>5, <3>1 DEF IInv, SlotsConserved, ResumeGranted
  <2>4. QueuedOnlyWhenFull' /\ QueueMatchesTasks'
    BY <1>5 DEF IInv, TypeOK, QueuedOnlyWhenFull, QueueMatchesTasks, ResumeGranted
  <2> QED BY <2>1, <2>2, <2>3, <2>4 DEF IInv
<1>6. ASSUME NEW t \in Tasks, AbandonCancelled(t) PROVE IInv'
  <2>1. bound
    BY <1>6 DEF AbandonCancelled, IInv, TasksConsistent
  <2>2. PICK q \in Seq(Tasks) :
             /\ q = Without(t)
             /\ Len(q) <= Len(waiters)
             /\ \A i, j \in 1 .. Len(q) : q[i] = q[j] => i = j
             /\ \A i \in 1 .. Len(q) : q[i] # t /\ \E j \in 1 .. Len(waiters) : q[i] = waiters[j]
             /\ \A j \in 1 .. Len(waiters) : waiters[j] # t => \E i \in 1 .. Len(q) : q[i] = waiters[j]
    BY <2>1, WithoutMember DEF IInv
  <2>3. waiters' = q
    BY <1>6, <2>2 DEF AbandonCancelled
  <2>4. TypeOK'
    BY <1>6, <2>3 DEF IInv, TypeOK, AbandonCancelled
  <2>5. TasksConsistent'
    BY <1>6 DEF IInv, TypeOK, TasksConsistent, AbandonCancelled
  <2>6. SlotsConserved'
    <3>1. Holders' = Holders
      BY <1>6 DEF IInv, TypeOK, Holders, AbandonCancelled
    <3> QED BY <1>6, <3>1 DEF IInv, SlotsConserved, AbandonCancelled
  <2>7. QueuedOnlyWhenFull'
    <3>1. waiters' # << >> => waiters # << >>
      BY <2>2, <2>3 DEF IInv, TypeOK
    <3> QED BY <1>6, <3>1 DEF IInv, QueuedOnlyWhenFull, AbandonCancelled
  <2>8. QueueMatchesTasks'
    <3>1. \A u \in Tasks \ {t} : fut'[u] = fut[u]
      BY <1>6 DEF AbandonCancelled, IInv, TypeOK
    <3>2. fut'[t] = "none"
      BY <1>6 DEF AbandonCancelled, IInv, TypeOK
    <3>3. \A i \in 1 .. Len(q) : fut'[q[i]] \in {"pending", "cancelled"}
      BY <2>1, <2>2, <3>1 DEF IInv, QueueMatchesTasks
    <3>4. \A u \in Tasks : fut'[u] = "pending" => \E i \in 1 .. Len(q) : q[i] = u
      BY <2>1, <2>2, <3>1, <3>2 DEF IInv, QueueMatchesTasks
    <3> QED BY <2>2, <2>3, <3>3, <3>4 DEF QueueMatchesTasks
  <2> QED BY <2>4, <2>5, <2>6, <2>7, <2>8 DEF IInv
<1>7. ASSUME NEW t \in Tasks, AbandonGranted(t) PROVE IInv'
  <2>1. "other" \in Outcomes
    BY DEF Outcomes
  <2>2. GivesBack(t, "other")
    BY <1>7 DEF AbandonGranted, GivesBack, Holders
  <2> QED BY <2>1, <2>2, GivesBackPreserves
<1>8. ASSUME NEW t \in Tasks, NEW outcome \in Outcomes, Release(t, outcome) PROVE IInv'
  <2>1. fut[t] = "none" /\ interrupted[t] = FALSE
    BY <1>8 DEF Release, IInv, TypeOK, TasksConsistent
  <2>2. fut = [fut EXCEPT ![t] = "none"] /\ interrupted = [interrupted EXCEPT ![t] = FALSE]
    BY <2>1 DEF IInv, TypeOK
  <2>3. GivesBack(t, outcome)
    BY <1>8, <2>2 DEF Release, GivesBack, Holders
  <2> QED BY <2>3, GivesBackPreserves
<1>9. CASE ReplaceLoop
  <2>1. TypeOK'
    <3>1. bound' \in BOOLEAN /\ interrupted' \in [Tasks -> BOOLEAN]
      BY <1>9, Zenon DEF ReplaceLoop
    <3> QED BY <1>9, <3>1 DEF IInv, TypeOK, ReplaceLoop
  <2>2. TasksConsistent'
    BY <1>9 DEF TasksConsistent, ReplaceLoop
  <2> QED BY <1>9, <2>1, <2>2
      DEF IInv, SlotsConserved, QueuedOnlyWhenFull, QueueMatchesTasks, ReplaceLoop
<1>10. CASE UNCHANGED vars
  BY <1>10 DEF vars, IInv, TypeOK, TasksConsistent, SlotsConserved, QueuedOnlyWhenFull,
              QueueMatchesTasks, Holders
<1> QED BY <1>2, <1>3, <1>4, <1>5, <1>6, <1>7, <1>8, <1>9, <1>10 DEF Next

\* The invariant holds in every reachable state.
LEMMA Invariance == Spec => []IInv
BY InitIInv, NextIInv, PTL DEF Spec

\* The bucket's fields keep their ranges: the limit stays between 1 and the
\* configured ceiling, the in-flight count never goes negative.
THEOREM LimiterTypeCorrect == Spec => []TypeOK
<1>1. IInv => TypeOK
  BY DEF IInv
<1> QED BY <1>1, Invariance, PTL

\* No slot leaks and none is given back twice, for any number of tasks.
THEOREM LimiterConservesSlots == Spec => []SlotsConserved
<1>1. IInv => SlotsConserved
  BY DEF IInv
<1> QED BY <1>1, Invariance, PTL

\* No wakeup is lost: nobody queues while a slot is free.
THEOREM LimiterWakesQueue == Spec => []QueuedOnlyWhenFull
<1>1. IInv => QueuedOnlyWhenFull
  BY DEF IInv
<1> QED BY <1>1, Invariance, PTL

\* The queue holds exactly the futures that still wait, and those cancelled
\* whose task has not run yet.
THEOREM LimiterQueueExact == Spec => []QueueMatchesTasks
<1>1. IInv => QueueMatchesTasks
  BY DEF IInv
<1> QED BY <1>1, Invariance, PTL

\* No step admits past the limit.
THEOREM LimiterGrantsWithinLimit == Spec => GrantsWithinLimit
<1> DEFINE A == in_flight' > in_flight => in_flight' <= limit'
<1>1. ASSUME IInv, NEW t \in Tasks, NEW outcome \in Outcomes,
             NEW f, Complete(outcome, f), in_flight > 0
      PROVE  A
  <2>1. PICK n \in Nat : n = in_flight - 1
    BY <1>1 DEF IInv, TypeOK
  <2>2. PICK l \in Nat : l = LimitAfter(outcome)
    BY <1>1, LimitStays DEF IInv
  <2>3. Wake(n, l, f) /\ limit' = l
    BY <1>1, <2>1, <2>2 DEF Complete
  <2>4. PICK k \in 0 .. Len(waiters) : WakeEffect(n, l, f, k)
    BY <1>1, <2>3, WakeGrants DEF IInv
  <2>5. in_flight' \in Nat /\ (in_flight' > n => in_flight' <= l)
    BY <2>4 DEF WakeEffect
  <2> QED BY <1>1, <2>1, <2>3, <2>5 DEF IInv, TypeOK
<1>2. ASSUME IInv, NEW t \in Holders PROVE in_flight > 0
  <2>1. bound
    BY <1>2 DEF IInv, TasksConsistent, Holders
  <2> QED BY <1>2, <2>1, HoldersFinite, FS_EmptySet DEF IInv, SlotsConserved
<1>3. IInv /\ [Next]_vars => [A]_vars
  <2> SUFFICES ASSUME IInv, Next PROVE A
    BY DEF vars
  <2>1. ASSUME NEW t \in Tasks, AcquireNow(t) PROVE A
    BY <2>1, LimiterAssumption DEF AcquireNow, IInv, TypeOK, LimiterAssumption
  <2>2. ASSUME NEW t \in Tasks, AbandonGranted(t) PROVE A
    <3>1. t \in Holders /\ "other" \in Outcomes
      BY <2>2 DEF AbandonGranted, Holders, Outcomes
    <3>2. PICK f : f = [fut EXCEPT ![t] = "none"]
      BY Zenon
    <3>3. Complete("other", f)
      BY <2>2, <3>2 DEF AbandonGranted
    <3> QED BY <1>1, <1>2, <3>1, <3>3
  <2>3. ASSUME NEW t \in Tasks, NEW outcome \in Outcomes, Release(t, outcome) PROVE A
    <3>1. t \in Holders
      BY <2>3 DEF Release, Holders
    <3>2. PICK f : f = fut
      OBVIOUS
    <3>3. Complete(outcome, f)
      BY <2>3, <3>2 DEF Release
    <3> QED BY <1>1, <1>2, <3>1, <3>3
  <2>4. ASSUME in_flight' = in_flight PROVE A
    BY <2>4 DEF IInv, TypeOK
  <2> QED BY <2>1, <2>2, <2>3, <2>4
      DEF Next, AcquireQueue, Interrupt, ResumeGranted, AbandonCancelled, ReplaceLoop
<1> QED BY <1>3, Invariance, PTL DEF Spec, GrantsWithinLimit

-----------------------------------------------------------------------------
(* First come, first served *)

\* u keeps waiting through the step, and v is behind it or not in line.
Ahead(u, v) ==
    /\ Pending(u) /\ Pending(u)'
    /\ u \in Tasks /\ v \in Tasks \ {u}
    /\ ~ Pending(v) \/ Behind(waiters, u, v)

\* What the step may not do to them.
Orderly(u, v) == ~ Served(v) /\ (Pending(v)' => Behind(waiters', u, v))

\* Whoever waits is in the queue of a bucket that has a loop.
LEMMA WaiterQueued ==
    ASSUME IInv, NEW u \in Tasks, Pending(u)
    PROVE  bound /\ \E i \in 1 .. Len(waiters) : waiters[i] = u
BY DEF IInv, TasksConsistent, QueueMatchesTasks, Pending

\* A step that hands out no slot and adds no waiter, and from which the queue
\* keeps its order.
LEMMA QuietOrder ==
    ASSUME NEW u, NEW v, Ahead(u, v), Holders' = Holders,
           Pending(v)' => Pending(v),
           Pending(v)' /\ Behind(waiters, u, v) => Behind(waiters', u, v)
    PROVE  Orderly(u, v)
BY DEF Ahead, Orderly, Served

\* A slot that is given back goes to the head of the queue: whoever is granted
\* one, everyone ahead of it is granted one as well.
LEMMA GivesBackInOrder ==
    ASSUME IInv, NEW t \in Tasks, NEW outcome \in Outcomes, GivesBack(t, outcome),
           NEW u, NEW v, Ahead(u, v)
    PROVE  Orderly(u, v)
<1>1. /\ TypeOK /\ bound /\ in_flight > 0 /\ fut[t] # "pending"
      /\ u \in Tasks /\ v \in Tasks /\ u # v
      /\ fut[u] = "pending" /\ fut'[u] = "pending"
      /\ fut[v] = "pending" => Behind(waiters, u, v)
      /\ \A i, j \in 1 .. Len(waiters) : waiters[i] = waiters[j] => i = j
  <2>1. bound
    BY WaiterQueued DEF Ahead
  <2>2. in_flight > 0
    BY <2>1, HoldersFinite, FS_EmptySet DEF IInv, SlotsConserved, GivesBack
  <2>3. fut[t] # "pending"
    BY DEF GivesBack, Holders, IInv, TasksConsistent
  <2> QED BY <2>1, <2>2, <2>3 DEF IInv, Ahead, Pending, QueueMatchesTasks
<1>2. PICK n, l, f :
        /\ n \in Nat /\ n = in_flight - 1
        /\ l \in Nat /\ l = LimitAfter(outcome)
        /\ f = [fut EXCEPT ![t] = "none"]
  <2>1. in_flight - 1 \in Nat
    BY <1>1 DEF TypeOK
  <2>2. LimitAfter(outcome) \in Nat
    BY <1>1, LimitStays
  <2> QED BY <2>1, <2>2, ZenonT(40)
<1>3. Wake(n, l, f) /\ pc' = [pc EXCEPT ![t] = "idle"]
  BY <1>1, <1>2 DEF GivesBack, Complete
<1>4. PICK k \in 0 .. Len(waiters) : WakeEffect(n, l, f, k)
  BY <1>1, <1>2, <1>3, WakeGrants
<1>5. /\ Granted(k) \in SUBSET {w \in Tasks : fut[w] = "pending"}
      /\ waiters' = SubSeq(waiters, k + 1, Len(waiters))
      /\ fut' = [w \in Tasks |-> IF w \in Granted(k) THEN "granted" ELSE f[w]]
  BY <1>4 DEF WakeEffect
<1>6. u \notin Granted(k)
  BY <1>1, <1>5, ZenonT(40)
<1>7. ASSUME NEW i \in 1 .. Len(waiters), waiters[i] = u
      PROVE  i > k
  BY <1>1, <1>6, <1>7 DEF Granted, Popped
<1>8. v \notin Granted(k)
  <2> SUFFICES ASSUME v \in Granted(k) PROVE FALSE
    OBVIOUS
  <2>1. fut[v] = "pending" /\ \E m \in 1 .. k : waiters[m] = v
    BY DEF Granted, Popped
  <2>2. PICK m \in 1 .. Len(waiters) : m <= k /\ waiters[m] = v
    BY <2>1
  <2>3. PICK i \in 1 .. Len(waiters), j \in 1 .. Len(waiters) :
          i < j /\ waiters[i] = u /\ waiters[j] = v
    BY <1>1, <2>1 DEF Behind
  <2>4. j = m
    BY <1>1, <2>2, <2>3
  <2> QED BY <1>7, <2>2, <2>3, <2>4
<1>9. ~ Served(v)
  BY <1>1, <1>2, <1>3, <1>5, <1>8, ZenonT(40) DEF Served, Holders, TypeOK
<1>10. ASSUME fut'[v] = "pending" PROVE Behind(waiters', u, v)
  <2>1. fut[v] = "pending"
    BY <1>1, <1>2, <1>5, <1>10, ZenonT(40) DEF TypeOK
  <2>2. PICK i \in 1 .. Len(waiters), j \in 1 .. Len(waiters) :
          i < j /\ waiters[i] = u /\ waiters[j] = v
    BY <1>1, <2>1 DEF Behind
  <2>3. i > k
    BY <1>7, <2>2, ZenonT(40)
  <2>4. /\ Len(waiters') = Len(waiters) - k
        /\ \A m \in 1 .. Len(waiters) - k : waiters'[m] = waiters[k + m]
    BY <1>1, <1>5 DEF TypeOK
  <2>5. /\ i - k \in 1 .. Len(waiters) - k /\ k + (i - k) = i
        /\ j - k \in 1 .. Len(waiters) - k /\ k + (j - k) = j
        /\ i - k < j - k
    BY <2>2, <2>3
  <2>6. waiters'[i - k] = u /\ waiters'[j - k] = v
    BY <2>2, <2>4, <2>5, ZenonT(40)
  <2> QED BY <2>4, <2>5, <2>6, ZenonT(40) DEF Behind
<1> QED BY <1>9, <1>10 DEF Orderly, Pending

\* Every step is orderly.
LEMMA StepInOrder ==
    ASSUME IInv, Next, NEW u, NEW v, Ahead(u, v)
    PROVE  Orderly(u, v)
<1>1. /\ TypeOK /\ TasksConsistent /\ bound
      /\ u \in Tasks /\ v \in Tasks /\ u # v
      /\ fut[u] = "pending" /\ fut'[u] = "pending"
      /\ fut[v] = "pending" => Behind(waiters, u, v)
  BY WaiterQueued DEF IInv, Ahead, Pending
<1>2. PICK p \in 1 .. Len(waiters) : waiters[p] = u
  BY WaiterQueued DEF Ahead
<1>3. ASSUME NEW t \in Tasks, AcquireNow(t) PROVE Orderly(u, v)
  <2>1. waiters = << >>
    BY <1>1, <1>3 DEF AcquireNow
  <2> QED BY <1>2, <2>1
<1>4. ASSUME NEW t \in Tasks, AcquireQueue(t) PROVE Orderly(u, v)
  <2>1. /\ waiters' = Append(waiters, t) /\ pc' = [pc EXCEPT ![t] = "waiting"]
        /\ fut' = [fut EXCEPT ![t] = "pending"] /\ pc[t] = "idle"
    BY <1>4 DEF AcquireQueue
  <2>2. /\ Len(waiters') = Len(waiters) + 1 /\ waiters'[Len(waiters) + 1] = t
        /\ \A i \in 1 .. Len(waiters) : waiters'[i] = waiters[i]
    BY <1>1, <2>1 DEF TypeOK
  <2>3. fut[t] # "granted" /\ t # u
    BY <1>1, <2>1 DEF TasksConsistent
  <2>4. ~ Served(v)
    BY <1>1, <2>1, <2>3 DEF Served, Holders, TypeOK
  <2>5. CASE v = t
    <3>1. p \in 1 .. Len(waiters') /\ Len(waiters) + 1 \in 1 .. Len(waiters')
          /\ p < Len(waiters) + 1
      BY <1>1, <2>2 DEF TypeOK
    <3>2. Behind(waiters', u, v)
      BY <1>2, <2>2, <2>5, <3>1 DEF Behind
    <3> QED BY <2>4, <3>2 DEF Orderly
  <2>6. CASE v # t
    <3>1. Pending(v)' => Pending(v)
      BY <1>1, <2>1, <2>6 DEF Pending, TypeOK
    <3>2. ASSUME Behind(waiters, u, v) PROVE Behind(waiters', u, v)
      <4>1. PICK i \in 1 .. Len(waiters), j \in 1 .. Len(waiters) :
              i < j /\ waiters[i] = u /\ waiters[j] = v
        BY <3>2 DEF Behind
      <4>2. i \in 1 .. Len(waiters') /\ j \in 1 .. Len(waiters')
        BY <1>1, <2>2 DEF TypeOK
      <4> QED BY <2>2, <4>1, <4>2 DEF Behind
    <3> QED BY <1>1, <2>4, <3>1, <3>2 DEF Orderly, Pending
  <2> QED BY <2>5, <2>6
<1>5. ASSUME NEW t \in Tasks, Interrupt(t) PROVE Orderly(u, v)
  <2>1. Holders' = Holders /\ waiters' = waiters /\ (Pending(v)' => Pending(v))
    BY <1>1, <1>5 DEF Interrupt, Holders, Pending, TypeOK
  <2> QED BY <2>1, QuietOrder
<1>6. ASSUME NEW t \in Tasks, ResumeGranted(t) PROVE Orderly(u, v)
  <2>1. Holders' = Holders /\ waiters' = waiters /\ (Pending(v)' => Pending(v))
    BY <1>1, <1>6 DEF ResumeGranted, Holders, Pending, TypeOK
  <2> QED BY <2>1, QuietOrder
<1>7. ASSUME NEW t \in Tasks, AbandonCancelled(t) PROVE Orderly(u, v)
  <2>1. Holders' = Holders /\ waiters' = Without(t) /\ (Pending(v)' => Pending(v) /\ v # t)
    BY <1>1, <1>7 DEF AbandonCancelled, Holders, Pending, TypeOK
  <2>2. u # t
    BY <1>1, <1>7 DEF AbandonCancelled
  <2>3. Pending(v)' /\ Behind(waiters, u, v) => Behind(Without(t), u, v)
    BY <1>1, <2>1, <2>2, WithoutOrder
  <2> QED BY <2>1, <2>3, QuietOrder
<1>8. ASSUME NEW t \in Tasks, AbandonGranted(t) PROVE Orderly(u, v)
  <2>1. "other" \in Outcomes
    BY DEF Outcomes
  <2>2. GivesBack(t, "other")
    BY <1>8 DEF AbandonGranted, GivesBack, Holders
  <2> QED BY <2>1, <2>2, GivesBackInOrder
<1>9. ASSUME NEW t \in Tasks, NEW outcome \in Outcomes, Release(t, outcome) PROVE Orderly(u, v)
  <2>1. fut[t] = "none" /\ interrupted[t] = FALSE
    BY <1>9 DEF Release, IInv, TypeOK, TasksConsistent
  <2>2. fut = [fut EXCEPT ![t] = "none"] /\ interrupted = [interrupted EXCEPT ![t] = FALSE]
    BY <2>1 DEF IInv, TypeOK
  <2>3. GivesBack(t, outcome)
    BY <1>9, <2>2 DEF Release, GivesBack, Holders
  <2> QED BY <2>3, GivesBackInOrder
<1>10. CASE ReplaceLoop
  BY <1>1, <1>10 DEF ReplaceLoop
<1> QED BY <1>3, <1>4, <1>5, <1>6, <1>7, <1>8, <1>9, <1>10 DEF Next

\* Nobody overtakes in a bucket's queue, whatever is granted, cancelled,
\* abandoned or released meanwhile (has_free_slot, wake_waiters, abandon).
THEOREM LimiterServesInOrder == Spec => FirstComeFirstServed
<1>1. IInv /\ [Next]_vars =>
        [\A u \in Tasks : Pending(u) /\ Pending(u)' =>
           \A v \in Tasks \ {u} : ~ Pending(v) \/ Behind(waiters, u, v) =>
               /\ ~ Served(v)
               /\ Pending(v)' => Behind(waiters', u, v)]_vars
  <2> SUFFICES ASSUME IInv, Next, NEW u \in Tasks, Pending(u), Pending(u)',
                      NEW v \in Tasks \ {u}, ~ Pending(v) \/ Behind(waiters, u, v)
               PROVE  ~ Served(v) /\ (Pending(v)' => Behind(waiters', u, v))
    OBVIOUS
  <2>1. Ahead(u, v)
    BY DEF Ahead
  <2>2. Orderly(u, v)
    BY <2>1, StepInOrder
  <2> QED BY <2>2 DEF Orderly
<1> QED BY <1>1, Invariance, PTL DEF Spec, FirstComeFirstServed

-----------------------------------------------------------------------------
(* EngineGate *)

\* A dispatch in epoch e: a future exists exactly while it is in line, a place
\* only once it is sent, and no place is of an epoch to come.
Fits(x, e) ==
    /\ x.fut # "none" <=> x.at = "line"
    /\ x.place # "none" => x.at = "sent"
    /\ x.epoch <= e

\* The dispatches h of the gate in epoch e.
Consistent(h, e) ==
    /\ h \in [Dispatches -> Hold]
    /\ \A d \in Dispatches : Fits(h[d], e)

\* Those of them a counted place belongs to.
Placed(h, e) ==
    {d \in Dispatches : h[d].fut = "granted" \/ (h[d].place = "held" /\ h[d].epoch = e)}

GateIInv ==
    /\ GateTypeOK
    /\ Consistent(hold, epoch)
    /\ ~ gateBound => \A d \in Dispatches : hold[d].at # "line"
    /\ pending = Cardinality(Placed(hold, epoch))

\* Places can be counted.
LEMMA PlacedFinite ==
    ASSUME NEW h, NEW e
    PROVE  IsFiniteSet(Placed(h, e)) /\ Cardinality(Placed(h, e)) \in Nat
<1>1. Placed(h, e) \in SUBSET Dispatches
  BY DEF Placed
<1> QED BY <1>1, FS_Subset, FS_CardinalityType, GateAssumption

\* What is left of a line is a line.
LEMMA RestOfLine ==
    ASSUME NEW q \in Seq(Dispatches), NEW k \in 0 .. Len(q)
    PROVE  SubSeq(q, k + 1, Len(q)) \in Seq(Dispatches)
OBVIOUS

\* What wake_waiters does to a line q: it grants pending futures only, and never
\* a place past the limit.
LEMMA WakeGives ==
    ASSUME NEW n \in Nat, NEW l \in Nat, NEW h, NEW q \in Seq(Dispatches), NEW k,
           WakeEnds(n, l, h, q, k)
    PROVE  /\ Woken(h, q, k) \in SUBSET {d \in Dispatches : h[d].fut = "pending"}
           /\ IsFiniteSet(Woken(h, q, k))
           /\ Cardinality(Woken(h, q, k)) \in Nat
           /\ Cardinality(Woken(h, q, k)) > 0 => n + Cardinality(Woken(h, q, k)) <= l
<1>1. /\ k \in 0 .. Len(q)
      /\ \A j \in 0 .. k - 1 : ~ WakeStops(n, l, h, q, j)
  BY DEF WakeEnds
<1>2. ASSUME NEW j \in 0 .. Len(q)
      PROVE  /\ Woken(h, q, j) \in SUBSET {d \in Dispatches : h[d].fut = "pending"}
             /\ IsFiniteSet(Woken(h, q, j))
             /\ Cardinality(Woken(h, q, j)) \in Nat
  <2>1. Woken(h, q, j) \in SUBSET {d \in Dispatches : h[d].fut = "pending"}
    BY DEF Woken
  <2>2. Woken(h, q, j) \in SUBSET Dispatches
    BY <2>1
  <2> QED BY <2>1, <2>2, FS_Subset, FS_CardinalityType, GateAssumption
<1>3. ASSUME Cardinality(Woken(h, q, k)) > 0
      PROVE  n + Cardinality(Woken(h, q, k)) <= l
  <2>1. k # 0
    <3>1. ASSUME k = 0 PROVE FALSE
      <4>1. Woken(h, q, k) = {}
        BY <3>1 DEF Woken
      <4> QED BY <1>3, <4>1, FS_EmptySet
    <3> QED BY <3>1
  <2>2. PICK j \in 0 .. Len(q) : j = k - 1
    BY <1>1, <2>1
  <2>3. /\ IsFiniteSet(Woken(h, q, j))
        /\ Cardinality(Woken(h, q, j)) \in Nat
    BY <1>2
  <2>4. n + Cardinality(Woken(h, q, j)) < l
    <3>1. ~ WakeStops(n, l, h, q, j)
      BY <1>1, <2>1, <2>2
    <3> QED BY <2>3, <3>1 DEF WakeStops
  <2>5. Woken(h, q, k) \subseteq Woken(h, q, j) \cup {q[k]}
    BY <1>1, <2>1, <2>2 DEF Woken
  <2>6. /\ IsFiniteSet(Woken(h, q, j) \cup {q[k]})
        /\ Cardinality(Woken(h, q, j) \cup {q[k]}) \in Nat
        /\ Cardinality(Woken(h, q, j) \cup {q[k]}) <= Cardinality(Woken(h, q, j)) + 1
    BY <2>3, OneMore, Zenon
  <2>7. Cardinality(Woken(h, q, k)) <= Cardinality(Woken(h, q, j) \cup {q[k]})
    BY <2>5, <2>6, FS_Subset
  <2>8. Cardinality(Woken(h, q, k)) \in Nat
    BY <1>1, <1>2, Zenon
  <2> QED BY <2>3, <2>4, <2>6, <2>7, <2>8
<1> QED BY <1>1, <1>2, <1>3

\* Dispatches that are served keep the gate consistent, and each counts once.
LEMMA ServedCount ==
    ASSUME NEW e \in Nat, NEW h, Consistent(h, e),
           NEW W \in SUBSET {d \in Dispatches : h[d].fut = "pending"}, IsFiniteSet(W)
    PROVE  /\ Consistent(Serve(h, W), e)
           /\ \A d \in Dispatches : Serve(h, W)[d].at = h[d].at
           /\ Cardinality(Placed(Serve(h, W), e)) = Cardinality(Placed(h, e)) + Cardinality(W)
<1> DEFINE g == Serve(h, W)
<1>1. ASSUME NEW d \in Dispatches
      PROVE  /\ g[d] \in Hold /\ g[d].at = h[d].at /\ g[d].place = h[d].place
             /\ g[d].epoch = h[d].epoch
             /\ g[d].fut = IF d \in W THEN "granted" ELSE h[d].fut
  <2>1. h[d] \in Hold /\ g[d] = IF d \in W THEN [h[d] EXCEPT !.fut = "granted"] ELSE h[d]
    BY DEF Consistent, Fits, Serve
  <2> HIDE DEF g
  <2> QED BY <2>1 DEF Hold
<1>2. Consistent(g, e)
  <2>1. g \in [Dispatches -> Hold]
    <3>1. g = [d \in Dispatches |-> g[d]]
      BY DEF Serve
    <3> QED BY <1>1, <3>1
  <2>2. \A d \in Dispatches : d \in W => h[d].fut = "pending"
    OBVIOUS
  <2> HIDE DEF g
  <2> QED BY <1>1, <2>1, <2>2 DEF Consistent, Fits
<1>3. Placed(g, e) = Placed(h, e) \cup W
  <2> HIDE DEF g
  <2> QED BY <1>1 DEF Placed
<1>4. Placed(h, e) \cap W = {}
  BY DEF Placed, Consistent, Fits
<1>5. Cardinality(Placed(h, e) \cup W) =
        Cardinality(Placed(h, e)) + Cardinality(W) - Cardinality(Placed(h, e) \cap W)
  BY PlacedFinite, FS_Union
<1>6. Cardinality(Placed(h, e) \cap W) = 0
  BY <1>4, FS_EmptySet
<1>7. Cardinality(Placed(h, e)) \in Nat /\ Cardinality(W) \in Nat
  BY PlacedFinite, FS_CardinalityType
<1>8. Cardinality(Placed(g, e)) = Cardinality(Placed(h, e)) + Cardinality(W)
  BY <1>3, <1>5, <1>6, <1>7
<1> QED BY <1>1, <1>2, <1>8

\* Dispatch d of g becomes x, and the others stay.
Becomes(g, h, d, x) == h = [g EXCEPT ![d] = x]

\* It does in a consistent gate of epoch e, and fits it.
Changes(g, h, e, d, x) ==
    /\ e \in Nat /\ Consistent(g, e)
    /\ d \in Dispatches /\ x \in Hold /\ Fits(x, e)
    /\ Becomes(g, h, d, x)

\* How the places then count: one more, or less, or as many.
Recounted(g, h, e, d, x) ==
    /\ Consistent(h, e)
    /\ d \in Placed(h, e) <=> x.fut = "granted" \/ (x.place = "held" /\ x.epoch = e)
    /\ d \in Placed(g, e) /\ d \notin Placed(h, e) =>
          /\ Cardinality(Placed(g, e)) > 0
          /\ Cardinality(Placed(h, e)) = Cardinality(Placed(g, e)) - 1
    /\ d \notin Placed(g, e) /\ d \in Placed(h, e) =>
          Cardinality(Placed(h, e)) = Cardinality(Placed(g, e)) + 1
    /\ (d \in Placed(g, e) <=> d \in Placed(h, e)) =>
          Cardinality(Placed(h, e)) = Cardinality(Placed(g, e))

\* One dispatch changes.
LEMMA PlaceChanges ==
    ASSUME NEW g, NEW h, NEW e, NEW d, NEW x, Changes(g, h, e, d, x)
    PROVE  Recounted(g, h, e, d, x)
<1>0. /\ e \in Nat /\ Consistent(g, e)
      /\ d \in Dispatches /\ x \in Hold /\ Fits(x, e)
      /\ Becomes(g, h, d, x)
  BY DEF Changes
<1>1. h \in [Dispatches -> Hold] /\ h[d] = x /\ \A c \in Dispatches : c # d => h[c] = g[c]
  BY <1>0 DEF Consistent, Becomes
<1>2. Consistent(h, e)
  BY <1>0, <1>1 DEF Consistent, Fits
<1>3. d \in Placed(h, e) <=> x.fut = "granted" \/ (x.place = "held" /\ x.epoch = e)
  BY <1>0, <1>1 DEF Placed
<1>4. Placed(h, e) \ {d} = Placed(g, e) \ {d}
  BY <1>1 DEF Placed
<1>5. /\ IsFiniteSet(Placed(h, e)) /\ Cardinality(Placed(h, e)) \in Nat
      /\ IsFiniteSet(Placed(g, e)) /\ Cardinality(Placed(g, e)) \in Nat
  BY PlacedFinite
<1>6. /\ IsFiniteSet(Placed(h, e) \ {d})
      /\ Cardinality(Placed(h, e) \ {d}) =
           IF d \in Placed(h, e) THEN Cardinality(Placed(h, e)) - 1 ELSE Cardinality(Placed(h, e))
  BY <1>5, FS_RemoveElement
<1>7. Cardinality(Placed(g, e) \ {d}) =
           IF d \in Placed(g, e) THEN Cardinality(Placed(g, e)) - 1 ELSE Cardinality(Placed(g, e))
  BY <1>5, FS_RemoveElement, ZenonT(40)
<1>8. Cardinality(Placed(g, e) \ {d}) \in Nat
  BY <1>4, <1>6, FS_CardinalityType, Zenon
<1>9. Cardinality(Placed(h, e) \ {d}) = Cardinality(Placed(g, e) \ {d})
  BY <1>4
<1>10. d \in Placed(g, e) => Cardinality(Placed(g, e)) > 0
  BY <1>5, <1>7, <1>8
<1> QED BY <1>2, <1>3, <1>5, <1>6, <1>7, <1>9, <1>10 DEF Recounted

\* The count n of the places is exact.
Counted(h, e, n) == Consistent(h, e) /\ n = Cardinality(Placed(h, e))

\* A wake that starts from the count n of the places of h, under limit l.
Wakes(h, n, l, q, k, g, m, e) ==
    /\ e \in Nat /\ n \in Nat /\ l \in Nat /\ q \in Seq(Dispatches)
    /\ Counted(h, e, n) /\ WakeEnds(n, l, h, q, k)
    /\ m = n + Cardinality(Woken(h, q, k)) /\ g = Serve(h, Woken(h, q, k))

\* What a wake makes of dispatches h and a count n under limit l: g and m.
WokenTo(h, n, l, g, m, e) ==
    /\ Counted(g, e, m) /\ m \in Nat /\ (m > n => m <= l)
    /\ \A d \in Dispatches : g[d].at = h[d].at
    /\ \A d \in Dispatches : h[d].fut # "pending" => g[d] = h[d]

\* The gate after a wake.
LEMMA WakeCounts ==
    ASSUME NEW h, NEW n, NEW l, NEW q, NEW k, NEW g, NEW m, NEW e,
           Wakes(h, n, l, q, k, g, m, e)
    PROVE  WokenTo(h, n, l, g, m, e)
<1> DEFINE W == Woken(h, q, k)
<1>1. /\ e \in Nat /\ n \in Nat /\ l \in Nat /\ q \in Seq(Dispatches)
      /\ Consistent(h, e) /\ n = Cardinality(Placed(h, e)) /\ WakeEnds(n, l, h, q, k)
      /\ m = n + Cardinality(W) /\ g = Serve(h, W)
  BY ZenonT(40) DEF Wakes, Counted
<1>2. /\ W \in SUBSET {d \in Dispatches : h[d].fut = "pending"}
      /\ IsFiniteSet(W)
      /\ Cardinality(W) \in Nat
      /\ Cardinality(W) > 0 => n + Cardinality(W) <= l
  BY <1>1, WakeGives
<1> HIDE DEF W
<1>3. \A d \in Dispatches : h[d].fut # "pending" => g[d] = h[d]
  BY <1>1, <1>2 DEF Serve
<1>4. /\ Consistent(g, e)
      /\ \A d \in Dispatches : g[d].at = h[d].at
      /\ Cardinality(Placed(g, e)) = n + Cardinality(W)
  BY <1>1, <1>2, ServedCount, ZenonT(40)
<1>5. Counted(g, e, m)
  BY <1>1, <1>4, Zenon DEF Counted
<1>6. m \in Nat /\ (m > n => m <= l)
  BY <1>1, <1>2
<1> QED BY <1>3, <1>4, <1>5, <1>6, ZenonT(40) DEF WokenTo

\* What no step but an overflow may do.
WithinLimit == pending' > pending => pending' <= gateLimit'

\* What is known of the gate's own fields.
LEMMA GateFacts ==
    ASSUME GateIInv
    PROVE  /\ gateLimit \in Nat /\ pending \in Nat /\ epoch \in Nat /\ epoch <= MaxEpoch
           /\ MaxEpoch \in Nat /\ line \in Seq(Dispatches) /\ hold \in [Dispatches -> Hold]
           /\ Consistent(hold, epoch) /\ pending = Cardinality(Placed(hold, epoch))
BY GateAssumption DEF GateIInv, GateTypeOK

\* The same for the gate at hand: how a dispatch counts after it became x.
LEMMA HoldChanges ==
    ASSUME GateIInv, NEW d \in Dispatches, NEW x \in Hold,
           Fits(x, epoch), NEW h, Becomes(hold, h, d, x)
    PROVE  /\ Consistent(h, epoch)
           /\ d \in Placed(h, epoch) <=> x.fut = "granted" \/ (x.place = "held" /\ x.epoch = epoch)
           /\ d \in Placed(hold, epoch) /\ d \notin Placed(h, epoch) =>
                 pending > 0 /\ Cardinality(Placed(h, epoch)) = pending - 1
           /\ d \notin Placed(hold, epoch) /\ d \in Placed(h, epoch) =>
                 Cardinality(Placed(h, epoch)) = pending + 1
           /\ (d \in Placed(hold, epoch) <=> d \in Placed(h, epoch)) =>
                 Cardinality(Placed(h, epoch)) = pending
<1>1. /\ epoch \in Nat /\ pending \in Nat /\ Consistent(hold, epoch)
      /\ pending = Cardinality(Placed(hold, epoch))
  BY GateFacts
<1>2. PICK e, g : e \in Nat /\ e = epoch /\ g = hold
  BY <1>1
<1>3. /\ Consistent(g, e) /\ Becomes(g, h, d, x) /\ Fits(x, e)
      /\ pending = Cardinality(Placed(g, e))
  BY <1>1, <1>2 DEF Fits, Becomes
<1>4. Recounted(g, h, e, d, x)
  <2>1. Changes(g, h, e, d, x)
    BY <1>2, <1>3, ZenonT(40) DEF Changes
  <2> QED BY <2>1, PlaceChanges, Zenon
<1>5. /\ Consistent(h, epoch)
      /\ d \in Placed(h, epoch) <=> x.fut = "granted" \/ (x.place = "held" /\ x.epoch = epoch)
  BY <1>1, <1>2, <1>4 DEF Recounted
<1>6. /\ d \in Placed(hold, epoch) /\ d \notin Placed(h, epoch) =>
            pending > 0 /\ Cardinality(Placed(h, epoch)) = pending - 1
      /\ d \notin Placed(hold, epoch) /\ d \in Placed(h, epoch) =>
            Cardinality(Placed(h, epoch)) = pending + 1
      /\ (d \in Placed(hold, epoch) <=> d \in Placed(h, epoch)) =>
            Cardinality(Placed(h, epoch)) = pending
  BY <1>1, <1>2, <1>3, <1>4, ZenonT(40) DEF Recounted
<1> QED BY <1>5, <1>6

\* A step that leaves the gate's limit, epoch and loop alone.
LEMMA GateStays ==
    ASSUME GateIInv, UNCHANGED <<gateLimit, epoch, gateBound>>,
           pending' \in Nat, line' \in Seq(Dispatches),
           Consistent(hold', epoch),
           ~ gateBound => \A d \in Dispatches : hold'[d].at # "line",
           pending' = Cardinality(Placed(hold', epoch))
    PROVE  GateIInv'
BY DEF GateIInv, GateTypeOK, Consistent, Fits, Placed

\* A step that leaves the count alone as well.
LEMMA CountStays ==
    ASSUME GateIInv, UNCHANGED <<gateLimit, epoch, gateBound, pending>>,
           line' \in Seq(Dispatches),
           Consistent(hold', epoch),
           ~ gateBound => \A d \in Dispatches : hold'[d].at # "line",
           Cardinality(Placed(hold', epoch)) = pending
    PROVE  GateIInv' /\ WithinLimit
<1>1. pending \in Nat /\ pending' = pending
  BY GateFacts, ZenonT(40)
<1>2. WithinLimit
  BY <1>1 DEF WithinLimit
<1>3. pending' \in Nat /\ pending' = Cardinality(Placed(hold', epoch))
  BY <1>1, Zenon
<1>4. GateIInv'
  BY <1>3, GateStays, ZenonT(40)
<1> QED BY <1>2, <1>4

\* give_back of dispatch d's place; h is the gate without it.
LEMMA GiveBackKeeps ==
    ASSUME GateIInv, NEW d \in Dispatches, NEW e, NEW h, NEW q \in Seq(Dispatches),
           Consistent(h, epoch),
           ~ gateBound => \A c \in Dispatches : h[c].at # "line",
           e = epoch => /\ pending > 0
                        /\ Cardinality(Placed(h, epoch)) = pending - 1,
           e # epoch => Cardinality(Placed(h, epoch)) = pending,
           GiveBack(e, h, q), UNCHANGED <<gateLimit, epoch, gateBound>>
    PROVE  GateIInv' /\ WithinLimit
<1>1. gateLimit \in Nat /\ pending \in Nat /\ epoch \in Nat
  BY GateFacts
<1>2. CASE e # epoch
  <2>1. hold' = h /\ line' = q /\ pending' = pending
    BY <1>2 DEF GiveBack
  <2> QED BY <1>2, <2>1, CountStays, ZenonT(40)
<1>3. CASE e = epoch
  <2>1. PICK n \in Nat, l \in Nat, f \in Nat : n = pending - 1 /\ l = gateLimit /\ f = epoch
    BY <1>1, <1>3
  <2>2. PICK k \in 0 .. Len(q) :
          /\ WakeEnds(n, l, h, q, k)
          /\ pending' = n + Cardinality(Woken(h, q, k))
          /\ line' = SubSeq(q, k + 1, Len(q))
          /\ hold' = Serve(h, Woken(h, q, k))
    <3>1. WakeLine(n, l, h, q)
      BY <1>1, <1>3, <2>1 DEF GiveBack
    <3> QED BY <3>1, ZenonT(40) DEF WakeLine
  <2>3. Counted(h, f, n)
    BY <1>1, <1>3, <2>1, ZenonT(40) DEF Counted
  <2>4. PICK m, g : m = pending' /\ g = hold'
    OBVIOUS
  <2>5. /\ Counted(g, f, m) /\ m \in Nat /\ (m > n => m <= l)
        /\ \A c \in Dispatches : g[c].at = h[c].at
    <3>1. /\ WakeEnds(n, l, h, q, k) /\ m = n + Cardinality(Woken(h, q, k))
          /\ g = Serve(h, Woken(h, q, k))
      BY <2>2, <2>4, Zenon
    <3>2. WokenTo(h, n, l, g, m, f)
      <4>1. Wakes(h, n, l, q, k, g, m, f)
        BY <2>3, <3>1, ZenonT(40) DEF Wakes
      <4> QED BY <4>1, WakeCounts, Zenon
    <3> QED BY <3>2, ZenonT(40) DEF WokenTo
  <2>6. line' \in Seq(Dispatches)
    BY <2>2, RestOfLine, ZenonT(40)
  <2>7. /\ Consistent(hold', epoch) /\ pending' \in Nat /\ (pending' > n => pending' <= gateLimit)
        /\ \A c \in Dispatches : hold'[c].at = h[c].at
        /\ pending' = Cardinality(Placed(hold', epoch))
    BY <1>1, <2>1, <2>4, <2>5, ZenonT(40) DEF Counted
  <2>8. GateIInv'
    BY <2>6, <2>7, GateStays, ZenonT(40)
  <2>9. WithinLimit
    <3>1. pending' \in Nat /\ (pending' > pending - 1 => pending' <= gateLimit')
      BY <2>1, <2>7, ZenonT(40)
    <3> QED BY <1>1, <3>1 DEF WithinLimit
  <2> QED BY <2>8, <2>9
<1> QED BY <1>2, <1>3

\* abandon takes a dispatch out of the line at most.
LEMMA LineWithoutType ==
    ASSUME NEW d \in Dispatches, line \in Seq(Dispatches)
    PROVE  LineWithout(d) \in Seq(Dispatches)
<1> DEFINE A == {i \in 1 .. Len(line) : line[i] = d}
           i == CHOOSE i \in A : TRUE
<1>1. CASE A = {}
  BY <1>1 DEF LineWithout
<1>2. CASE A # {}
  <2>1. i \in 1 .. Len(line)
    BY <1>2
  <2>2. LineWithout(d) = SubSeq(line, 1, i - 1) \o SubSeq(line, i + 1, Len(line))
    BY <1>2, Zenon DEF LineWithout
  <2> HIDE DEF i
  <2>3. SubSeq(line, 1, i - 1) \in Seq(Dispatches)
    BY <2>1
  <2>4. SubSeq(line, i + 1, Len(line)) \in Seq(Dispatches)
    BY <2>1
  <2> QED BY <2>2, <2>3, <2>4, ConcatAt
<1> QED BY <1>1, <1>2

\* What a dispatch outside the gate and one just sent look like.
LEMMA AwayAndSent ==
    ASSUME GateIInv, NEW e \in 0 .. MaxEpoch, NEW deadline \in BOOLEAN
    PROVE  /\ Away \in Hold /\ Away.at = "away" /\ Away.fut = "none" /\ Away.place = "none"
           /\ Away.epoch = 0
           /\ Sent(e, deadline) \in Hold /\ Sent(e, deadline).at = "sent"
           /\ Sent(e, deadline).fut = "none" /\ Sent(e, deadline).place = "held"
           /\ Sent(e, deadline).epoch = e
<1>1. MaxEpoch \in Nat
  BY GateAssumption
<1>2. /\ Away \in Hold /\ Away.at = "away" /\ Away.fut = "none" /\ Away.place = "none"
      /\ Away.epoch = 0
  BY <1>1 DEF Away, Hold
<1> DEFINE a1 == [Away EXCEPT !.at = "sent"]
           a2 == [a1 EXCEPT !.place = "held"]
           a3 == [a2 EXCEPT !.epoch = e]
           a4 == [a3 EXCEPT !.deadline = deadline]
<1>3. a1 \in Hold /\ a1.at = "sent" /\ a1.fut = "none"
  BY <1>2 DEF Hold
<1> HIDE DEF a1
<1>4. a2 \in Hold /\ a2.at = "sent" /\ a2.fut = "none" /\ a2.place = "held"
  BY <1>3 DEF Hold
<1> HIDE DEF a2
<1>5. a3 \in Hold /\ a3.at = "sent" /\ a3.fut = "none" /\ a3.place = "held" /\ a3.epoch = e
  BY <1>4 DEF Hold
<1> HIDE DEF a3
<1>6. a4 \in Hold /\ a4.at = "sent" /\ a4.fut = "none" /\ a4.place = "held" /\ a4.epoch = e
  BY <1>5 DEF Hold
<1>7. Sent(e, deadline) = a4
  BY DEF Sent, a1, a2, a3
<1> QED BY <1>2, <1>6, <1>7

\* An interrupted wait: a granted place stays with its dispatch.
LEMMA StopKeeps ==
    ASSUME GateIInv, NEW d \in Dispatches, NEW why \in {"timeout", "cancel"}, Stop(d, why)
    PROVE  GateIInv' /\ WithinLimit
<1>1. hold[d] \in Hold /\ hold[d].at = "line" /\ hold[d].fut # "none"
      /\ hold[d].place = "none" /\ hold[d].epoch <= epoch
      /\ hold' = [hold EXCEPT ![d].stop = why,
                              ![d].fut = IF @ = "pending" THEN "cancelled" ELSE @]
      /\ UNCHANGED <<gateLimit, pending, line, epoch, gateBound>>
  BY GateFacts DEF Stop, GateIInv, Consistent, Fits, Hold
<1>2. /\ pending \in Nat /\ epoch \in Nat /\ line \in Seq(Dispatches)
      /\ Consistent(hold, epoch) /\ pending = Cardinality(Placed(hold, epoch))
      /\ hold \in [Dispatches -> Hold]
  BY GateFacts
<1> DEFINE x1 == [hold[d] EXCEPT !.stop = why]
           x  == [x1 EXCEPT !.fut = IF @ = "pending" THEN "cancelled" ELSE @]
<1>3. x1 \in Hold /\ x1.at = "line" /\ x1.place = "none" /\ x1.epoch = hold[d].epoch
      /\ x1.fut = hold[d].fut
  BY <1>1 DEF Hold
<1>4. hold' = [hold EXCEPT ![d] = x]
  BY <1>1, <1>2, Zenon DEF Hold
<1> HIDE DEF x1
<1>5. x \in Hold /\ x.at = "line" /\ x.place = "none" /\ x.epoch = hold[d].epoch
      /\ x.fut = IF hold[d].fut = "pending" THEN "cancelled" ELSE hold[d].fut
  BY <1>3 DEF Hold
<1> HIDE DEF x
<1>6. /\ Consistent(hold', epoch)
      /\ d \in Placed(hold', epoch) <=> x.fut = "granted"
      /\ (d \in Placed(hold, epoch) <=> d \in Placed(hold', epoch)) =>
           Cardinality(Placed(hold', epoch)) = pending
  <2>1. Fits(x, epoch) /\ Becomes(hold, hold', d, x)
    BY <1>1, <1>4, <1>5, Zenon DEF Fits, Becomes
  <2> QED BY <1>5, <2>1, HoldChanges, Zenon
<1>7. d \in Placed(hold, epoch) <=> hold[d].fut = "granted"
  BY <1>1 DEF Placed
<1>8. pending' = Cardinality(Placed(hold', epoch))
  BY <1>1, <1>2, <1>5, <1>6, <1>7, Zenon
<1>9. ~ gateBound => \A c \in Dispatches : hold'[c].at # "line"
  BY <1>1 DEF GateIInv
<1> QED BY <1>1, <1>2, <1>6, <1>8, <1>9, CountStays, ZenonT(40)

\* A dispatch that goes away takes its place out of the count.
LEMMA AwayChanges ==
    ASSUME GateIInv, NEW d \in Dispatches, NEW h, h = [hold EXCEPT ![d] = Away]
    PROVE  /\ Consistent(h, epoch)
           /\ d \in Placed(hold, epoch) => /\ pending > 0
                                           /\ Cardinality(Placed(h, epoch)) = pending - 1
           /\ d \notin Placed(hold, epoch) => Cardinality(Placed(h, epoch)) = pending
           /\ ~ gateBound => \A c \in Dispatches : h[c].at # "line"
<1>1. epoch \in Nat /\ epoch \in 0 .. MaxEpoch /\ hold \in [Dispatches -> Hold]
  BY GateFacts
<1>2. /\ Away \in Hold /\ Away.at = "away" /\ Away.fut = "none" /\ Away.place = "none"
      /\ Away.epoch = 0
  BY <1>1, AwayAndSent, Zenon
<1>3. PICK x \in Hold : x = Away
  BY <1>2
<1>4. /\ x.at = "away" /\ x.fut = "none" /\ x.place = "none" /\ x.epoch <= epoch
      /\ h = [hold EXCEPT ![d] = x]
  BY <1>1, <1>2, <1>3
<1>5. /\ Consistent(h, epoch)
      /\ d \notin Placed(h, epoch)
      /\ d \in Placed(hold, epoch) /\ d \notin Placed(h, epoch) =>
            pending > 0 /\ Cardinality(Placed(h, epoch)) = pending - 1
      /\ (d \in Placed(hold, epoch) <=> d \in Placed(h, epoch)) =>
            Cardinality(Placed(h, epoch)) = pending
  <2>1. Fits(x, epoch) /\ Becomes(hold, h, d, x)
    BY <1>4, ZenonT(40) DEF Fits, Becomes
  <2> QED BY <1>4, <2>1, HoldChanges
<1>6. ~ gateBound => \A c \in Dispatches : h[c].at # "line"
  BY <1>1, <1>4 DEF GateIInv
<1> QED BY <1>5, <1>6

\* A dispatch that is sent from the line holds a place of this epoch.
LEMMA SentChanges ==
    ASSUME GateIInv, NEW d \in Dispatches, NEW deadline \in BOOLEAN, NEW h,
           hold[d].at = "line", h = [hold EXCEPT ![d] = Sent(epoch, deadline)]
    PROVE  /\ Consistent(h, epoch)
           /\ h[d].at = "sent" /\ h[d].fut = "none"
           /\ d \in Placed(hold, epoch) => Cardinality(Placed(h, epoch)) = pending
           /\ d \notin Placed(hold, epoch) => Cardinality(Placed(h, epoch)) = pending + 1
           /\ gateBound
<1>1. epoch \in Nat /\ epoch \in 0 .. MaxEpoch /\ hold \in [Dispatches -> Hold]
  BY GateFacts
<1>2. PICK x : x = Sent(epoch, deadline)
  OBVIOUS
<1>3. x \in Hold /\ x.at = "sent" /\ x.fut = "none" /\ x.place = "held" /\ x.epoch = epoch
  BY <1>1, <1>2, AwayAndSent
<1>4. x.epoch <= epoch /\ h = [hold EXCEPT ![d] = x]
  BY <1>1, <1>2, <1>3
<1>5. /\ Consistent(h, epoch)
      /\ d \in Placed(h, epoch)
      /\ d \notin Placed(hold, epoch) /\ d \in Placed(h, epoch) =>
            Cardinality(Placed(h, epoch)) = pending + 1
      /\ (d \in Placed(hold, epoch) <=> d \in Placed(h, epoch)) =>
            Cardinality(Placed(h, epoch)) = pending
  <2>1. Fits(x, epoch) /\ Becomes(hold, h, d, x)
    BY <1>3, <1>4, Zenon DEF Fits, Becomes
  <2> QED BY <1>3, <2>1, HoldChanges
<1>6. h[d].at = "sent" /\ h[d].fut = "none"
  BY <1>1, <1>3, <1>4
<1>7. gateBound
  BY DEF GateIInv
<1> QED BY <1>5, <1>6, <1>7

\* The woken task: the place it was granted is the one it is sent with.
LEMMA ResumeKeeps ==
    ASSUME GateIInv, NEW d \in Dispatches, Resume(d)
    PROVE  GateIInv' /\ WithinLimit
<1>1. pending \in Nat /\ line \in Seq(Dispatches) /\ hold[d].deadline \in BOOLEAN
  BY GateFacts DEF Hold
<1>2. /\ hold[d].at = "line" /\ hold[d].fut = "granted"
      /\ hold' = [hold EXCEPT ![d] = Sent(epoch, hold[d].deadline)]
      /\ UNCHANGED <<gateLimit, pending, line, epoch, gateBound>>
  BY GateFacts DEF Resume
<1>3. d \in Placed(hold, epoch)
  BY <1>2 DEF Placed
<1>4. Consistent(hold', epoch) /\ Cardinality(Placed(hold', epoch)) = pending /\ gateBound
  <2>1. PICK deadline, h : deadline \in BOOLEAN /\ deadline = hold[d].deadline /\ h = hold'
    BY <1>1
  <2>2. h = [hold EXCEPT ![d] = Sent(epoch, deadline)] /\ hold[d].at = "line"
    BY <1>2, <2>1
  <2>3. /\ Consistent(h, epoch) /\ gateBound
        /\ d \in Placed(hold, epoch) => Cardinality(Placed(h, epoch)) = pending
    BY <2>1, <2>2, SentChanges, ZenonT(40)
  <2> QED BY <1>3, <2>1, <2>3, ZenonT(40)
<1> QED BY <1>1, <1>2, <1>4, CountStays, ZenonT(40)

\* A wait that ends without the dispatch being sent: a place granted meanwhile
\* goes to the next in line.
LEMMA LeaveKeeps ==
    ASSUME GateIInv, NEW d \in Dispatches, Leave(d)
    PROVE  GateIInv' /\ WithinLimit
<1>1. pending \in Nat /\ epoch \in Nat /\ line \in Seq(Dispatches)
  BY GateFacts
<1>2. hold[d].at = "line" /\ hold[d].place = "none" /\ UNCHANGED <<gateLimit, epoch, gateBound>>
  BY DEF Leave, GateIInv, Consistent, Fits, Hold
<1>3. LineWithout(d) \in Seq(Dispatches)
  BY <1>1, LineWithoutType
<1>4. PICK h : h = [hold EXCEPT ![d] = Away]
  BY Zenon
<1>5. /\ Consistent(h, epoch)
      /\ d \in Placed(hold, epoch) => /\ pending > 0
                                      /\ Cardinality(Placed(h, epoch)) = pending - 1
      /\ d \notin Placed(hold, epoch) => Cardinality(Placed(h, epoch)) = pending
      /\ ~ gateBound => \A c \in Dispatches : h[c].at # "line"
  BY <1>4, AwayChanges, ZenonT(40)
<1>6. CASE hold[d].fut = "cancelled"
  <2>1. hold' = h /\ line' = LineWithout(d) /\ pending' = pending
    BY <1>4, <1>6 DEF Leave
  <2>2. d \notin Placed(hold, epoch)
    BY <1>2, <1>6 DEF Placed
  <2> QED BY <1>2, <1>3, <1>5, <2>1, <2>2, CountStays, ZenonT(40)
<1>7. CASE hold[d].fut = "granted"
  <2>1. GiveBack(epoch, h, LineWithout(d))
    BY <1>4, <1>7 DEF Leave
  <2>2. d \in Placed(hold, epoch)
    BY <1>7 DEF Placed
  <2> QED BY <1>2, <1>3, <1>5, <2>1, <2>2, GiveBackKeeps, ZenonT(40)
<1> QED BY <1>6, <1>7 DEF Leave

\* The first token: the place goes back, if the loop it was granted under is
\* still the gate's.
LEMMA FirstTokenKeeps ==
    ASSUME GateIInv, NEW d \in Dispatches, FirstToken(d)
    PROVE  GateIInv' /\ WithinLimit
<1>1. /\ pending \in Nat /\ epoch \in Nat /\ line \in Seq(Dispatches)
      /\ hold \in [Dispatches -> Hold]
  BY GateFacts
<1>2. /\ hold[d] \in Hold /\ hold[d].at = "sent" /\ hold[d].place = "held" /\ hold[d].fut = "none"
      /\ hold[d].epoch <= epoch /\ UNCHANGED <<gateLimit, epoch, gateBound>>
  BY DEF FirstToken, GateIInv, Consistent, Fits
<1>3. PICK x : x = [hold[d] EXCEPT !.place = "given_up"]
  BY Zenon
<1>4. PICK h : h = [hold EXCEPT ![d] = x]
  BY Zenon
<1>5. h = [hold EXCEPT ![d].place = "given_up"]
  BY <1>1, <1>3, <1>4
<1>6. /\ x \in Hold /\ x.at = "sent" /\ x.place = "given_up" /\ x.fut = "none"
      /\ x.epoch <= epoch
  BY <1>2, <1>3 DEF Hold
<1>7. /\ Consistent(h, epoch)
      /\ d \notin Placed(h, epoch)
      /\ d \in Placed(hold, epoch) /\ d \notin Placed(h, epoch) =>
            pending > 0 /\ Cardinality(Placed(h, epoch)) = pending - 1
      /\ (d \in Placed(hold, epoch) <=> d \in Placed(h, epoch)) =>
            Cardinality(Placed(h, epoch)) = pending
  <2>1. Fits(x, epoch) /\ Becomes(hold, h, d, x)
    BY <1>4, <1>6 DEF Fits, Becomes
  <2> QED BY <1>6, <2>1, HoldChanges
<1>8. d \in Placed(hold, epoch) <=> hold[d].epoch = epoch
  BY <1>2 DEF Placed
<1>9. ~ gateBound => \A c \in Dispatches : h[c].at # "line"
  BY <1>1, <1>4, <1>6 DEF GateIInv
<1>10. GiveBack(hold[d].epoch, h, line)
  BY <1>5 DEF FirstToken
<1> QED BY <1>1, <1>2, <1>7, <1>8, <1>9, <1>10, GiveBackKeeps, ZenonT(40)

\* The end of the stream.
LEMMA ReleaseEngineKeeps ==
    ASSUME GateIInv, NEW d \in Dispatches, ReleaseEngine(d)
    PROVE  GateIInv' /\ WithinLimit
<1>1. pending \in Nat /\ epoch \in Nat /\ line \in Seq(Dispatches)
  BY GateFacts
<1>2. /\ hold[d].at = "sent" /\ hold[d].fut = "none" /\ UNCHANGED <<gateLimit, epoch, gateBound>>
  BY DEF ReleaseEngine, GateIInv, Consistent, Fits
<1>3. PICK h : h = [hold EXCEPT ![d] = Away]
  BY Zenon
<1>4. /\ Consistent(h, epoch)
      /\ d \in Placed(hold, epoch) => /\ pending > 0
                                      /\ Cardinality(Placed(h, epoch)) = pending - 1
      /\ d \notin Placed(hold, epoch) => Cardinality(Placed(h, epoch)) = pending
      /\ ~ gateBound => \A c \in Dispatches : h[c].at # "line"
  BY <1>3, AwayChanges, Zenon
<1>5. CASE hold[d].place = "held"
  <2>1. GiveBack(hold[d].epoch, h, line)
    BY <1>3, <1>5, ZenonT(40) DEF ReleaseEngine
  <2>2. d \in Placed(hold, epoch) <=> hold[d].epoch = epoch
    BY <1>2, <1>5, ZenonT(40) DEF Placed
  <2> QED BY <1>1, <1>2, <1>4, <2>1, <2>2, GiveBackKeeps, ZenonT(40)
<1>6. CASE hold[d].place = "given_up"
  <2>1. hold' = h /\ UNCHANGED <<pending, line>>
    BY <1>3, <1>6 DEF ReleaseEngine
  <2>2. d \notin Placed(hold, epoch)
    BY <1>2, <1>6 DEF Placed
  <2> QED BY <1>1, <1>2, <1>4, <2>1, <2>2, CountStays, ZenonT(40)
<1> QED BY <1>5, <1>6 DEF ReleaseEngine

\* What an overflow is seen by: a dispatch whose wait timed out with nowhere else
\* to go, and that is sent.
SentByTimeout ==
    \E d \in Dispatches : /\ hold[d].stop = "timeout" /\ ~ hold[d].deadline
                          /\ hold'[d].at = "sent"

\* The dispatch that is sent past the limit is counted like any other; the place
\* it was granted meanwhile is handed on before it takes the one past the limit.
LEMMA OverflowKeeps ==
    ASSUME GateIInv, NEW d \in Dispatches, Overflow(d)
    PROVE  GateIInv' /\ SentByTimeout
<1>1. /\ pending \in Nat /\ epoch \in Nat /\ gateLimit \in Nat /\ line \in Seq(Dispatches)
      /\ hold \in [Dispatches -> Hold]
  BY GateFacts
<1>2. /\ hold[d].at = "line" /\ hold[d].place = "none"
      /\ hold[d].stop = "timeout" /\ ~ hold[d].deadline
      /\ UNCHANGED <<gateLimit, epoch, gateBound>>
  BY DEF Overflow, GateIInv, Consistent, Fits, Hold
<1>3. LineWithout(d) \in Seq(Dispatches)
  BY <1>1, LineWithoutType
<1>4. PICK h : h = [hold EXCEPT ![d] = Sent(epoch, FALSE)]
  BY Zenon
<1>5. /\ Consistent(h, epoch)
      /\ h[d].at = "sent" /\ h[d].fut = "none"
      /\ d \in Placed(hold, epoch) => Cardinality(Placed(h, epoch)) = pending
      /\ d \notin Placed(hold, epoch) => Cardinality(Placed(h, epoch)) = pending + 1
      /\ gateBound
  BY <1>2, <1>4, SentChanges, Zenon
<1>6. CASE hold[d].fut = "cancelled"
  <2>1. hold' = h /\ line' = LineWithout(d) /\ pending' = pending + 1
    BY <1>4, <1>6, ZenonT(40) DEF Overflow
  <2>2. d \notin Placed(hold, epoch)
    BY <1>2, <1>6 DEF Placed
  <2>3. GateIInv'
    <3>1. pending' \in Nat
      BY <1>1, <2>1
    <3> QED BY <1>2, <1>3, <1>5, <2>1, <2>2, <3>1, GateStays, ZenonT(40)
  <2> QED BY <1>2, <1>5, <2>1, <2>3, Zenon DEF SentByTimeout
<1>7. CASE hold[d].fut = "granted"
  <2>1. d \in Placed(hold, epoch) /\ pending > 0
    <3>1. d \in Placed(hold, epoch)
      BY <1>7 DEF Placed
    <3>2. PICK g : g = [hold EXCEPT ![d] = Away]
      BY Zenon
    <3> QED BY <3>1, <3>2, AwayChanges, ZenonT(40)
  <2>2. PICK n \in Nat, l \in Nat, q \in Seq(Dispatches), e \in Nat :
          n = pending - 1 /\ l = gateLimit /\ q = LineWithout(d) /\ e = epoch
    BY <1>1, <1>3, <2>1
  <2>3. PICK k : /\ WakeEnds(n, l, h, q, k)
                 /\ pending' = n + Cardinality(Woken(h, q, k)) + 1
                 /\ line' = SubSeq(q, k + 1, Len(q))
                 /\ hold' = Serve(h, Woken(h, q, k))
    BY <1>1, <1>4, <1>7, <2>1, <2>2, Zenon DEF Overflow
  <2>4. /\ Woken(h, q, k) \in SUBSET {c \in Dispatches : h[c].fut = "pending"}
        /\ IsFiniteSet(Woken(h, q, k))
        /\ Cardinality(Woken(h, q, k)) \in Nat
    <3>1. WakeEnds(n, l, h, q, k)
      BY <2>3
    <3> QED BY <3>1, WakeGives
  <2>5. Consistent(h, e) /\ Cardinality(Placed(h, e)) = n + 1
    BY <1>1, <1>5, <2>1, <2>2
  <2>6. /\ Consistent(Serve(h, Woken(h, q, k)), e)
        /\ \A c \in Dispatches : Serve(h, Woken(h, q, k))[c].at = h[c].at
        /\ Cardinality(Placed(Serve(h, Woken(h, q, k)), e))
             = Cardinality(Placed(h, e)) + Cardinality(Woken(h, q, k))
    BY <2>4, <2>5, ServedCount, ZenonT(40)
  <2>7. /\ Consistent(hold', epoch) /\ hold'[d].at = "sent"
        /\ pending' = Cardinality(Placed(hold', epoch)) /\ pending' \in Nat
    <3>1. Consistent(hold', epoch) /\ hold'[d].at = "sent"
      BY <1>5, <2>2, <2>3, <2>6, ZenonT(40)
    <3>2. Cardinality(Placed(hold', epoch)) = n + 1 + Cardinality(Woken(h, q, k))
      BY <2>2, <2>3, <2>5, <2>6, ZenonT(40)
    <3>3. pending' = n + Cardinality(Woken(h, q, k)) + 1 /\ Cardinality(Woken(h, q, k)) \in Nat
      BY <2>3, <2>4, Zenon
    <3>4. pending' = n + 1 + Cardinality(Woken(h, q, k)) /\ pending' \in Nat
      BY <3>3
    <3> QED BY <3>1, <3>2, <3>4, Zenon
  <2>8. line' \in Seq(Dispatches)
    <3>1. k \in 0 .. Len(q)
      BY <2>3, ZenonT(40) DEF WakeEnds
    <3> QED BY <2>3, <3>1, RestOfLine
  <2>9. GateIInv'
    BY <1>2, <1>5, <2>7, <2>8, GateStays
  <2> QED BY <1>2, <2>7, <2>9 DEF SentByTimeout
<1> QED BY <1>6, <1>7, Zenon DEF Overflow

\* rebind_loop: a new epoch starts with nobody in line and no place counted.
LEMMA Rebound ==
    ASSUME GateIInv, Epoch0 <= MaxEpoch
    PROVE  /\ Epoch0 \in 0 .. MaxEpoch /\ Epoch0 \in Nat /\ Pending0 \in Nat
           /\ Line0 \in Seq(Dispatches) /\ Consistent(hold, Epoch0)
           /\ Pending0 = Cardinality(Placed(hold, Epoch0)) /\ Pending0 <= pending
<1>1. /\ pending \in Nat /\ epoch \in Nat /\ line \in Seq(Dispatches) /\ MaxEpoch \in Nat
      /\ Consistent(hold, epoch) /\ pending = Cardinality(Placed(hold, epoch))
  BY GateFacts
<1>2. CASE gateBound
  <2>1. Epoch0 = epoch /\ Pending0 = pending /\ Line0 = line
    BY <1>2 DEF Epoch0, Pending0, Line0
  <2> QED BY <1>1, <2>1
<1>3. CASE ~ gateBound
  <2>1. Epoch0 = epoch + 1 /\ Pending0 = 0 /\ Line0 = << >>
    BY <1>3 DEF Epoch0, Pending0, Line0
  <2>2. Consistent(hold, epoch + 1)
    BY <1>1 DEF Consistent, Fits, Hold
  <2>3. \A c \in Dispatches : hold[c].epoch \in Nat /\ hold[c].epoch <= epoch
    BY <1>1 DEF Consistent, Fits, Hold
  <2>4. \A c \in Dispatches : hold[c].epoch # epoch + 1
    BY <1>1, <2>3
  <2>5. \A c \in Dispatches : hold[c].fut = "none"
    BY <1>3 DEF GateIInv, Consistent, Fits
  <2>6. Placed(hold, epoch + 1) = {}
    BY <2>4, <2>5 DEF Placed
  <2>7. Cardinality(Placed(hold, epoch + 1)) = 0
    BY <2>6, FS_EmptySet
  <2> QED BY <1>1, <2>1, <2>2, <2>7
<1> QED BY <1>2, <1>3

\* A dispatch in line, its future unresolved.
LEMMA WaitingHold ==
    ASSUME NEW deadline \in BOOLEAN
    PROVE  LET w == [Away EXCEPT !.at = "line", !.fut = "pending", !.deadline = deadline]
           IN  w \in Hold /\ w.at = "line" /\ w.fut = "pending" /\ w.place = "none" /\ w.epoch = 0
<1>1. MaxEpoch \in Nat
  BY GateAssumption
<1> DEFINE a1 == [Away EXCEPT !.at = "line"]
           a2 == [a1 EXCEPT !.fut = "pending"]
           a3 == [a2 EXCEPT !.deadline = deadline]
<1>2. Away \in Hold /\ Away.place = "none" /\ Away.epoch = 0
  BY <1>1 DEF Away, Hold
<1>3. a1 \in Hold /\ a1.at = "line" /\ a1.place = "none" /\ a1.epoch = 0
  BY <1>2 DEF Hold
<1> HIDE DEF a1
<1>4. a2 \in Hold /\ a2.at = "line" /\ a2.fut = "pending" /\ a2.place = "none" /\ a2.epoch = 0
  BY <1>3 DEF Hold
<1> HIDE DEF a2
<1>5. a3 \in Hold /\ a3.at = "line" /\ a3.fut = "pending" /\ a3.place = "none" /\ a3.epoch = 0
  BY <1>4 DEF Hold
<1>6. [Away EXCEPT !.at = "line", !.fut = "pending", !.deadline = deadline] = a3
  BY DEF a1, a2
<1> QED BY <1>5, <1>6, Zenon

\* An arriving dispatch adopts the loop and the limit, serves the line, and only
\* then takes a place for itself, if one is left.
LEMMA ArriveKeeps ==
    ASSUME GateIInv, NEW d \in Dispatches, NEW l \in HoldLimits,
           NEW deadline \in BOOLEAN, NEW passed \in BOOLEAN, Arrive(d, l, deadline, passed)
    PROVE  GateIInv' /\ WithinLimit
<1>1. l \in Nat /\ pending \in Nat /\ hold[d].at = "away" /\ hold \in [Dispatches -> Hold]
  BY GateFacts, GateAssumption DEF Arrive
<1>2. gateLimit' = l /\ epoch' = Epoch0 /\ gateBound' = TRUE /\ Epoch0 <= MaxEpoch
  BY DEF Arrive
<1>3. /\ Epoch0 \in 0 .. MaxEpoch /\ Epoch0 \in Nat /\ Pending0 \in Nat
      /\ Line0 \in Seq(Dispatches) /\ Consistent(hold, Epoch0)
      /\ Pending0 = Cardinality(Placed(hold, Epoch0)) /\ Pending0 <= pending
  BY <1>2, Rebound
<1>4. PICK e \in Nat, n \in Nat, q \in Seq(Dispatches) : e = Epoch0 /\ n = Pending0 /\ q = Line0
  BY <1>3
<1>5. PICK f : f = hold
  OBVIOUS
<1>6. PICK k :
        /\ WakeEnds(n, l, f, q, k)
        /\ \/ /\ n + Cardinality(Woken(f, q, k)) < l
              /\ pending' = n + Cardinality(Woken(f, q, k)) + 1
              /\ line' = SubSeq(q, k + 1, Len(q))
              /\ hold' = [Serve(f, Woken(f, q, k)) EXCEPT ![d] = Sent(e, deadline)]
           \/ /\ pending' = n + Cardinality(Woken(f, q, k))
              /\ line' = Append(SubSeq(q, k + 1, Len(q)), d)
              /\ hold' = [Serve(f, Woken(f, q, k)) EXCEPT
                            ![d] = [Away EXCEPT !.at = "line", !.fut = "pending",
                                                !.deadline = deadline]]
           \/ /\ pending' = n + Cardinality(Woken(f, q, k))
              /\ line' = SubSeq(q, k + 1, Len(q))
              /\ hold' = Serve(f, Woken(f, q, k))
  BY <1>4, <1>5, Zenon DEF Arrive, GateAdmits, Joined
<1>7. Counted(f, e, n)
  BY <1>3, <1>4, <1>5 DEF Counted
<1>8. PICK m, g : m = n + Cardinality(Woken(f, q, k)) /\ g = Serve(f, Woken(f, q, k))
  OBVIOUS
<1>9. /\ Counted(g, e, m) /\ m \in Nat /\ (m > n => m <= l)
      /\ \A c \in Dispatches : f[c].fut # "pending" => g[c] = f[c]
  <2>1. PICK b \in Nat : b = l
    BY <1>1
  <2>2. WakeEnds(n, b, f, q, k)
    BY <1>6, <2>1
  <2>3. /\ Counted(g, e, m) /\ m \in Nat /\ (m > n => m <= b)
        /\ \A c \in Dispatches : f[c].fut # "pending" => g[c] = f[c]
    <3>1. WokenTo(f, n, b, g, m, e)
      <4>1. Wakes(f, n, b, q, k, g, m, e)
        BY <1>7, <1>8, <2>2, ZenonT(40) DEF Wakes
      <4> QED BY <4>1, WakeCounts, Zenon
    <3> QED BY <3>1, ZenonT(40) DEF WokenTo
  <2> QED BY <1>1, <2>1, <2>3
<1>10. PICK r \in Seq(Dispatches) : r = SubSeq(q, k + 1, Len(q))
  <2>1. k \in 0 .. Len(q)
    BY <1>6 DEF WakeEnds
  <2> QED BY <2>1, RestOfLine, Zenon
<1>11. /\ Consistent(f, e) /\ Consistent(g, e) /\ m = Cardinality(Placed(g, e)) /\ m \in Nat
       /\ m > n => m <= l
  BY <1>7, <1>9, ZenonT(40) DEF Counted
<1>12. g[d].fut = "none" /\ g[d].place = "none" /\ d \notin Placed(g, e)
  <2>1. f[d].fut = "none" /\ f[d].place = "none"
    <3>1. Fits(f[d], e) /\ f[d].at = "away"
      BY <1>1, <1>5, <1>11, Zenon DEF Consistent
    <3> QED BY <3>1 DEF Fits
  <2>2. g[d] = f[d]
    BY <1>9, <2>1, Zenon
  <2> QED BY <2>1, <2>2 DEF Placed
<1>13. SUFFICES /\ pending' \in Nat /\ line' \in Seq(Dispatches)
                /\ Consistent(hold', e) /\ pending' = Cardinality(Placed(hold', e))
                /\ pending' > n => pending' <= l
  <2>1. GateIInv'
    <3>1. hold' \in [Dispatches -> Hold]
      BY <1>13, ZenonT(40) DEF Consistent, Fits
    <3>2. Consistent(hold, epoch)' /\ (pending = Cardinality(Placed(hold, epoch)))'
      BY <1>2, <1>4, <1>5, <1>13, ZenonT(40) DEF Consistent, Fits, Placed
    <3> QED BY <1>2, <1>3, <1>13, <3>1, <3>2, ZenonT(40) DEF GateIInv, GateTypeOK
  <2>2. WithinLimit
    BY <1>1, <1>2, <1>3, <1>4, <1>5, <1>13 DEF WithinLimit
  <2> QED BY <2>1, <2>2, ZenonT(40)
<1>14. CASE /\ m < l
            /\ pending' = m + 1
            /\ line' = r
            /\ hold' = [g EXCEPT ![d] = Sent(e, deadline)]
  <2>1. PICK x \in Hold : x = Sent(e, deadline)
    BY <1>3, <1>4, <1>5, AwayAndSent, ZenonT(40)
  <2>2. x.at = "sent" /\ x.fut = "none" /\ x.place = "held" /\ x.epoch = e
    BY <1>3, <1>4, <1>5, <2>1, AwayAndSent
  <2>3. PICK h : h = [g EXCEPT ![d] = x]
    BY Zenon
  <2>4. /\ Consistent(h, e) /\ d \in Placed(h, e)
        /\ d \notin Placed(g, e) /\ d \in Placed(h, e) =>
             Cardinality(Placed(h, e)) = Cardinality(Placed(g, e)) + 1
    <3>1. Fits(x, e)
      BY <2>2 DEF Fits
    <3>2. Consistent(g, e) /\ Becomes(g, h, d, x)
      BY <1>11, <2>3 DEF Becomes
    <3>3. Changes(g, h, e, d, x)
      BY <3>1, <3>2, ZenonT(40) DEF Changes
    <3>4. Recounted(g, h, e, d, x)
      BY <3>3, PlaceChanges, Zenon
    <3> QED BY <2>2, <3>4, ZenonT(40) DEF Recounted
  <2>5. hold' = h
    BY <1>14, <2>1, <2>3, ZenonT(40)
  <2>6. Cardinality(Placed(h, e)) = m + 1
    BY <1>11, <1>12, <2>4
  <2>7. Consistent(hold', e) /\ Cardinality(Placed(hold', e)) = m + 1
    BY <2>4, <2>5, <2>6
  <2> QED BY <1>1, <1>11, <1>14, <2>7
<1>15. CASE /\ pending' = m
            /\ line' = Append(r, d)
            /\ hold' = [g EXCEPT ![d] = [Away EXCEPT !.at = "line", !.fut = "pending",
                                                     !.deadline = deadline]]
  <2>1. PICK x \in Hold : x = [Away EXCEPT !.at = "line", !.fut = "pending", !.deadline = deadline]
    BY WaitingHold, ZenonT(40)
  <2>2. x.at = "line" /\ x.fut = "pending" /\ x.place = "none" /\ x.epoch = 0
    BY <2>1, WaitingHold, ZenonT(40)
  <2>3. PICK h : h = [g EXCEPT ![d] = x]
    BY Zenon
  <2>4. /\ Consistent(h, e) /\ d \notin Placed(h, e)
        /\ d \notin Placed(g, e) /\ d \notin Placed(h, e) =>
             Cardinality(Placed(h, e)) = Cardinality(Placed(g, e))
    <3>1. Fits(x, e)
      BY <2>2 DEF Fits
    <3>2. Consistent(g, e) /\ Becomes(g, h, d, x)
      BY <1>11, <2>3 DEF Becomes
    <3>3. Changes(g, h, e, d, x)
      BY <3>1, <3>2, ZenonT(40) DEF Changes
    <3>4. Recounted(g, h, e, d, x)
      BY <3>3, PlaceChanges, Zenon
    <3> QED BY <2>2, <3>4, ZenonT(40) DEF Recounted
  <2>5. hold' = h
    BY <1>15, <2>1, <2>3, ZenonT(40)
  <2>6. Consistent(hold', e) /\ Cardinality(Placed(hold', e)) = m
    BY <1>11, <1>12, <2>4, <2>5
  <2>7. Append(r, d) \in Seq(Dispatches)
    OBVIOUS
  <2> QED BY <1>11, <1>15, <2>6, <2>7
<1>16. CASE pending' = m /\ line' = r /\ hold' = g
  BY <1>11, <1>16
<1> QED BY <1>6, <1>8, <1>10, <1>14, <1>15, <1>16

\* The end of an event loop.
LEMMA ReplaceEngineLoopKeeps ==
    ASSUME GateIInv, ReplaceEngineLoop
    PROVE  GateIInv' /\ WithinLimit
<1>1. pending \in Nat
  BY GateFacts
<1>2. /\ UNCHANGED <<gateLimit, pending, line, epoch, hold>> /\ gateBound' = FALSE
      /\ \A d \in Dispatches : hold[d].at # "line"
  BY DEF ReplaceEngineLoop
<1>3. Consistent(hold, epoch)' /\ (pending = Cardinality(Placed(hold, epoch)))'
  BY <1>2 DEF GateIInv, Consistent, Fits, Placed
<1>4. GateTypeOK'
  BY <1>2, Zenon DEF GateIInv, GateTypeOK
<1>5. (~ gateBound => \A d \in Dispatches : hold[d].at # "line")'
  BY <1>2, Zenon
<1>6. WithinLimit
  BY <1>1, <1>2 DEF WithinLimit
<1> QED BY <1>3, <1>4, <1>5, <1>6, Zenon DEF GateIInv

\* Nobody is at the gate when the process starts.
LEMMA GateInitIInv == GateInit => GateIInv
<1>1. SUFFICES ASSUME GateInit PROVE GateIInv
  OBVIOUS
<1>2. MaxEpoch \in Nat
  BY GateAssumption
<1>3. Away \in Hold /\ Away.at = "away" /\ Away.fut = "none" /\ Away.place = "none" /\ Away.epoch = 0
  BY <1>2 DEF Away, Hold
<1>4. GateTypeOK
  <2>1. hold \in [Dispatches -> Hold]
    BY <1>1, <1>3 DEF GateInit
  <2>2. line \in Seq(Dispatches)
    BY <1>1 DEF GateInit
  <2>3. gateBound \in BOOLEAN
    BY <1>1, Zenon DEF GateInit
  <2> QED BY <1>1, <1>2, <2>1, <2>2, <2>3 DEF GateInit, GateTypeOK
<1>5. Consistent(hold, epoch) /\ \A d \in Dispatches : hold[d].at # "line"
  BY <1>1, <1>3 DEF GateInit, Consistent, Fits
<1>6. Placed(hold, epoch) = {}
  BY <1>1, <1>3 DEF GateInit, Placed
<1>7. pending = Cardinality(Placed(hold, epoch))
  BY <1>1, <1>6, FS_EmptySet DEF GateInit
<1> QED BY <1>4, <1>5, <1>7, Zenon DEF GateIInv

\* Every step keeps the invariant, and only an overflow goes past the limit.
LEMMA GateStep ==
    ASSUME GateIInv, [GateNext]_gateVars
    PROVE  GateIInv' /\ (WithinLimit \/ SentByTimeout)
<1>1. ASSUME NEW d \in Dispatches, NEW l \in HoldLimits, NEW deadline \in BOOLEAN,
             NEW passed \in BOOLEAN, Arrive(d, l, deadline, passed)
      PROVE  GateIInv' /\ (WithinLimit \/ SentByTimeout)
  BY <1>1, ArriveKeeps
<1>2. ASSUME NEW d \in Dispatches, NEW why \in {"timeout", "cancel"}, Stop(d, why)
      PROVE  GateIInv' /\ (WithinLimit \/ SentByTimeout)
  BY <1>2, StopKeeps
<1>3. ASSUME NEW d \in Dispatches,
             Resume(d) \/ Leave(d) \/ FirstToken(d) \/ ReleaseEngine(d)
      PROVE  GateIInv' /\ (WithinLimit \/ SentByTimeout)
  BY <1>3, ResumeKeeps, LeaveKeeps, FirstTokenKeeps, ReleaseEngineKeeps
<1>4. ASSUME NEW d \in Dispatches, Overflow(d)
      PROVE  GateIInv' /\ (WithinLimit \/ SentByTimeout)
  BY <1>4, OverflowKeeps
<1>5. CASE ReplaceEngineLoop
  BY <1>5, ReplaceEngineLoopKeeps, ZenonT(40)
<1>6. CASE UNCHANGED gateVars
  <2>1. pending \in Nat
    BY GateFacts
  <2> QED BY <1>6, <2>1
      DEF gateVars, GateIInv, GateTypeOK, Consistent, Fits, Placed, WithinLimit
<1> QED BY <1>1, <1>2, <1>3, <1>4, <1>5, <1>6 DEF GateNext

\* The invariant of the gate.
LEMMA GateInvariance == GateSpec => []GateIInv
<1>1. GateIInv /\ [GateNext]_gateVars => GateIInv'
  BY GateStep
<1> QED BY <1>1, GateInitIInv, PTL DEF GateSpec

\* Whatever the limits, the deadlines and the loops: the count of an engine's
\* dispatches without a first token is the number of dispatches that hold or
\* were granted a place of this epoch (_EngineGate.give_back, abandon).
THEOREM EveryPlaceHasOneOwner == GateSpec => []PlacesConserved
<1>1. GateIInv => PlacesConserved
  BY DEF GateIInv, PlacesConserved, PlaceHolders, Placed
<1> QED BY <1>1, GateInvariance, PTL

\* Only a dispatch whose wait timed out, with no deadline to turn it away, takes
\* the engine past its limit (_admit_to_engine).
THEOREM LimitPassedOnlyByTimeout == GateSpec => OverLimitOnlyByTimeout
<1>1. GateIInv /\ [GateNext]_gateVars =>
        [pending' > pending /\ pending' > gateLimit' =>
           \E d \in Dispatches : /\ hold[d].stop = "timeout" /\ ~ hold[d].deadline
                                 /\ hold'[d].at = "sent"]_gateVars
  <2> SUFFICES ASSUME GateIInv, [GateNext]_gateVars, pending' > pending, pending' > gateLimit'
               PROVE  \E d \in Dispatches : /\ hold[d].stop = "timeout" /\ ~ hold[d].deadline
                                            /\ hold'[d].at = "sent"
    OBVIOUS
  <2>1. GateIInv' /\ (WithinLimit \/ SentByTimeout)
    BY GateStep
  <2>2. pending' \in Nat /\ gateLimit' \in Nat
    BY <2>1, GateAssumption DEF GateIInv, GateTypeOK
  <2> QED BY <2>1, <2>2 DEF WithinLimit, SentByTimeout
<1> QED BY <1>1, GateInvariance, PTL DEF GateSpec, OverLimitOnlyByTimeout
=============================================================================
