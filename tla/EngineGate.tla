----------------------------- MODULE EngineGate -----------------------------
(***************************************************************************)
(* One local engine's hold in the outbound limiter                         *)
(* (serving/adapters/upstream_limiter.py, EngineHold, _EngineGate,         *)
(* _EngineAdmission and _admit_to_engine).  A dispatch that carries a hold *)
(* is sent while fewer than the hold's limit of the engine's dispatches    *)
(* lack a first token; the others wait in line.                            *)
(*                                                                         *)
(* As in UpstreamLimiter, a block with no await in it is one step, and a   *)
(* task runs on some time after its future is resolved or it is            *)
(* interrupted.                                                            *)
(***************************************************************************)
EXTENDS Integers, Sequences, FiniteSets

CONSTANTS Dispatches,   \* the streaming dispatches that carry a hold
          HoldLimits,   \* the limits their holds bring
          MaxEpoch      \* bound: how often the gate adopts an event loop

ASSUME GateAssumption ==
    /\ IsFiniteSet(Dispatches)
    /\ HoldLimits \subseteq Nat \ {0}
    /\ MaxEpoch \in Nat

VARIABLES
    gateLimit,  \* _EngineGate.limit
    pending,    \* _EngineGate.pending
    line,       \* _EngineGate.waiters
    epoch,      \* _EngineGate.epoch
    gateBound,  \* _EngineGate.loop is the running loop
    hold        \* each dispatch: where it is, its future, what interrupts it,
                \* whether its wait ends at a queue deadline, and the place it
                \* was granted (_EngineAdmission)

gateVars == <<gateLimit, pending, line, epoch, gateBound, hold>>

\* A dispatch that is not at the gate.
Away == [at |-> "away", fut |-> "none", stop |-> "none", deadline |-> FALSE,
         place |-> "none", epoch |-> 0]

Hold == [at : {"away", "line", "sent"},
         fut : {"none", "pending", "granted", "cancelled"},
         stop : {"none", "timeout", "cancel"},
         deadline : BOOLEAN,
         place : {"none", "held", "given_up"},
         epoch : 0 .. MaxEpoch]

GateTypeOK ==
    /\ gateLimit \in HoldLimits \cup {1}
    /\ pending \in Nat
    /\ line \in Seq(Dispatches)
    /\ epoch \in 0 .. MaxEpoch
    /\ gateBound \in BOOLEAN
    /\ hold \in [Dispatches -> Hold]

GateInit ==
    /\ gateLimit = 1
    /\ pending = 0
    /\ line = << >>
    /\ epoch = 0
    /\ gateBound = FALSE
    /\ hold = [d \in Dispatches |-> Away]

-----------------------------------------------------------------------------
\* wake_waiters, with n places counted and the limit l, on the line q of the
\* dispatches h: the dispatches among the first k that get a place ...
Woken(h, q, k) == {d \in {q[j] : j \in 1 .. k} : h[d].fut = "pending"}

\* ... and how many the loop pops.
WakeStops(n, l, h, q, k) == k = Len(q) \/ n + Cardinality(Woken(h, q, k)) >= l

WakeEnds(n, l, h, q, k) ==
    /\ k \in 0 .. Len(q)
    /\ WakeStops(n, l, h, q, k)
    /\ \A j \in 0 .. k - 1 : ~ WakeStops(n, l, h, q, j)

Serve(h, S) ==
    [d \in Dispatches |-> IF d \in S THEN [h[d] EXCEPT !.fut = "granted"] ELSE h[d]]

\* The gate after the wake.
WakeLine(n, l, h, q) ==
    \E k \in 0 .. Len(q) :
        /\ WakeEnds(n, l, h, q, k)
        /\ pending' = n + Cardinality(Woken(h, q, k))
        /\ line' = SubSeq(q, k + 1, Len(q))
        /\ hold' = Serve(h, Woken(h, q, k))

\* Mutated form: the epoch of the place is not looked at.
GiveBackAnyEpoch(e, h, q) == WakeLine(IF pending > 0 THEN pending - 1 ELSE 0, gateLimit, h, q)

\* give_back, of a place granted in epoch e.
GiveBack(e, h, q) ==
    \/ /\ e # epoch
       /\ hold' = h
       /\ line' = q
       /\ UNCHANGED pending
    \/ /\ e = epoch
       /\ WakeLine(IF pending > 0 THEN pending - 1 ELSE 0, gateLimit, h, q)

Sent(e, deadline) ==
    [Away EXCEPT !.at = "sent", !.place = "held", !.epoch = e, !.deadline = deadline]

\* deque.remove, its ValueError suppressed.
LineWithout(d) ==
    LET At == {i \in 1 .. Len(line) : line[i] = d}
        i == CHOOSE i \in At : TRUE
    IN  IF At = {} THEN line
        ELSE SubSeq(line, 1, i - 1) \o SubSeq(line, i + 1, Len(line))

-----------------------------------------------------------------------------
\* rebind_loop: the counts an arriving dispatch finds.
Epoch0 == IF gateBound THEN epoch ELSE epoch + 1
Pending0 == IF gateBound THEN pending ELSE 0
Line0 == IF gateBound THEN line ELSE << >>

\* Mutated form: the newcomer is looked at before the line.
AdmitsFirst(l, k) == Pending0 < l

\* admits: after the line was served down to its first k dispatches, there is
\* room left over.
GateAdmits(l, k) == Pending0 + Cardinality(Woken(hold, Line0, k)) < l

\* gate.waiters.append.
Joined(q, d) == Append(q, d)

\* _admit_to_engine up to the first await: adopt the loop and the limit l, serve
\* the line under it, then go at once, join the line, or, with a deadline
\* already past, leave.
Arrive(d, l, deadline, passed) ==
    /\ hold[d].at = "away"
    /\ Epoch0 <= MaxEpoch
    /\ passed => deadline
    /\ gateLimit' = l
    /\ epoch' = Epoch0
    /\ gateBound' = TRUE
    /\ \E k \in 0 .. Len(Line0) :
         LET served == Serve(hold, Woken(hold, Line0, k))
             n      == Pending0 + Cardinality(Woken(hold, Line0, k))
             rest   == SubSeq(Line0, k + 1, Len(Line0))
         IN  /\ WakeEnds(Pending0, l, hold, Line0, k)
             /\ \/ /\ GateAdmits(l, k)
                   /\ pending' = n + 1
                   /\ line' = rest
                   /\ hold' = [served EXCEPT ![d] = Sent(Epoch0, deadline)]
                \/ /\ ~ GateAdmits(l, k)
                   /\ ~ passed
                   /\ pending' = n
                   /\ line' = Joined(rest, d)
                   /\ hold' = [served EXCEPT ![d] = [Away EXCEPT !.at = "line", !.fut = "pending",
                                                                 !.deadline = deadline]]
                \/ /\ ~ GateAdmits(l, k)
                   /\ passed
                   /\ pending' = n
                   /\ line' = rest
                   /\ hold' = served

\* The wait times out (at the deadline, or after the acquire timeout) or the
\* task is cancelled; a cancellation may follow a timeout.
Stop(d, why) ==
    /\ hold[d].at = "line"
    /\ hold[d].stop = "none" \/ (hold[d].stop = "timeout" /\ why = "cancel")
    /\ hold' = [hold EXCEPT ![d].stop = why,
                            ![d].fut = IF @ = "pending" THEN "cancelled" ELSE @]
    /\ UNCHANGED <<gateLimit, pending, line, epoch, gateBound>>

\* The woken task runs on: its place was counted by the wake.
Resume(d) ==
    /\ hold[d].at = "line"
    /\ hold[d].fut = "granted"
    /\ hold[d].stop = "none"
    /\ hold' = [hold EXCEPT ![d] = Sent(epoch, @.deadline)]
    /\ UNCHANGED <<gateLimit, pending, line, epoch, gateBound>>

\* abandon, and out: cancelled, or past its deadline.
Leave(d) ==
    /\ hold[d].at = "line"
    /\ hold[d].stop = "cancel" \/ (hold[d].stop = "timeout" /\ hold[d].deadline)
    /\ \/ /\ hold[d].fut = "cancelled"
          /\ hold' = [hold EXCEPT ![d] = Away]
          /\ line' = LineWithout(d)
          /\ UNCHANGED pending
       \/ /\ hold[d].fut = "granted"
          /\ GiveBack(epoch, [hold EXCEPT ![d] = Away], LineWithout(d))
    /\ UNCHANGED <<gateLimit, epoch, gateBound>>

\* abandon, and then grant: no deadline, so the dispatch is sent anyway.  A
\* place granted meanwhile goes to the next in line first.
Overflow(d) ==
    LET sent == [hold EXCEPT ![d] = Sent(epoch, FALSE)]
    IN  /\ hold[d].at = "line"
        /\ hold[d].stop = "timeout" /\ ~ hold[d].deadline
        /\ \/ /\ hold[d].fut = "cancelled"
              /\ hold' = sent
              /\ line' = LineWithout(d)
              /\ pending' = pending + 1
           \/ /\ hold[d].fut = "granted"
              /\ \E k \in 0 .. Len(line) :
                   LET n == IF pending > 0 THEN pending - 1 ELSE 0
                       q == LineWithout(d)
                   IN  /\ WakeEnds(n, gateLimit, sent, q, k)
                       /\ pending' = n + Cardinality(Woken(sent, q, k)) + 1
                       /\ line' = SubSeq(q, k + 1, Len(q))
                       /\ hold' = Serve(sent, Woken(sent, q, k))
        /\ UNCHANGED <<gateLimit, epoch, gateBound>>

\* on_first_token: the engine has started answering.
FirstToken(d) ==
    /\ hold[d].at = "sent"
    /\ hold[d].place = "held"
    /\ GiveBack(hold[d].epoch, [hold EXCEPT ![d].place = "given_up"], line)
    /\ UNCHANGED <<gateLimit, epoch, gateBound>>

\* UpstreamSlot.release: the stream is over; the place goes back unless the
\* first token gave it up.
ReleaseEngine(d) ==
    /\ hold[d].at = "sent"
    /\ \/ /\ hold[d].place = "held"
          /\ GiveBack(hold[d].epoch, [hold EXCEPT ![d] = Away], line)
       \/ /\ hold[d].place = "given_up"
          /\ hold' = [hold EXCEPT ![d] = Away]
          /\ UNCHANGED <<pending, line>>
    /\ UNCHANGED <<gateLimit, epoch, gateBound>>

\* The event loop ends, its waiting tasks cancelled; streams that are still open
\* are closed later, under the loop that follows.
ReplaceEngineLoop ==
    /\ gateBound
    /\ epoch < MaxEpoch
    /\ \A d \in Dispatches : hold[d].at # "line"
    /\ gateBound' = FALSE
    /\ UNCHANGED <<gateLimit, pending, line, epoch, hold>>

GateNext ==
    \/ \E d \in Dispatches :
        \/ \E l \in HoldLimits, deadline, passed \in BOOLEAN : Arrive(d, l, deadline, passed)
        \/ \E why \in {"timeout", "cancel"} : Stop(d, why)
        \/ Resume(d)
        \/ Leave(d)
        \/ Overflow(d)
        \/ FirstToken(d)
        \/ ReleaseEngine(d)
    \/ ReplaceEngineLoop

GateSpec == GateInit /\ [][GateNext]_gateVars

-----------------------------------------------------------------------------
\* The dispatches a counted place belongs to.
PlaceHolders ==
    {d \in Dispatches : \/ hold[d].fut = "granted"
                        \/ hold[d].place = "held" /\ hold[d].epoch = epoch}

\* Every counted place belongs to one dispatch that will give it back, and goes
\* back once, by the first token, the end of the stream or the end of the wait;
\* a place of an earlier event loop is not given back into the new count
\* (_EngineGate.give_back, abandon, _EngineAdmission.release).
PlacesConserved == gateBound => pending = Cardinality(PlaceHolders)

\* More dispatches than the limit are sent only by one whose wait timed out with
\* nowhere else to go; the limit itself may drop below the count.
OverLimitOnlyByTimeout ==
    [][pending' > pending /\ pending' > gateLimit' =>
         \E d \in Dispatches : /\ hold[d].stop = "timeout" /\ ~ hold[d].deadline
                               /\ hold'[d].at = "sent"]_gateVars

=============================================================================
