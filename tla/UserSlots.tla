----------------------------- MODULE UserSlots -----------------------------
(***************************************************************************)
(* The in-flight requests of one user (serving/servers/concurrency.py): a  *)
(* request takes a slot of a budget, reserves its cost, and is counted as  *)
(* interactive load on its model until it ends.  The slots and the load    *)
(* are only touched from the event loop: a step is what runs between two   *)
(* awaits.                                                                 *)
(***************************************************************************)
EXTENDS Naturals, FiniteSets

CONSTANTS Visitors,   \* requests of the user at the same time
          Models,     \* canonical model ids
          NoModel,    \* a model that is not known, or not yet
          Limits,     \* caps an admin sets; 0 is UNLIMITED_CONCURRENCY
          OwnCap      \* the cap of the exempt and of the counting budget

ASSUME SlotsAssumption ==
    /\ IsFiniteSet(Visitors)
    /\ Limits \subseteq Nat /\ Limits # {} /\ OwnCap \in Nat
    /\ NoModel \notin Models

VARIABLES
    parseFirst,  \* an exemption resolver is configured: the body is read first
    limit,       \* the cap of the user's role in force
    slots,       \* _slots: capacity and in_use of each budget
    load,        \* INTERACTIVE_LOAD
    reserved,    \* requests with a spend reservation
    visit        \* of each request: where it is, its budget, the cap it read, its model

slotVars == <<parseFirst, limit, slots, load, reserved, visit>>

Budgets == {"normal", "exempt", "count"}
NoVisit == [at |-> "idle", budget |-> "normal", cap |-> 0, model |-> NoModel]

SlotsTypeOK ==
    /\ parseFirst \in BOOLEAN /\ limit \in Limits
    /\ slots \in [Budgets -> [capacity : Limits \cup {OwnCap}, in_use : 0 .. Cardinality(Visitors)]]
    /\ load \in [Models -> 0 .. Cardinality(Visitors)]
    /\ reserved \subseteq Visitors
    /\ visit \in [Visitors -> [at : {"idle", "asking", "told", "reading", "running"},
                               budget : Budgets, cap : Limits \cup {OwnCap},
                               model : Models \cup {NoModel}]]

SlotsInit ==
    /\ parseFirst \in BOOLEAN
    /\ limit \in Limits
    /\ slots = [b \in Budgets |-> [capacity |-> IF b = "normal" THEN limit ELSE OwnCap,
                                   in_use |-> 0]]
    /\ load = [m \in Models |-> 0]
    /\ reserved = {}
    /\ visit = [c \in Visitors |-> NoVisit]

\* A request to count tokens: a budget of its own, no cost and no load.
Counting(c) == visit[c].budget = "count"

\* An admin changes the limits.
SetLimit(n) ==
    /\ n # limit
    /\ limit' = n
    /\ UNCHANGED <<parseFirst, slots, load, reserved, visit>>

\* A request arrives; its body is read first where that decides its budget.
Arrive(c, budget, model) ==
    /\ visit[c].at = "idle"
    /\ budget = "exempt" => parseFirst /\ model # NoModel
    /\ ~parseFirst \/ budget = "count" => model = NoModel
    /\ visit' = [visit EXCEPT ![c] = [NoVisit EXCEPT !.at = "asking", !.budget = budget,
                                                     !.model = model]]
    /\ UNCHANGED <<parseFirst, limit, slots, load, reserved>>

\* _read_limits; what it returns may be old when the request goes on.
ReadLimits(c) ==
    /\ visit[c].at = "asking"
    /\ visit' = [visit EXCEPT ![c].at = "told",
                              ![c].cap = IF visit[c].budget = "normal" THEN limit ELSE OwnCap]
    /\ UNCHANGED <<parseFirst, limit, slots, load, reserved>>

\* Counted as interactive load (InteractiveLoad._increment, _decrement).
Counted(ld, m) == [x \in Models |-> IF x = m THEN ld[x] + 1 ELSE ld[x]]
Uncounted(ld, m) == [x \in Models |-> IF x = m /\ ld[x] > 0 THEN ld[x] - 1 ELSE ld[x]]

\* try_acquire, after the resize.
Grants(c) == visit[c].cap = 0 \/ slots[visit[c].budget].in_use < visit[c].cap

Resized(c, grant) ==
    [slots EXCEPT ![visit[c].budget] =
        [capacity |-> visit[c].cap, in_use |-> @.in_use + (IF grant THEN 1 ELSE 0)]]

Freed(c) == [slots EXCEPT ![visit[c].budget].in_use = IF @ > 0 THEN @ - 1 ELSE @]

\* The cap read is taken over and a slot asked for; the request is refused.
Refused(c) ==
    /\ visit[c].at = "told" /\ ~Grants(c)
    /\ slots' = Resized(c, FALSE)
    /\ visit' = [visit EXCEPT ![c] = NoVisit]
    /\ UNCHANGED <<parseFirst, limit, load, reserved>>

\* The slot is granted, and the cost of the request no longer fits.
OverBudget(c) ==
    /\ visit[c].at = "told" /\ Grants(c) /\ ~Counting(c)
    /\ slots' = Resized(c, FALSE)
    /\ visit' = [visit EXCEPT ![c] = NoVisit]
    /\ UNCHANGED <<parseFirst, limit, load, reserved>>

\* The slot and the reservation are taken; a body not read yet is read now.
TakeSlot(c) ==
    /\ visit[c].at = "told" /\ Grants(c)
    /\ slots' = Resized(c, TRUE)
    /\ reserved' = IF Counting(c) THEN reserved ELSE reserved \cup {c}
    /\ IF ~Counting(c) /\ ~parseFirst
         THEN visit' = [visit EXCEPT ![c].at = "reading"] /\ load' = load
         ELSE /\ visit' = [visit EXCEPT ![c].at = "running"]
              /\ load' = Counted(load, visit[c].model)
    /\ UNCHANGED <<parseFirst, limit>>

ReadBody(c, model) ==
    /\ visit[c].at = "reading"
    /\ visit' = [visit EXCEPT ![c].at = "running", ![c].model = model]
    /\ load' = Counted(load, model)
    /\ UNCHANGED <<parseFirst, limit, slots, reserved>>

\* A retarget that counts the model and leaves the old one as it is.
RetargetKeeps(c, model) ==
    /\ visit[c].at = "running" /\ ~Counting(c) /\ model # visit[c].model
    /\ load' = Counted(load, model)
    /\ visit' = [visit EXCEPT ![c].model = model]
    /\ UNCHANGED <<parseFirst, limit, slots, reserved>>

\* An auto model is resolved: the count moves.
Retarget(c, model) ==
    /\ visit[c].at = "running" /\ ~Counting(c) /\ model # visit[c].model
    /\ load' = Counted(Uncounted(load, visit[c].model), model)
    /\ visit' = [visit EXCEPT ![c].model = model]
    /\ UNCHANGED <<parseFirst, limit, slots, reserved>>

\* A request that holds a slot ends, whichever way.
Leave(c) ==
    /\ visit[c].at \in {"reading", "running"}
    /\ load' = IF visit[c].at = "running" THEN Uncounted(load, visit[c].model) ELSE load
    /\ reserved' = reserved \ {c}
    /\ slots' = Freed(c)
    /\ visit' = [visit EXCEPT ![c] = NoVisit]
    /\ UNCHANGED <<parseFirst, limit>>

\* The caller goes away before it has one.
LeaveEarly(c) ==
    /\ visit[c].at \in {"asking", "told"}
    /\ visit' = [visit EXCEPT ![c] = NoVisit]
    /\ UNCHANGED <<parseFirst, limit, slots, load, reserved>>

SlotsNext ==
    \/ \E n \in Limits : SetLimit(n)
    \/ \E c \in Visitors :
          \/ \E b \in Budgets, m \in Models \cup {NoModel} : Arrive(c, b, m)
          \/ ReadLimits(c) \/ Refused(c) \/ OverBudget(c) \/ TakeSlot(c)
          \/ \E m \in Models \cup {NoModel} : ReadBody(c, m)
          \/ \E m \in Models : Retarget(c, m)
          \/ Leave(c) \/ LeaveEarly(c)

SlotsSpec == SlotsInit /\ [][SlotsNext]_slotVars

-----------------------------------------------------------------------------
(* Properties *)

Holders == {c \in Visitors : visit[c].at \in {"reading", "running"}}

\* What a user holds is what their requests in flight hold: no slot, load or
\* reservation is left behind by a refusal, a body that never arrives, a
\* resize, a resolved auto model or a caller that goes away.
HeldByRequests ==
    /\ \A b \in Budgets :
          slots[b].in_use = Cardinality({c \in Holders : visit[c].budget = b})
    /\ \A m \in Models :
          load[m] = Cardinality({c \in Holders : visit[c].at = "running" /\ visit[c].model = m})
    /\ reserved = {c \in Holders : ~Counting(c)}

=============================================================================
