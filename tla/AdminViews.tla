----------------------------- MODULE AdminViews -----------------------------
(***************************************************************************)
(* One slow admin view (routers/admin/_refreshing_cache.py) kept in the    *)
(* memory of each server and in the database                               *)
(* (storage/admin_view_results.py), against hard deletes that advance its  *)
(* generation.  A step is what runs between two awaits, or one transaction *)
(* of the database.                                                        *)
(*                                                                         *)
(* A result is the generation read before it was computed and the epoch,   *)
(* the number of deletes its rows are without.  Generations count from 1   *)
(* here.  Whether a result is stale, and whether a failure is recent, is   *)
(* left open.                                                              *)
(***************************************************************************)
EXTENDS Naturals

CONSTANTS Servers,      \* processes
          Viewers,      \* requests for the view at the same time
          MaxAttempts,  \* _MAX_ATTEMPTS
          MaxDeletes    \* hard deletes: the bound

ASSUME ViewsAssumption == MaxAttempts \in Nat \ {0} /\ MaxDeletes \in Nat

VARIABLES
    gen,     \* admin_view_state.generation
    stored,  \* the row of admin_view_results
    mem,     \* _State of each server: value, seen, restored, error
    job,     \* _State.task: where it is, the result it computes, attempts left
    view     \* of each request: server, where it is, generation it saw, result, waits left

viewVars == <<gen, stored, mem, job, view>>

NoResult == [epoch |-> 0, generation |-> 0]
NoState == [value |-> NoResult, seen |-> 0, restored |-> FALSE, error |-> FALSE]
NoJob == [at |-> "idle", result |-> NoResult, left |-> 0]
NoView(s) == [server |-> s, at |-> "idle", saw |-> 0, result |-> NoResult, left |-> 0]

ViewsInit ==
    /\ gen = 1
    /\ stored = NoResult
    /\ mem = [s \in Servers |-> NoState]
    /\ job = [s \in Servers |-> NoJob]
    /\ \E s \in Servers : view = [v \in Viewers |-> NoView(s)]

\* A result that is kept whatever was seen since.
DropNever(m) == m

\* _drop_if_superseded.
Dropped(m) ==
    IF m.value = NoResult \/ m.value.generation >= m.seen THEN m
    ELSE [m EXCEPT !.value = NoResult, !.restored = FALSE]

\* clear, in the transaction of the delete.
DeleteUser ==
    /\ gen <= MaxDeletes
    /\ gen' = gen + 1
    /\ stored' = NoResult
    /\ UNCHANGED <<mem, job, view>>

-----------------------------------------------------------------------------
(* The computation: _run and _publish *)

\* _start: callers share the one that runs.
Started(s) ==
    IF job[s].at # "idle" THEN job
    ELSE [job EXCEPT ![s] = [NoJob EXCEPT !.at = "started", !.left = MaxAttempts]]

ReadGeneration(s) ==
    /\ job[s].at = "started"
    /\ job' = [job EXCEPT ![s].at = "loading", ![s].result = [epoch |-> 0, generation |-> gen]]
    /\ UNCHANGED <<gen, stored, mem, view>>

Load(s) ==
    /\ job[s].at = "loading"
    /\ job' = [job EXCEPT ![s].at = "loaded", ![s].result.epoch = gen]
    /\ UNCHANGED <<gen, stored, mem, view>>

Waiting(s) == {v \in Viewers : view[v].server = s /\ view[v].at = "waiting"}

\* The task is done, and those who wait for it are woken.
Ends(s, outcome) ==
    /\ job' = [job EXCEPT ![s] = NoJob]
    /\ view' = [v \in Viewers |-> IF v \in Waiting(s) THEN [view[v] EXCEPT !.at = outcome]
                                                     ELSE view[v]]

Fails(s) ==
    /\ mem' = [mem EXCEPT ![s].error = TRUE]
    /\ Ends(s, "failed")

\* A delete came in between: the result is computed again, or given up.
Superseded(s) ==
    IF job[s].left = 1 THEN Fails(s)
    ELSE /\ job' = [job EXCEPT ![s].at = "started", ![s].left = @ - 1]
         /\ UNCHANGED <<mem, view>>

\* write: a result that another server computed later is kept.
Write(s, newer) ==
    /\ job[s].at = "loaded"
    /\ IF job[s].result.generation = gen
         THEN /\ stored' = IF newer \/ stored = NoResult THEN job[s].result ELSE stored
              /\ job' = [job EXCEPT ![s].at = "written"]
              /\ UNCHANGED <<mem, view>>
         ELSE Superseded(s) /\ UNCHANGED stored
    /\ UNCHANGED gen

\* The write fails, or is committed and seems to have failed.
WriteFails(s, committed) ==
    /\ job[s].at = "loaded"
    /\ committed => job[s].result.generation = gen
    /\ stored' = IF committed THEN job[s].result ELSE stored
    /\ job' = [job EXCEPT ![s].at = "unsure"]
    /\ UNCHANGED <<gen, mem, view>>

\* The generation is read again after a write that failed.
Recheck(s) ==
    /\ job[s].at = "unsure"
    /\ IF job[s].result.generation = gen
         THEN job' = [job EXCEPT ![s].at = "written"] /\ UNCHANGED <<mem, view>>
         ELSE Superseded(s)
    /\ UNCHANGED <<gen, stored>>

Keeps(m, result) ==
    /\ result.generation >= m.seen
    /\ m.value = NoResult \/ result.generation >= m.value.generation

Publish(s) ==
    LET kept == IF Keeps(mem[s], job[s].result) THEN job[s].result ELSE mem[s].value IN
    /\ job[s].at = "written"
    /\ mem' = [mem EXCEPT ![s].value = kept, ![s].error = FALSE]
    /\ Ends(s, "done")
    /\ UNCHANGED <<gen, stored>>

\* A read of the generation, or the load, raises.
JobFails(s) ==
    /\ job[s].at \in {"started", "loading", "unsure"}
    /\ Fails(s)
    /\ UNCHANGED <<gen, stored>>

\* The process is replaced; its requests are lost.
Restart(s) ==
    /\ mem' = [mem EXCEPT ![s] = NoState]
    /\ job' = [job EXCEPT ![s] = NoJob]
    /\ view' = [v \in Viewers |-> IF view[v].server = s THEN NoView(s) ELSE view[v]]
    /\ UNCHANGED <<gen, stored>>

-----------------------------------------------------------------------------
(* A request: get and warm *)

\* The generation is read.
Ask(v, s) ==
    /\ view[v].at \in {"idle", "served"}
    /\ view' = [view EXCEPT ![v] = [NoView(s) EXCEPT !.at = "asked", !.saw = gen]]
    /\ UNCHANGED <<gen, stored, mem, job>>

\* The read fails: the request goes on with what the server has seen.
AskFails(v, s) ==
    /\ view[v].at \in {"idle", "served"}
    /\ view' = [view EXCEPT ![v] = [NoView(s) EXCEPT !.at = "checked"]]
    /\ UNCHANGED <<gen, stored, mem, job>>

\* _check goes on: without a result, the stored one is read, once.
Learn(v) ==
    LET s == view[v].server
        m == Dropped([mem[s] EXCEPT !.seen = IF @ < view[v].saw THEN view[v].saw ELSE @])
        restore == ~m.restored /\ m.value = NoResult
    IN  /\ view[v].at = "asked"
        /\ mem' = [mem EXCEPT ![s] = IF restore THEN [m EXCEPT !.restored = TRUE] ELSE m]
        /\ view' = [view EXCEPT ![v].at = IF restore THEN "restoring" ELSE "checked"]
        /\ UNCHANGED <<gen, stored, job>>

ReadStored(v) ==
    /\ view[v].at = "restoring"
    /\ view' = [view EXCEPT ![v].at = "read", ![v].result = stored]
    /\ UNCHANGED <<gen, stored, mem, job>>

ReadStoredFails(v) ==
    /\ view[v].at = "restoring"
    /\ view' = [view EXCEPT ![v].at = "checked"]
    /\ UNCHANGED <<gen, stored, mem, job>>

\* The stored result is adopted, unless there is one or a delete was seen.
Adopt(v) ==
    LET s == view[v].server
        adopts == /\ view[v].result # NoResult /\ mem[s].value = NoResult
                  /\ view[v].result.generation >= mem[s].seen
    IN  /\ view[v].at = "read"
        /\ mem' = IF adopts THEN [mem EXCEPT ![s].value = view[v].result] ELSE mem
        /\ view' = [view EXCEPT ![v].at = "checked", ![v].result = NoResult]
        /\ UNCHANGED <<gen, stored, job>>

\* _served, the end of a request.
Serve(v, m) ==
    view' = [view EXCEPT ![v].at = "served", ![v].result = Dropped(m).value, ![v].left = 0]

\* get with no result: a recent failure is raised, or the first one awaited.
\* The last of _wait_for_first's rounds is the one with no wait left.
AwaitFirst(v, refresh, recent) ==
    LET s == view[v].server  m == Dropped(mem[s]) IN
    /\ view[v].at = "checked" /\ m.value = NoResult
    /\ recent => mem[s].error
    /\ mem' = [mem EXCEPT ![s] = m]
    /\ IF ~refresh /\ recent /\ job[s].at = "idle"
         THEN view' = [view EXCEPT ![v] = NoView(s)] /\ UNCHANGED job
         ELSE /\ job' = Started(s)
              /\ view' = [view EXCEPT ![v].at = "waiting", ![v].left = MaxAttempts - 1]
    /\ UNCHANGED <<gen, stored>>

\* get with a result: it is served, and refreshed if asked for or stale.
ServeKept(v, refresh) ==
    LET s == view[v].server  m == Dropped(mem[s]) IN
    /\ view[v].at = "checked" /\ m.value # NoResult
    /\ job' = IF refresh THEN Started(s) ELSE job
    /\ mem' = [mem EXCEPT ![s] = m]
    /\ Serve(v, m)
    /\ UNCHANGED <<gen, stored>>

\* warm: the computation is started if there is no result or a stale one.
Warm(v) ==
    LET s == view[v].server IN
    /\ view[v].at = "checked"
    /\ job' = Started(s)
    /\ view' = [view EXCEPT ![v] = NoView(s)]
    /\ UNCHANGED <<gen, stored, mem>>

\* The computation a request waits for has ended.
WaitOver(v) ==
    LET s == view[v].server  m == Dropped(mem[s]) IN
    /\ view[v].at = "done"
    /\ mem' = [mem EXCEPT ![s] = m]
    /\ IF m.value = NoResult /\ view[v].left > 0
         THEN job' = Started(s) /\ view' = [view EXCEPT ![v].at = "waiting", ![v].left = @ - 1]
         ELSE Serve(v, m) /\ UNCHANGED job
    /\ UNCHANGED <<gen, stored>>

WaitFailed(v) ==
    /\ view[v].at = "failed"
    /\ view' = [view EXCEPT ![v] = NoView(view[v].server)]
    /\ UNCHANGED <<gen, stored, mem, job>>

\* first_wait_seconds are over.
WaitTimesOut(v) ==
    LET s == view[v].server  m == Dropped(mem[s]) IN
    /\ view[v].at = "waiting"
    /\ mem' = [mem EXCEPT ![s] = m]
    /\ Serve(v, m)
    /\ UNCHANGED <<gen, stored, job>>

JobStep(s) ==
    \/ ReadGeneration(s) \/ Load(s)
    \/ \E newer \in BOOLEAN : Write(s, newer)
    \/ \E committed \in BOOLEAN : WriteFails(s, committed)
    \/ Recheck(s) \/ Publish(s) \/ JobFails(s)

ViewStep(v) ==
    \/ \E s \in Servers : Ask(v, s) \/ AskFails(v, s)
    \/ Learn(v) \/ ReadStored(v) \/ ReadStoredFails(v) \/ Adopt(v)
    \/ \E refresh \in BOOLEAN :
          \/ \E recent \in BOOLEAN : AwaitFirst(v, refresh, recent)
          \/ ServeKept(v, refresh)
    \/ Warm(v) \/ WaitOver(v) \/ WaitFailed(v) \/ WaitTimesOut(v)

ViewsNext ==
    \/ DeleteUser
    \/ \E s \in Servers : JobStep(s) \/ Restart(s)
    \/ \E v \in Viewers : ViewStep(v)

ViewsSpec == ViewsInit /\ [][ViewsNext]_viewVars

-----------------------------------------------------------------------------
(* Properties *)

\* "no request returns a result older than the generation it saw when it
\* began": what is served has none of the rows of a delete the request saw,
\* whichever computation, stored row or earlier process it came from.
NothingErasedServed ==
    \A v \in Viewers :
        view[v].at = "served" /\ view[v].result # NoResult => view[v].result.epoch >= view[v].saw

=============================================================================
