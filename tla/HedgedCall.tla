----------------------------- MODULE HedgedCall -----------------------------
(***************************************************************************)
(* One request of a HedgedAdapter that is not streamed: the primary's call *)
(* and a backup's, which sleeps to its checkpoints, are two tasks, and the *)
(* request waits for whichever ends first.  One step is what runs between  *)
(* two awaits of a task.                                                   *)
(***************************************************************************)
EXTENDS Naturals, FiniteSets

CONSTANT CallCheckpoints   \* how many checkpoints ask for a backup

ASSUME CallCheckpointsAssumption == CallCheckpoints \in Nat

VARIABLE hc

Calls == {"primary", "backup"}

\* States a task has ended in.
CallEnded == {"ok", "failed", "unavailable", "cancelled"}

HedgedCallInit ==
    hc = [at        |-> "waiting",
          task      |-> [l \in Calls |-> IF l = "primary" THEN "calling" ELSE "asleep"],
          left      |-> CallCheckpoints,
          pending   |-> Calls,
          todo      |-> {},          \* the rest of the loop over done
          sent      |-> 0,           \* backups dispatched
          freed     |-> 0,           \* and released
          winner    |-> "none",
          good      |-> [l \in Calls |-> 0],
          bad       |-> [l \in Calls |-> 0]]

CallOver == {"returned", "raised", "gone"}

\* The other tasks run while the request's own awaits something.
OthersRun == hc.at \notin {"looking"} \cup CallOver

\* A call ends; the backup's capacity is released with it (the finally of
\* _run_backup_delayed and _run_backup_immediate).
CallEnds(l, r) ==
    /\ OthersRun /\ hc.task[l] = "calling"
    /\ hc' = [hc EXCEPT !.task[l] = r,
                        !.freed = IF l = "backup" THEN @ + 1 ELSE @]

Dispatched == [hc EXCEPT !.task["backup"] = "calling", !.sent = @ + 1]

\* A checkpoint of _run_backup_delayed.
CallCheckpoint ==
    /\ OthersRun /\ hc.task["backup"] = "asleep" /\ hc.left > 0
    /\ \/ hc' = Dispatched
       \/ hc' = [hc EXCEPT !.left = @ - 1]

\* The checkpoints are over without a backup.
CheckpointsOver ==
    /\ OthersRun /\ hc.task["backup"] = "asleep" /\ hc.left = 0
    /\ hc' = [hc EXCEPT !.task["backup"] = "unavailable"]

\* _run_backup_immediate.
BackupNow ==
    /\ OthersRun /\ hc.task["backup"] = "starting"
    /\ \/ hc' = Dispatched
       \/ hc' = [hc EXCEPT !.task["backup"] = "unavailable"]

\* asyncio.wait returns with every task that has ended by now.
WaitReturns ==
    /\ hc.at = "waiting"
    /\ LET done == {l \in hc.pending : hc.task[l] \in CallEnded}
       IN  /\ done # {}
           /\ hc' = [hc EXCEPT !.at = "looking", !.todo = done, !.pending = @ \ done]

\* Not backup_past_sleep.
RelaunchWanted == hc.sent = 0

\* The primary failed: a backup still asleep is cancelled and started now.
PrimaryFailed ==
    /\ hc.at = "looking" /\ "primary" \in hc.todo /\ hc.task["primary"] = "failed"
    /\ LET s == [hc EXCEPT !.todo = @ \ {"primary"}, !.bad["primary"] = @ + 1]
       IN  hc' = CASE ~RelaunchWanted -> s
                   [] RelaunchWanted /\ "backup" \in hc.pending ->
                         [s EXCEPT !.at = "relaunching", !.pending = @ \ {"backup"},
                                   !.task["backup"] = "cancelled"]
                   [] OTHER -> [s EXCEPT !.task["backup"] = "starting",
                                         !.pending = @ \cup {"backup"},
                                         !.todo = @ \ {"backup"}]

\* The cancelled backup has ended, its sleep cut short.
Relaunch ==
    /\ hc.at = "relaunching"
    /\ hc' = [hc EXCEPT !.at = "looking", !.task["backup"] = "starting",
                        !.pending = @ \cup {"backup"}]

\* The backup failed, or there was none.
BackupFailed ==
    /\ hc.at = "looking" /\ "backup" \in hc.todo
    /\ hc.task["backup"] \in {"failed", "unavailable"}
    /\ hc' = [hc EXCEPT !.todo = @ \ {"backup"},
                        !.bad["backup"] = IF hc.task["backup"] = "failed" THEN @ + 1 ELSE @]

\* A winner: the other task is cancelled, and asks for no backup any more.
CallWins(l) ==
    /\ hc.at = "looking" /\ l \in hc.todo /\ hc.task[l] = "ok"
    /\ hc' = [hc EXCEPT !.at = "stopping", !.winner = l, !.good[l] = @ + 1, !.todo = {},
                        !.task["backup"] = IF @ \in {"asleep", "starting"} THEN "cancelled"
                                                                           ELSE @]

\* Cancelled tasks have ended, whatever way, and released what they hold.
Cancelled(s, ls) ==
    [s EXCEPT !.task = [l \in Calls |-> IF l \in ls /\ @[l] \notin CallEnded THEN "cancelled"
                                                                             ELSE @[l]],
              !.freed = IF "backup" \in ls /\ s.task["backup"] = "calling" THEN @ + 1 ELSE @]

\* A winner that does not wait for the task it cancelled.
ReturnAtOnce ==
    /\ hc.at = "stopping"
    /\ hc' = [hc EXCEPT !.at = "returned"]

\* The other task has stopped: its result is returned.
ReturnResult ==
    /\ hc.at = "stopping"
    /\ hc' = [Cancelled(hc, Calls) EXCEPT !.at = "returned"]

\* The loop over done ends: wait again, or raise the primary's error.
LookedAll ==
    /\ hc.at = "looking" /\ hc.todo = {}
    /\ hc' = [hc EXCEPT !.at = IF hc.pending = {} THEN "raised" ELSE "waiting"]

\* The caller goes away; while a cancelled task is awaited nothing comes of it.
CancelCall ==
    /\ hc.at = "waiting"
    /\ hc' = [Cancelled(hc, hc.pending) EXCEPT !.at = "gone"]

HedgedCallTask ==
    \/ CallCheckpoint \/ CheckpointsOver \/ BackupNow
    \/ WaitReturns \/ PrimaryFailed \/ Relaunch \/ BackupFailed
    \/ \E l \in Calls : CallWins(l)
    \/ ReturnResult \/ LookedAll

ProviderAnswers == \E l \in Calls, r \in {"ok", "failed"} : CallEnds(l, r)

HedgedCallNext == HedgedCallTask \/ ProviderAnswers \/ CancelCall

HedgedCallSpec == HedgedCallInit /\ [][HedgedCallNext]_hc

-----------------------------------------------------------------------------
(* Properties *)

\* When the request is over nothing of it runs on, and the backup's
\* capacity has been released as often as it was taken.
NothingLeftRunning ==
    hc.at \in CallOver => /\ \A l \in Calls : hc.task[l] \in CallEnded
                          /\ hc.freed = hc.sent

=============================================================================
