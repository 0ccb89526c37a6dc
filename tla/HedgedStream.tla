---------------------------- MODULE HedgedStream ----------------------------
(***************************************************************************)
(* One streamed request of a HedgedAdapter: the primary's stream starts at *)
(* once, a backup is asked for at checkpoints or when the primary fails,   *)
(* and the first stream with output wins the race.                         *)
(*                                                                         *)
(* The race runs on the event loop: what is between two awaits is one step *)
(* here, and the legs, the timers and the caller act in between.  A chunk  *)
(* with output, or one that fills the buffer, is "content"; other chunks   *)
(* are "chunk".  The state is one record, so that the parts of a round can *)
(* be written as functions of it.                                          *)
(***************************************************************************)
EXTENDS Naturals, Sequences

CONSTANT Checkpoints   \* how many checkpoints ask for a backup

ASSUME CheckpointsAssumption == Checkpoints \in Nat

VARIABLE hs

Legs == {"primary", "backup"}
Results == {"chunk", "content", "end", "error"}

HedgedStreamInit ==
    hs = [at       |-> "racing",     \* where the request's task is
          pull     |-> [l \in Legs |-> IF l = "primary" THEN "pulling" ELSE "none"],
          ended    |-> FALSE,        \* primary_done
          failed   |-> FALSE,        \* primary_error
          timer    |-> IF Checkpoints > 0 THEN "set" ELSE "none",
          left     |-> IF Checkpoints > 0 THEN Checkpoints - 1 ELSE 0,
          deadline |-> "set",
          started  |-> FALSE,        \* a backup was dispatched
          stream   |-> "none",       \* the backup's generator
          freed    |-> 0,            \* how often its capacity was released
          cleanup  |-> "none",       \* _stream_backup_cleanup_task
          toClose  |-> <<>>,         \* generators the request has still to close
          cut      |-> FALSE,        \* the caller left while they were being closed
          output   |-> FALSE,        \* primary_has_content
          late     |-> FALSE,        \* race_deadline_expired
          winner   |-> "none",
          good     |-> [l \in Legs |-> 0],   \* record_success
          bad      |-> [l \in Legs |-> 0]]   \* record_failure

-----------------------------------------------------------------------------
(* The legs, the timers *)

Racing == hs.at \in {"racing", "settling"}

LegYields(l, r) ==
    /\ Racing /\ hs.pull[l] = "pulling"
    /\ hs' = [hs EXCEPT !.pull[l] = r]

TimerFires == Racing /\ hs.timer = "set" /\ hs' = [hs EXCEPT !.timer = "fired"]

DeadlineFires == Racing /\ hs.deadline = "set" /\ hs' = [hs EXCEPT !.deadline = "fired"]

-----------------------------------------------------------------------------
(* A round of the race, in parts *)

CountFailure(s, l) == [s EXCEPT !.bad[l] = @ + 1]
CountSuccess(s, l) == [s EXCEPT !.good[l] = @ + 1]

\* _next_checkpoint_task.
NextCheckpoint(s) ==
    IF s.left > 0 THEN [s EXCEPT !.timer = "set", !.left = @ - 1]
                  ELSE [s EXCEPT !.timer = "none"]

\* _start_stream_backup, when there is a backup to dispatch.
StartStreamBackup(s) ==
    [s EXCEPT !.started = TRUE, !.stream = "open", !.pull["backup"] = "pulling"]

\* The hedge timer's part of a round.
AfterTimer(s, there) ==
    IF s.timer # "fired" THEN s
    ELSE IF s.started \/ s.ended THEN [s EXCEPT !.timer = "none"]
    ELSE IF there THEN StartStreamBackup([s EXCEPT !.timer = "none"])
    ELSE NextCheckpoint(s)

\* The primary failed: the backup starts now, unless it already has.
AfterPrimaryError(s, there) ==
    LET t == CountFailure([s EXCEPT !.ended = TRUE, !.failed = TRUE, !.pull["primary"] = "none"],
                     "primary")
    IN  IF t.started THEN t
        ELSE IF there THEN StartStreamBackup([t EXCEPT !.timer = "none"])
        ELSE [t EXCEPT !.timer = "none"]

\* The primary's part of a round otherwise.
AfterPrimary(s) ==
    CASE s.pull["primary"] = "content" -> [s EXCEPT !.output = TRUE]
      [] s.pull["primary"] = "end"     -> [s EXCEPT !.ended = TRUE, !.pull["primary"] = "none"]
      [] OTHER                         -> s

\* _finish_stream_backup's release; the task that cleans up, if there is
\* one, does it instead.
FinishStreamBackup(s) ==
    IF s.started /\ s.freed = 0 /\ s.cleanup = "none" THEN [s EXCEPT !.freed = @ + 1] ELSE s

\* The request goes on to close what it opened: the primary's generator and
\* the backup's, unless a cleanup task owns that.
ToClosing(s) ==
    [s EXCEPT !.at = "closing", !.pull = [l \in Legs |-> "none"], !.timer = "none",
              !.deadline = "none",
              !.toClose = IF s.started /\ s.cleanup = "none" THEN <<"primary", "backup">>
                                                             ELSE <<"primary">>]

\* What raises out of the race first stops its tasks and the backup.
Raise(s) == [s EXCEPT !.at = "unwinding", !.timer = "none", !.deadline = "none"]

\* The race is won; a losing backup is left to a task of its own
\* (_schedule_stream_backup_cleanup).
Win(s, l) ==
    LET t == CountSuccess([s EXCEPT !.at = "streaming", !.winner = l, !.timer = "none",
                               !.deadline = "none", !.pull = [x \in Legs |-> "none"]], l)
    IN  IF l = "primary" /\ t.started /\ t.freed = 0
          THEN [t EXCEPT !.cleanup = "scheduled"] ELSE t

\* The deadline: every leg still running failed.
Blame(s) ==
    LET t == IF s.ended THEN s ELSE CountFailure(s, "primary")
    IN  IF t.pull["backup"] # "none" THEN CountFailure(t, "backup") ELSE t

\* Pull again from the streams that gave a chunk.
PullOn(s) ==
    [s EXCEPT !.pull = [l \in Legs |-> IF @[l] = "chunk" THEN "pulling" ELSE @[l]],
              !.output = FALSE, !.late = FALSE]

\* The end of a round: a winner, the primary first, or the deadline, or on.
Decide(s) ==
    IF s.output THEN Win(s, "primary")
    ELSE IF s.pull["backup"] = "content" THEN Win(s, "backup")
    ELSE IF s.late THEN Raise(Blame(s))
    ELSE PullOn([s EXCEPT !.at = "racing"])

-----------------------------------------------------------------------------
(* The request's task *)

Waits(s) == s.timer # "none" \/ \E l \in Legs : s.pull[l] # "none"

\* A wait that no deadline ends.
RoundReadyLate ==
    /\ hs.at = "racing" /\ Waits(hs)
    /\ hs.timer = "fired" \/ \E l \in Legs : hs.pull[l] \in Results

RoundReady ==
    /\ hs.at = "racing" /\ Waits(hs)
    /\ hs.timer = "fired" \/ hs.deadline = "fired" \/ \E l \in Legs : hs.pull[l] \in Results

\* asyncio.wait returns.  A backup that stopped is finished first, which
\* takes an await; a primary's error skips the rest of the round.
Round ==
    /\ RoundReady
    /\ \E atTimer, atError \in BOOLEAN :
          LET s == AfterTimer([hs EXCEPT !.late = hs.deadline = "fired"], atTimer)
          IN  hs' = CASE s.pull["primary"] = "error" -> AfterPrimaryError(s, atError)
                      [] s.pull["primary"] # "error" /\ s.pull["backup"] \in {"end", "error"} ->
                            [AfterPrimary(s) EXCEPT !.at = "settling"]
                      [] OTHER -> Decide(AfterPrimary(s))

\* The stopped backup's generator is closed and its capacity released.
SettleBackup ==
    /\ hs.at = "settling"
    /\ LET s == FinishStreamBackup([hs EXCEPT !.stream = "closed"])
           t == IF s.pull["backup"] = "error" THEN CountFailure(s, "backup") ELSE s
       IN  hs' = Decide([t EXCEPT !.pull["backup"] = "none"])

\* Both streams are over without output: the primary's error, or its buffer.
Exhausted ==
    /\ hs.at = "racing" /\ ~Waits(hs)
    /\ hs' = IF hs.failed THEN Raise(hs)
             ELSE CountSuccess([hs EXCEPT !.at = "streaming", !.winner = "primary",
                                     !.deadline = "none"], "primary")

\* An except clause that leaves the backup's generator to the finally block.
UnwindUnclosed == hs.at = "unwinding" /\ hs' = ToClosing(FinishStreamBackup(hs))

\* _race_streams' except clause.
Unwind ==
    /\ hs.at = "unwinding"
    /\ LET s == IF hs.stream = "open" THEN [hs EXCEPT !.stream = "closed"] ELSE hs
       IN  hs' = ToClosing(FinishStreamBackup(s))

\* The winner's stream ends or fails, or the caller stops reading.
StreamEnds == hs.at = "streaming" /\ hs' = ToClosing(hs)

\* The caller goes away during the race.
CancelRace ==
    /\ hs.at \in {"racing", "settling"}
    /\ hs' = Raise(IF hs.at = "settling"
                     THEN FinishStreamBackup([hs EXCEPT !.stream = "closed"]) ELSE hs)

\* A cleanup that was scheduled before has begun: the loop runs tasks in order.
CleanupBegan == hs.cleanup # "scheduled"

\* One generator is closed; cut short by a cancellation, the rest are not.
CloseNext(cut) ==
    /\ hs.at = "closing" /\ hs.toClose # <<>> /\ CleanupBegan
    /\ hs' = [hs EXCEPT !.stream = IF Head(hs.toClose) = "backup" THEN "closed" ELSE @,
                        !.toClose = IF cut THEN <<>> ELSE Tail(@),
                        !.cut = @ \/ cut]

\* The last step of the finally block.
EndRequest ==
    /\ hs.at = "closing" /\ hs.toClose = <<>>
    /\ hs' = [FinishStreamBackup(hs) EXCEPT !.at = "over"]

\* The cleanup task of a losing backup.
BeginCleanup ==
    /\ hs.cleanup = "scheduled"
    /\ hs' = [hs EXCEPT !.cleanup = "closing"]

FinishCleanup ==
    /\ hs.cleanup = "closing"
    /\ hs' = [hs EXCEPT !.cleanup = "done", !.stream = "closed", !.freed = @ + 1]

\* A generator nobody closed is closed when it is garbage.
CollectGenerator ==
    /\ hs.at = "over" /\ hs.stream = "open" /\ hs.cleanup = "none"
    /\ hs' = [hs EXCEPT !.stream = "closed"]

HedgedStreamTask ==
    \/ Round \/ SettleBackup \/ Exhausted \/ Unwind \/ CloseNext(FALSE) \/ EndRequest
    \/ BeginCleanup \/ FinishCleanup \/ CollectGenerator

HedgedStreamNext ==
    \/ \E l \in Legs, r \in Results : LegYields(l, r)
    \/ TimerFires \/ DeadlineFires \/ StreamEnds
    \/ HedgedStreamTask \/ CancelRace \/ CloseNext(TRUE)

\* The event loop runs what is ready and its timers fire; a provider may
\* hang for as long as it likes, except that a won stream ends.
HedgedStreamFairness ==
    WF_hs(HedgedStreamTask) /\ WF_hs(TimerFires) /\ WF_hs(DeadlineFires) /\ WF_hs(StreamEnds)

HedgedStreamSpec == HedgedStreamInit /\ [][HedgedStreamNext]_hs /\ HedgedStreamFairness

-----------------------------------------------------------------------------
(* Properties *)

\* "Provider capacity remains held until the generator/task has actually
\* stopped."  The one exception is a caller that goes away a second time,
\* while the generators are being closed.
CapacityHeldWhileOpen ==
    hs.stream = "open" /\ ~hs.cut => hs.freed = 0

\* The race is decided and everything opened for it is closed, even when
\* both providers hang.
RaceEnds == <>[](hs.at = "over" /\ hs.stream # "open" /\ hs.cleanup \in {"none", "done"})

=============================================================================
