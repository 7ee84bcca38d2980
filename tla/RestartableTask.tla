--------------------------- MODULE RestartableTask ---------------------------
(***************************************************************************)
(* lib.Task (lib/task.go): a function that one goroutine runs, that can be *)
(* stopped and started again, and that is done for good when it ends by    *)
(* itself.  A task is a record; Start, Stop and the goroutine map records  *)
(* to records.  The loads and stores inside Start are one step.            *)
(***************************************************************************)

Phase == {"new", "running", "closing", "idle"}

\* phase "closing": the goroutine has closed its channels and has yet to
\* clear isRunning
TaskState(Err) == [phase : Phase, isRunning : BOOLEAN, isDone : BOOLEAN, stopped : BOOLEAN, err : Err]

NewTask == [phase |-> "new", isRunning |-> FALSE, isDone |-> FALSE, stopped |-> FALSE, err |-> "none"]

\* A task that runs, or whose goroutine has not left yet, is not started; a
\* task that is done is marked as running and never started again.
Started(t) ==
    IF t.isRunning THEN t
    ELSE IF t.isDone THEN [t EXCEPT !.isRunning = TRUE]
    ELSE [t EXCEPT !.phase = "running", !.isRunning = TRUE, !.stopped = FALSE, !.err = "none"]

\* Stop cancels the context of the run
StopSent(t) == IF t.phase = "new" THEN t ELSE [t EXCEPT !.stopped = TRUE]

\* the channel that Stop returned is closed
HasStopped(t) == t.phase # "running"

\* the function returned because of Stop
EndedByStop(t) == [t EXCEPT !.phase = "closing"]

\* the function returned by itself: Done is closed.  A later Start is ignored
\* whether isRunning is cleared yet or not: one step.
EndedWith(t, err) == [t EXCEPT !.phase = "idle", !.isRunning = FALSE, !.isDone = TRUE, !.err = err]

\* the deferred store of the goroutine
Left(t) == [t EXCEPT !.phase = "idle", !.isRunning = FALSE]
================================================================================
