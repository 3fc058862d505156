--------------------------- MODULE LatestTaskWriter ---------------------------
(* A thread that writes the newest of the tasks it is given                 *)
(* (recognition/.../observability/latest_writer.py).  Every step is one     *)
(* section under the condition's lock, or the write itself.  The pause      *)
(* between two writes only delays Take.                                     *)
EXTENDS Naturals

CONSTANT NoTask

VARIABLES
    writer,     \* the thread: where it is, and what _pending and _stopping are
    written     \* the last task whose file was written

writerVars == <<writer, written>>

NoWriter == [pc |-> "none", pending |-> NoTask, task |-> NoTask, stopping |-> FALSE]

WriterInit ==
    /\ writer = NoWriter
    /\ written = NoTask

WriterAt(pc) == writer.pc = pc

\* notify reaches a thread that waits for a task.
Woken == IF WriterAt("asleep") THEN "awake" ELSE writer.pc

StartWriter ==
    /\ writer' = [writer EXCEPT !.pc = "awake", !.pending = NoTask, !.stopping = FALSE]
    /\ UNCHANGED written

Submit(task) ==
    /\ writer' = IF writer.stopping \/ WriterAt("none") \/ WriterAt("ended") THEN writer
                 ELSE [writer EXCEPT !.pending = task, !.pc = Woken]
    /\ UNCHANGED written

StopWriter ==
    /\ writer' = [writer EXCEPT !.stopping = TRUE, !.pending = NoTask, !.pc = Woken]
    /\ UNCHANGED written

Sleep ==
    /\ WriterAt("awake") /\ ~writer.stopping /\ writer.pending = NoTask
    /\ writer' = [writer EXCEPT !.pc = "asleep"]
    /\ UNCHANGED written

Take ==
    /\ WriterAt("awake") /\ ~writer.stopping /\ writer.pending # NoTask
    /\ writer' = [writer EXCEPT !.pc = "writing", !.task = writer.pending, !.pending = NoTask]
    /\ UNCHANGED written

\* A failed write is logged and forgotten.
Write ==
    /\ WriterAt("writing")
    /\ writer' = [writer EXCEPT !.pc = "awake", !.task = NoTask]
    /\ written' \in {written, writer.task}

EndWriter ==
    /\ WriterAt("awake") /\ writer.stopping
    /\ writer' = [writer EXCEPT !.pc = "ended"]
    /\ UNCHANGED written

WriterNext == Sleep \/ Take \/ Write \/ EndWriter
=============================================================================
