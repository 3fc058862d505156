--------------------------- MODULE DetectionMonitor ---------------------------
(***************************************************************************)
(* The monitor (recognition/scripts/monitor_detections.py): its loop takes *)
(* the newest frame from a FrameSource, infers landmarks, hands the        *)
(* overlay to a LatestTaskWriter, and writes a report with the counts of   *)
(* FrameProcessingMetrics.  Four actors: the loop, the reader of the       *)
(* camera, the writer of overlays, and the signal that stops the program.  *)
(*                                                                         *)
(* An overlay is known by the number of its frame.  The history of         *)
(* detections is left out: a detection is one more report.                 *)
(***************************************************************************)
EXTENDS FrameSource, LatestTaskWriter

\* What a report shows before the first one is no state of a camera.
ASSUME MonitorConstants ==
    None \notin {"STOPPED", "CONNECTING", "CONNECTED", "RECONNECTING", "STALE"}

VARIABLES
    main,       \* the loop: where it is, the last sequence, whether its frame is uncounted
    metrics,
    report,     \* the state file
    stopFlag    \* SIGINT or SIGTERM was received

monitorVars == <<sourceVars, writerVars, main, metrics, report, stopFlag>>

NoCounts == [processed |-> 0, output |-> 0, errors |-> 0, dropped |-> 0]

NoReport == [status |-> None, camera |-> None, received |-> 0, processed |-> 0, dropped |-> 0]

MonitorInit ==
    /\ SourceInit
    /\ WriterInit
    /\ main = [pc |-> "begin", sequence |-> 0, inHand |-> FALSE]
    /\ metrics = NoCounts
    /\ report = NoReport
    /\ stopFlag = FALSE

MainAt(pc) == main.pc = pc
MainGoes(pc) == main' = [main EXCEPT !.pc = pc]

-----------------------------------------------------------------------------
(* The report *)

\* The status of the camera is asked before the metrics are; the file is
\* replaced whole, or stays as it is when the replacement is refused five times.
Reports(how, counts) ==
    \E camera \in Reported :
        report' = [status |-> how, camera |-> camera, received |-> status.received,
                   processed |-> counts.processed, dropped |-> counts.dropped]

-----------------------------------------------------------------------------
(* Metrics *)

\* Mutant of Observed: the first frame of a gap is counted as dropped too.
Observed_OffByOne(n) == [metrics EXCEPT !.dropped = @ + (n - main.sequence)]

\* The frames between the last one read and this one were overwritten unread.
Observed(n) == [metrics EXCEPT !.dropped = @ + (n - main.sequence - 1)]

Inferred(ok) ==
    [metrics EXCEPT !.processed = @ + 1,
                    !.output = IF ok THEN @ + 1 ELSE @,
                    !.errors = IF ok THEN @ ELSE @ + 1]

-----------------------------------------------------------------------------
(* The loop *)

Begin ==
    /\ MainAt("begin")
    /\ StartSource
    /\ StartWriter
    /\ MainGoes("first")
    /\ UNCHANGED <<metrics, report, stopFlag>>

\* A first report that cannot be written ends the process, and its daemon threads.
FirstReport ==
    /\ MainAt("first")
    /\ \/ /\ Reports("running", metrics)
          /\ MainGoes("loop")
          /\ UNCHANGED <<sourceVars, writerVars>>
       \/ /\ MainGoes("crashed")
          /\ reader' = NoReader
          /\ status' = NewStatus("STOPPED")
          /\ sequence' = 0
          /\ open' = {}
          /\ writer' = NoWriter
          /\ UNCHANGED <<kind, stopEvent, written, report>>
    /\ UNCHANGED <<metrics, stopFlag>>

\* The head of the loop, with a report every half second; one that fails ends it.
Loop ==
    /\ MainAt("loop")
    /\ \/ (IF stopFlag THEN MainGoes("closing") ELSE MainGoes("poll")) /\ UNCHANGED report
       \/ ~stopFlag /\ MainGoes("poll") /\ Reports("running", metrics)
       \/ ~stopFlag /\ MainGoes("closing") /\ UNCHANGED report
    /\ UNCHANGED <<sourceVars, writerVars, metrics, stopFlag>>

Poll ==
    /\ MainAt("poll")
    /\ LET n == ReadLatest(main.sequence)
       IN IF n = None THEN MainGoes("loop") /\ UNCHANGED metrics
          ELSE /\ main' = [pc |-> "infer", sequence |-> n, inHand |-> TRUE]
               /\ metrics' = Observed(n)
    /\ UNCHANGED <<sourceVars, writerVars, report, stopFlag>>

\* A frame that is no image is counted; an error of the detector ends the loop.
Infer ==
    /\ MainAt("infer")
    /\ \/ /\ main' = [main EXCEPT !.pc = "loop", !.inHand = FALSE]
          /\ metrics' = Inferred(FALSE)
       \/ /\ main' = [main EXCEPT !.pc = "update", !.inHand = FALSE]
          /\ metrics' = Inferred(TRUE)
       \/ MainGoes("closing") /\ UNCHANGED metrics
    /\ UNCHANGED <<sourceVars, writerVars, report, stopFlag>>

\* The overlay goes to its writer, the landmarks to the engine.
Update ==
    /\ MainAt("update")
    /\ Submit(main.sequence)
    /\ MainGoes("detect")
    /\ UNCHANGED <<sourceVars, metrics, report, stopFlag>>

\* Every detection is reported at once.
Detect ==
    /\ MainAt("detect")
    /\ \/ MainGoes("loop") /\ UNCHANGED report
       \/ MainGoes("loop") /\ Reports("running", metrics)
       \/ MainGoes("closing") /\ UNCHANGED report
    /\ UNCHANGED <<sourceVars, writerVars, metrics, stopFlag>>

\* However the loop ends, first the writer is stopped, then the camera.
CloseWriter ==
    /\ MainAt("closing")
    /\ StopWriter
    /\ MainGoes("joinWriter")
    /\ UNCHANGED <<sourceVars, metrics, report, stopFlag>>

\* Mutant of JoinWriter: the writer is not waited for.
JoinWriter_Ahead ==
    /\ MainAt("joinWriter")
    /\ MainGoes("signal")
    /\ UNCHANGED <<sourceVars, writerVars, metrics, report, stopFlag>>

JoinWriter ==
    /\ MainAt("joinWriter") /\ WriterAt("ended")
    /\ MainGoes("signal")
    /\ UNCHANGED <<sourceVars, writerVars, metrics, report, stopFlag>>

CloseSource ==
    /\ \/ MainAt("signal") /\ SignalStop /\ MainGoes("release")
       \/ MainAt("release") /\ ReleaseCapture /\ MainGoes("join")
       \/ MainAt("join") /\ JoinSource /\ MainGoes("last")
    /\ UNCHANGED <<writerVars, metrics, report, stopFlag>>

LastReport ==
    /\ MainAt("last")
    /\ Reports("stopped", metrics) \/ UNCHANGED report
    /\ MainGoes("done")
    /\ UNCHANGED <<sourceVars, writerVars, metrics, stopFlag>>

MainNext ==
    \/ Begin \/ FirstReport \/ Loop \/ Poll \/ Infer \/ Update \/ Detect
    \/ CloseWriter \/ JoinWriter \/ CloseSource \/ LastReport

Signal ==
    /\ ~stopFlag
    /\ stopFlag' = TRUE
    /\ UNCHANGED <<sourceVars, writerVars, main, metrics, report>>

loopVars == <<main, metrics, report, stopFlag>>

MonitorNext ==
    \/ MainNext
    \/ ReaderNext /\ UNCHANGED <<writerVars, loopVars>>
    \/ WriterNext /\ UNCHANGED <<sourceVars, loopVars>>
    \/ Signal

\* The threads are scheduled, and every call that blocks returns in the end: the
\* stream has a timeout, a webcam answers or is released, a file is written.
MonitorFairness ==
    /\ WF_monitorVars(MainNext)
    /\ WF_monitorVars(ReaderNext /\ UNCHANGED <<writerVars, loopVars>>)
    /\ WF_monitorVars(WriterNext /\ UNCHANGED <<sourceVars, loopVars>>)

MonitorSpec == MonitorInit /\ [][MonitorNext]_monitorVars /\ MonitorFairness

-----------------------------------------------------------------------------
(* Properties *)

MonitorTypeOK ==
    /\ SourceTypeOK
    /\ main.inHand => main.pc \notin {"loop", "poll", "update", "detect"}
    /\ main.sequence <= sequence
    /\ WriterAt("writing") <=> writer.task # NoTask
    /\ WriterAt("asleep") => writer.pending = NoTask /\ ~writer.stopping

\* Every frame read or overwritten is counted once, though the loop that counts
\* it is not the thread that receives it: what is reported lies at most one frame
\* ahead of the camera's own count.  A report tells a first connection from a lost
\* one, and a camera that was stopped only of a program that stops
\* (observability/metrics.py:42-53, recognition/README.md:234-238).
ReportIsTrue ==
    /\ metrics.processed + metrics.dropped + (IF main.inHand THEN 1 ELSE 0) = main.sequence
    /\ metrics.processed = metrics.output + metrics.errors
    /\ report.processed + report.dropped <= report.received + 1
    /\ report.camera = "CONNECTING" => report.received = 0
    /\ report.camera = "STOPPED" => report.status = "stopped"

\* Overlays are written in the order of their frames, an older one never over a
\* newer one, and none after the writer was stopped (observability/latest_writer.py:54-78).
OverlaysAdvance ==
    [][written' # written =>
          /\ written # NoTask => written' > written
          /\ main.pc \notin {"signal", "release", "join", "last", "done"}]_monitorVars

\* A signal ends the loop and both threads, and gives the camera back, whatever
\* each of them is waiting for (monitor_detections.py:498-509).
Over ==
    \/ MainAt("done") /\ At("ended") /\ WriterAt("ended") /\ open = {}
    \/ MainAt("crashed")

StopEndsEverything == stopFlag ~> Over
=============================================================================
