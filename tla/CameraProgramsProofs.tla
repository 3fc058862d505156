-------------------------- MODULE CameraProgramsProofs --------------------------
(* The two programs that read a camera beside the worker.                    *)
(*                                                                           *)
(* First the camera, its status, the reports and the overlays of             *)
(* DetectionMonitor, for both kinds of source, any backoff and any number of *)
(* frames and failures.  Then the segments and the palms of                  *)
(* LandmarkCollector, for any number of motions and samples and any          *)
(* durations; the index of a segment is a product, so the lemmas about it    *)
(* stand apart: the rest of the proof only uses what they say.               *)
EXTENDS DetectionMonitor, LandmarkCollector, Integers, FiniteSetTheorems, TLAPS

ReaderPCs == {"none", "top", "opening", "opened", "reading", "grabbing", "yielding",
              "recording", "failed", "backoff", "leaving", "ended"}

Readers == [pc : ReaderPCs, backoff : Nat, capture : Nat \cup {None}, burst : Int]

States == {"STOPPED", "CONNECTING", "CONNECTED", "RECONNECTING"}

Statuses == [state : States, retry : BOOLEAN, error : BOOLEAN, received : Nat,
             reconnects : Nat]

SourceOK ==
    /\ kind \in {"mjpeg", "webcam"}
    /\ reader \in Readers
    /\ status \in Statuses

\* Where the reader may hold a capture: a stream is closed as soon as it fails, a
\* device only after the wait.
Holding == IF kind = "mjpeg" THEN {"reading", "yielding", "recording"}
           ELSE {"opened", "reading", "grabbing", "recording", "failed", "backoff", "leaving"}

OpenIsHeld == open = {} \/ (open = {reader.capture} /\ reader.pc \in Holding)

\* An error is only shown after a failure, and never while images come.
ErrorFollows ==
    /\ Streaming => ~status.retry /\ ~status.error
    /\ status.retry => status.error
    /\ status.error => status.state = "RECONNECTING" /\ status.reconnects > 0

StateFollows ==
    ~stopEvent => /\ Streaming => status.state = "CONNECTED"
                  /\ status.state = "CONNECTED" => Streaming \/ At("failed")
                  /\ status.state = "STOPPED" => At("none")

SourceInv == SourceOK /\ OpenIsHeld /\ ErrorFollows /\ StateFollows

MainPCs == {"begin", "first", "loop", "poll", "infer", "update", "detect", "closing",
            "joinWriter", "signal", "release", "join", "last", "done", "crashed"}

\* The source is started once, and joined only after it was told to stop.
MainOK ==
    /\ main \in [pc : MainPCs, sequence : Nat, inHand : BOOLEAN]
    /\ sequence \in Nat

MainFollows ==
    /\ MainAt("begin") => At("none") /\ open = {}
    /\ main.pc \in {"release", "join", "last", "done"} => stopEvent

MonitorInv == SourceInv /\ MainOK /\ MainFollows

-----------------------------------------------------------------------------
(* The reader *)

LEMMA StatusMoves ==
    ASSUME NEW s \in Statuses
    PROVE  /\ Connected(s) \in Statuses
           /\ Stopped(s) \in Statuses
           /\ Attempting(s) \in Statuses
           /\ Received(s) \in Statuses
           /\ Lost(s) \in Statuses
<1>1. ASSUME NEW x \in States PROVE Calm(s, x) \in Statuses
  BY <1>1 DEF Calm, Statuses
<1>2. Connected(s) \in Statuses /\ Stopped(s) \in Statuses
  BY <1>1 DEF Connected, Stopped, States
<1>3. Attempting(s) \in Statuses
  <2>. DEFINE x == IF s.reconnects > 0 THEN "RECONNECTING" ELSE "CONNECTING"
  <2>1. x \in States /\ Attempting(s) = [s EXCEPT !.state = x, !.retry = FALSE]
    BY DEF States, Attempting
  <2>. HIDE DEF x
  <2>. QED  BY <2>1 DEF Statuses
<1>4. Received(s) \in Statuses
  <2>. DEFINE t == [s EXCEPT !.state = "CONNECTED"]
  <2>1. t \in Statuses
    BY DEF Statuses, States
  <2>2. Received(s) = [t EXCEPT !.received = @ + 1]
    BY DEF Received
  <2>. HIDE DEF t
  <2>. QED  BY <2>1, <2>2 DEF Statuses
<1>5. Lost(s) \in Statuses
  <2>. DEFINE t == [[[s EXCEPT !.state = "RECONNECTING"] EXCEPT !.error = TRUE]
                     EXCEPT !.retry = TRUE]
  <2>1. t \in Statuses
    BY DEF Statuses, States
  <2>2. Lost(s) = [t EXCEPT !.reconnects = @ + 1]
    BY DEF Lost
  <2>. HIDE DEF t
  <2>. QED  BY <2>1, <2>2 DEF Statuses
<1>. QED  BY <1>2, <1>3, <1>4, <1>5

LEMMA ReaderTyping ==
    ASSUME SourceInv, ReaderNext
    PROVE  SourceOK'
<1>. /\ kind \in {"mjpeg", "webcam"} /\ reader \in Readers /\ status \in Statuses
     /\ status.reconnects \in Nat /\ InitialBackoff \in Nat
     /\ reader.burst - 1 \in Int /\ 1 .. MaxBurst \subseteq Int
     /\ None \in Nat \cup {None}
  BY SourceConstants DEF SourceInv, SourceOK, Statuses, Readers
<1>. USE DEF SourceOK, Readers, ReaderPCs, Go
<1>1. CASE Top
  BY <1>1, StatusMoves DEF Top
<1>2. CASE Open
  <2>1. CASE kind = "mjpeg"
    BY <1>2, <2>1, StatusMoves DEF Open
  <2>2. CASE kind # "mjpeg"
    BY <1>2, <2>2 DEF Open
  <2>. QED  BY <2>1, <2>2
<1>3. CASE Configure
  BY <1>3, StatusMoves DEF Configure
<1>4. CASE Fail
  <2>1. CASE kind = "mjpeg"
    BY <1>4, <2>1 DEF Fail
  <2>2. CASE kind # "mjpeg"
    BY <1>4, <2>2 DEF Fail
  <2>. QED  BY <2>1, <2>2
<1>5. CASE AwaitImage
  BY <1>5 DEF AwaitImage
<1>6. CASE Chunk
  <2>1. PICK n \in 1 .. MaxBurst : reader' = [reader EXCEPT !.pc = "yielding", !.burst = n]
    BY <1>6 DEF Chunk
  <2>2. n \in Int
    OBVIOUS
  <2>. QED  BY <1>6, <2>1, <2>2 DEF Chunk
<1>7. CASE Grab
  BY <1>7 DEF Grab
<1>8. CASE Yield
  <2>1. CASE stopEvent
    <3>. DEFINE t == [reader EXCEPT !.pc = "ended"]
                u == [t EXCEPT !.capture = None]
    <3>1. t \in Readers
      OBVIOUS
    <3>2. reader' = [u EXCEPT !.burst = 0] /\ UNCHANGED <<kind, status>>
      BY <1>8, <2>1 DEF Yield
    <3>. HIDE DEF t
    <3>3. u \in Readers
      BY <3>1
    <3>. HIDE DEF u
    <3>4. reader' \in Readers
      BY <3>2, <3>3
    <3>. QED  BY <3>2, <3>4
  <2>2. CASE ~stopEvent
    BY <1>8, <2>2 DEF Yield
  <2>. QED  BY <2>1, <2>2
<1>9. CASE Record
  <2>. DEFINE n == IF kind = "mjpeg" THEN reader.burst - 1 ELSE 0
              q == IF n > 0 THEN "yielding" ELSE "reading"
  <2>1. n \in Int /\ q \in ReaderPCs
    OBVIOUS
  <2>2. /\ reader' = [reader EXCEPT !.pc = q, !.burst = n]
        /\ status' = Received(status) /\ kind' = kind
    BY <1>9 DEF Record
  <2>. HIDE DEF n, q
  <2>. QED  BY <2>1, <2>2, StatusMoves
<1>10. CASE GiveUp
  BY <1>10 DEF GiveUp
<1>11. CASE Retry
  BY <1>11, StatusMoves DEF Retry
<1>12. CASE Waited
  <2>. DEFINE d == Doubled(reader.backoff)
              q == IF kind = "mjpeg" THEN "top" ELSE "leaving"
  <2>1. d \in Nat /\ q \in ReaderPCs
    BY SourceConstants DEF Doubled, Readers
  <2>2. reader' = [reader EXCEPT !.pc = q, !.backoff = d] /\ UNCHANGED <<kind, status>>
    BY <1>12 DEF Waited
  <2>. HIDE DEF d, q
  <2>. QED  BY <2>1, <2>2
<1>13. CASE Leave
  BY <1>13 DEF Leave
<1>. QED
  BY <1>1, <1>2, <1>3, <1>4, <1>5, <1>6, <1>7, <1>8, <1>9, <1>10, <1>11, <1>12, <1>13
  DEF ReaderNext

LEMMA ReaderHolds ==
    ASSUME SourceInv, ReaderNext
    PROVE  OpenIsHeld'
<1>. USE DEF SourceInv, SourceOK, Readers, ReaderPCs, OpenIsHeld, Holding, At, Go
<1>1. CASE Top
  BY <1>1 DEF Top
<1>2. CASE Open
  BY <1>2 DEF Open
<1>3. CASE Configure
  BY <1>3 DEF Configure
<1>4. CASE Fail
  BY <1>4 DEF Fail
<1>5. CASE AwaitImage
  BY <1>5 DEF AwaitImage
<1>6. CASE Chunk
  BY <1>6 DEF Chunk
<1>7. CASE Grab
  BY <1>7 DEF Grab
<1>8. CASE Yield
  BY <1>8 DEF Yield
<1>9. CASE Record
  BY <1>9 DEF Record
<1>10. CASE GiveUp
  BY <1>10 DEF GiveUp
<1>11. CASE Retry
  BY <1>11 DEF Retry
<1>12. CASE Waited
  BY <1>12 DEF Waited
<1>13. CASE Leave
  BY <1>13 DEF Leave
<1>. QED
  BY <1>1, <1>2, <1>3, <1>4, <1>5, <1>6, <1>7, <1>8, <1>9, <1>10, <1>11, <1>12, <1>13
  DEF ReaderNext

LEMMA ReaderTells ==
    ASSUME SourceInv, ReaderNext
    PROVE  ErrorFollows' /\ StateFollows' /\ stopEvent' = stopEvent
                         /\ sequence' \in {sequence, sequence + 1}
<1>. USE DEF SourceInv, SourceOK, Readers, ReaderPCs, Statuses, States, ErrorFollows,
             StateFollows, Streaming, At, Go
<1>1. CASE Top
  BY <1>1 DEF Top, Attempting
<1>2. CASE Open
  BY <1>2 DEF Open, Connected, Calm
<1>3. CASE Configure
  BY <1>3 DEF Configure, Connected, Calm
<1>4. CASE Fail
  BY <1>4 DEF Fail
<1>5. CASE AwaitImage
  BY <1>5 DEF AwaitImage
<1>6. CASE Chunk
  BY <1>6 DEF Chunk
<1>7. CASE Grab
  BY <1>7 DEF Grab, Put
<1>8. CASE Yield
  BY <1>8 DEF Yield, Put
<1>9. CASE Record
  BY <1>9 DEF Record, Received
<1>10. CASE GiveUp
  BY <1>10 DEF GiveUp
<1>11. CASE Retry
  BY <1>11 DEF Retry, Lost
<1>12. CASE Waited
  BY <1>12 DEF Waited
<1>13. CASE Leave
  BY <1>13 DEF Leave
<1>. QED
  BY <1>1, <1>2, <1>3, <1>4, <1>5, <1>6, <1>7, <1>8, <1>9, <1>10, <1>11, <1>12, <1>13
  DEF ReaderNext

\* A reader that has been started stays.
LEMMA ReaderIsThere == ASSUME ReaderNext PROVE ~At("none")
  BY DEF ReaderNext, Top, Open, Configure, Fail, AwaitImage, Chunk, Grab, Yield, Record,
         GiveUp, Retry, Waited, Leave, At

-----------------------------------------------------------------------------
(* The program *)

\* What start and a crash leave.
LEMMA NewTyping ==
    NoReader \in Readers /\ \A s \in States : NewStatus(s) \in Statuses
<1>1. InitialBackoff \in Nat /\ None \in Nat \cup {None}
  BY SourceConstants
<1>2. NoReader \in Readers
  BY <1>1 DEF NoReader, Readers, ReaderPCs
<1>3. \A s \in States : NewStatus(s) \in Statuses
  BY DEF NewStatus, Statuses
<1>. QED  BY <1>2, <1>3

LEMMA MonitorStarts == MonitorInit => MonitorInv
<1>. SUFFICES ASSUME MonitorInit PROVE MonitorInv
  OBVIOUS
<1>1. SourceOK
  <2>1. kind \in {"mjpeg", "webcam"} /\ reader = NoReader /\ status = NewStatus("STOPPED")
    BY DEF MonitorInit, SourceInit
  <2>. QED  BY <2>1, NewTyping DEF SourceOK, States
<1>2. OpenIsHeld /\ ErrorFollows /\ StateFollows
  BY DEF MonitorInit, SourceInit, NoReader, NewStatus, OpenIsHeld, ErrorFollows,
     StateFollows, Streaming, At
<1>3. MainOK /\ MainFollows
  BY DEF MonitorInit, SourceInit, MainOK, MainPCs, MainFollows, MainAt, At, NoReader
<1>. QED  BY <1>1, <1>2, <1>3 DEF MonitorInv, SourceInv

\* The invariant does not look at the overlays, the counts and the reports.
LEMMA LeavingKeeps == ASSUME MonitorInv, UNCHANGED <<sourceVars, main>> PROVE MonitorInv'
  BY DEF MonitorInv, SourceInv, SourceOK, OpenIsHeld, Holding, ErrorFollows, StateFollows,
     MainOK, MainFollows, MainAt, Streaming, At, sourceVars

LEMMA SourceStays == ASSUME SourceInv, UNCHANGED sourceVars PROVE SourceInv'
  BY DEF SourceInv, SourceOK, OpenIsHeld, Holding, ErrorFollows, StateFollows, Streaming,
     At, sourceVars

\* A step of the program before the source is stopped.
LEMMA MainStepKeeps ==
    ASSUME MonitorInv, UNCHANGED sourceVars,
           NEW pc \in MainPCs \ {"begin", "release", "join", "last", "done"}, MainGoes(pc)
    PROVE  MonitorInv'
<1>1. SourceInv'
  BY SourceStays DEF MonitorInv
<1>2. MainOK' /\ MainFollows'
  BY DEF MonitorInv, MainOK, MainFollows, MainAt, MainGoes, sourceVars
<1>. QED  BY <1>1, <1>2 DEF MonitorInv

\* The calls of the program's own thread that reach the source.
LEMMA StartKeeps ==
    ASSUME MonitorInv, Begin
    PROVE  MonitorInv'
<1>1. /\ kind' = kind /\ open' = {} /\ reader' = [NoReader EXCEPT !.pc = "top"]
      /\ status' = NewStatus("CONNECTING") /\ stopEvent' = FALSE
      /\ main' = [main EXCEPT !.pc = "first"]
  BY DEF MonitorInv, MainFollows, Begin, StartSource, MainGoes
<1>2. SourceOK'
  <2>1. reader' \in Readers
    BY <1>1, NewTyping DEF Readers, ReaderPCs
  <2>. QED  BY <1>1, <2>1, NewTyping DEF MonitorInv, SourceInv, SourceOK, States
<1>3. OpenIsHeld'
  BY <1>1 DEF OpenIsHeld
<1>4. ErrorFollows' /\ StateFollows'
  BY <1>1, NewTyping DEF ErrorFollows, StateFollows, Streaming, At, NewStatus, Readers, ReaderPCs
<1>5. MainOK' /\ MainFollows'
  BY <1>1 DEF MonitorInv, MainOK, MainPCs, MainFollows, MainAt, Begin, StartSource
<1>. QED  BY <1>2, <1>3, <1>4, <1>5 DEF MonitorInv, SourceInv

\* Only the first report can end the process, and everything with it.
LEMMA FirstReportKeeps ==
    ASSUME MonitorInv, FirstReport
    PROVE  MonitorInv'
<1>1. CASE UNCHANGED sourceVars /\ MainGoes("loop")
  BY <1>1, MainStepKeeps DEF MainPCs
<1>2. CASE /\ MainGoes("crashed") /\ reader' = NoReader /\ status' = NewStatus("STOPPED")
           /\ open' = {} /\ sequence' = 0 /\ UNCHANGED <<kind, stopEvent>>
  <2>1. SourceOK'
    BY <1>2, NewTyping DEF MonitorInv, SourceInv, SourceOK, States
  <2>2. OpenIsHeld' /\ ErrorFollows' /\ StateFollows'
    BY <1>2 DEF OpenIsHeld, ErrorFollows, StateFollows, Streaming, At, NoReader, NewStatus
  <2>3. MainOK' /\ MainFollows'
    BY <1>2 DEF MonitorInv, MainOK, MainPCs, MainFollows, MainAt, MainGoes
  <2>. QED  BY <2>1, <2>2, <2>3 DEF MonitorInv, SourceInv
<1>. QED  BY <1>1, <1>2 DEF FirstReport

\* The program tells the reader to stop, takes the device away, and joins it or not.
LEMMA StopKeeps ==
    ASSUME MonitorInv, CloseSource
    PROVE  MonitorInv'
<1>1. /\ UNCHANGED <<kind, reader, sequence>>
      /\ UNCHANGED open \/ (kind = "webcam" /\ open' = open \ {reader.capture})
      /\ UNCHANGED status \/ (status' = Stopped(status) /\ stopEvent)
      /\ stopEvent' = TRUE
      /\ \E pc \in {"release", "join", "last"} : main' = [main EXCEPT !.pc = pc]
  BY DEF CloseSource, SignalStop, ReleaseCapture, JoinSource, MonitorInv, MainFollows,
     MainAt, MainGoes
<1>2. SourceOK'
  BY <1>1, StatusMoves DEF MonitorInv, SourceInv, SourceOK
<1>3. OpenIsHeld'
  BY <1>1 DEF MonitorInv, SourceInv, OpenIsHeld, Holding
<1>4. ErrorFollows'
  BY <1>1 DEF MonitorInv, SourceInv, SourceOK, ErrorFollows, Streaming, At, Stopped, Calm, Statuses
<1>5. StateFollows'
  BY <1>1 DEF StateFollows
<1>6. MainOK' /\ MainFollows'
  BY <1>1 DEF MonitorInv, MainOK, MainPCs, MainFollows, MainAt
<1>. QED  BY <1>2, <1>3, <1>4, <1>5, <1>6 DEF MonitorInv, SourceInv

\* Every other step of the loop goes on without touching the source.
LEMMA LoopKeeps ==
    ASSUME MonitorInv,
           Loop \/ Poll \/ Infer \/ Update \/ Detect \/ CloseWriter \/ JoinWriter \/ LastReport
    PROVE  MonitorInv'
<1>1. UNCHANGED sourceVars
  BY DEF Loop, Poll, Infer, Update, Detect, CloseWriter, JoinWriter, LastReport
<1>2. SourceInv'
  BY <1>1, SourceStays DEF MonitorInv
<1>3. CASE Poll
  <2>1. \/ main' = [main EXCEPT !.pc = "loop"]
        \/ main' = [pc |-> "infer", sequence |-> sequence, inHand |-> TRUE]
    BY <1>3 DEF Poll, MainGoes, ReadLatest
  <2>2. CASE main' = [main EXCEPT !.pc = "loop"]
    BY <1>1, <2>2, MainStepKeeps DEF MainGoes, MainPCs
  <2>3. CASE main' = [pc |-> "infer", sequence |-> sequence, inHand |-> TRUE]
    <3>1. sequence \in Nat /\ sequence' = sequence
      BY <1>1 DEF MonitorInv, MainOK, sourceVars
    <3>2. MainOK'
      BY <2>3, <3>1 DEF MainOK, MainPCs
    <3>3. MainFollows'
      BY <2>3 DEF MainFollows, MainAt
    <3>. QED  BY <1>2, <3>2, <3>3 DEF MonitorInv
  <2>. QED  BY <2>1, <2>2, <2>3
<1>4. CASE Infer
  <2>1. \E pc \in {"loop", "update", "closing"} :
           main' = [main EXCEPT !.pc = pc] \/ main' = [main EXCEPT !.pc = pc, !.inHand = FALSE]
    BY <1>4 DEF Infer, MainGoes
  <2>2. MainOK' /\ MainFollows'
    BY <1>1, <2>1 DEF MonitorInv, MainOK, MainPCs, MainFollows, MainAt, sourceVars
  <2>. QED  BY <1>2, <2>2 DEF MonitorInv
<1>5. CASE Loop \/ Update \/ Detect \/ CloseWriter \/ JoinWriter
  <2>1. \E pc \in {"poll", "closing", "detect", "loop", "joinWriter", "signal"} : MainGoes(pc)
    BY <1>5 DEF Loop, Update, Detect, CloseWriter, JoinWriter
  <2>. QED  BY <1>1, <2>1, MainStepKeeps DEF MainPCs
<1>6. CASE LastReport
  <2>1. stopEvent /\ main' = [main EXCEPT !.pc = "done"]
    BY <1>6 DEF LastReport, MonitorInv, MainFollows, MainAt, MainGoes
  <2>2. MainOK' /\ MainFollows'
    BY <1>1, <2>1 DEF MonitorInv, MainOK, MainPCs, MainFollows, MainAt, sourceVars
  <2>. QED  BY <1>2, <2>2 DEF MonitorInv
<1>. QED  BY <1>3, <1>4, <1>5, <1>6

LEMMA MonitorSteps == MonitorInv /\ [MonitorNext]_monitorVars => MonitorInv'
<1>. SUFFICES ASSUME MonitorInv, [MonitorNext]_monitorVars PROVE MonitorInv'
  OBVIOUS
<1>1. CASE MainNext
  BY <1>1, StartKeeps, FirstReportKeeps, LoopKeeps, StopKeeps DEF MainNext
<1>2. CASE ReaderNext /\ UNCHANGED <<writerVars, loopVars>>
  <2>1. SourceInv'
    BY <1>2, ReaderTyping, ReaderHolds, ReaderTells DEF MonitorInv, SourceInv
  <2>2. MainOK' /\ MainFollows'
    BY <1>2, ReaderIsThere, ReaderTells DEF MonitorInv, MainOK, MainFollows, MainAt, loopVars
  <2>. QED  BY <2>1, <2>2 DEF MonitorInv
<1>3. CASE WriterNext /\ UNCHANGED <<sourceVars, loopVars>>
  BY <1>3, LeavingKeeps DEF loopVars
<1>4. CASE Signal
  BY <1>4, LeavingKeeps DEF Signal
<1>5. CASE UNCHANGED monitorVars
  BY <1>5, LeavingKeeps DEF monitorVars
<1>. QED  BY <1>1, <1>2, <1>3, <1>4, <1>5 DEF MonitorNext

-----------------------------------------------------------------------------
(* Counts, reports and overlays *)

\* The wait, the images of a chunk and the counts of the source.
SourceCounts ==
    /\ reader.backoff \in InitialBackoff .. MaxBackoff
    /\ reader.burst > 0 => kind = "mjpeg" /\ (At("yielding") \/ At("recording"))
    /\ At("grabbing") => kind = "webcam"
    /\ At("yielding") => reader.burst > 0 /\ sequence + reader.burst <= MaxFrames
    /\ At("recording") /\ kind = "mjpeg" =>
          reader.burst > 0 /\ sequence + reader.burst <= MaxFrames + 1
    /\ sequence \in 0 .. MaxFrames
    /\ status.reconnects <= MaxReconnects
    /\ At("failed") /\ ~stopEvent => status.reconnects < MaxReconnects
    /\ status.received = sequence - (IF At("recording") THEN 1 ELSE 0)

\* A first connection is attempted once: the reader comes back to the head of its
\* loop after a failure it counted, or after a stop.
FirstConnection ==
    /\ At("backoff") \/ At("leaving") => stopEvent \/ status.reconnects > 0
    /\ At("top") => stopEvent \/ status.reconnects > 0 \/ status.received = 0
    /\ status.state = "CONNECTING" => status.received = 0

Running == {"first", "loop", "poll", "infer", "update", "detect"}
Ending == {"signal", "release", "join", "last", "done"}

\* The loop counts a frame when it takes it up and again when it is through.
FramesCounted ==
    /\ metrics \in [processed : Nat, output : Nat, errors : Nat, dropped : Nat]
    /\ metrics.processed + metrics.dropped + (IF main.inHand THEN 1 ELSE 0) = main.sequence
    /\ metrics.processed = metrics.output + metrics.errors
    /\ main.inHand => main.pc \notin {"begin", "first", "loop", "poll", "update", "detect"}
    /\ MainAt("infer") => main.inHand
    /\ main.sequence <= sequence
    /\ main.pc \in {"begin", "first"} => main.sequence = 0
    /\ MainAt("begin") => sequence = 0
    /\ main.pc \in Running => ~stopEvent /\ ~At("none")

ReportHolds ==
    /\ report.processed + report.dropped <= report.received + 1
    /\ report.camera = "CONNECTING" => report.received = 0
    /\ report.camera = "STOPPED" => report.status = "stopped"

Tasks == Nat \cup {NoTask}

WriterOK ==
    /\ writer \in [pc : {"none", "awake", "asleep", "writing", "ended"},
                   pending : Tasks, task : Tasks, stopping : BOOLEAN]
    /\ written \in Tasks
    /\ WriterAt("writing") <=> writer.task # NoTask
    /\ WriterAt("asleep") => writer.pending = NoTask /\ ~writer.stopping
    /\ MainAt("begin") => WriterAt("none")
    /\ main.pc \in Ending => WriterAt("ended")

Earlier(t, n) == t # NoTask => t < n

\* What is written, being written and to be written next are of frames in this
\* order, and none of the frame at hand before it is submitted.
TasksAscend ==
    /\ \A t \in {written, writer.task, writer.pending} :
          /\ Earlier(t, main.sequence + 1)
          /\ main.pc \in {"infer", "update"} => Earlier(t, main.sequence)
    /\ writer.task # NoTask => Earlier(written, writer.task)
    /\ writer.pending # NoTask =>
          Earlier(written, writer.pending) /\ Earlier(writer.task, writer.pending)

CountsInv ==
    /\ SourceCounts
    /\ FirstConnection
    /\ FramesCounted
    /\ ReportHolds
    /\ WriterOK
    /\ TasksAscend

LEMMA CountsStart == MonitorInit => CountsInv
<1>. SUFFICES ASSUME MonitorInit PROVE CountsInv
  OBVIOUS
<1>1. /\ kind \in {"mjpeg", "webcam"} /\ reader = NoReader /\ status = NewStatus("STOPPED")
      /\ sequence = 0 /\ writer = NoWriter /\ written = NoTask
      /\ main = [pc |-> "begin", sequence |-> 0, inHand |-> FALSE]
      /\ metrics = NoCounts /\ report = NoReport
  BY DEF MonitorInit, SourceInit, WriterInit
<1>2. SourceCounts /\ FirstConnection
  <2>1. /\ reader.pc = "none" /\ reader.backoff = InitialBackoff /\ reader.burst = 0
        /\ status.received = 0 /\ status.reconnects = 0 /\ status.state = "STOPPED"
        /\ sequence = 0
    BY <1>1 DEF NoReader, NewStatus
  <2>2. /\ InitialBackoff \in Nat /\ MaxBackoff \in Nat /\ InitialBackoff <= MaxBackoff
        /\ MaxFrames \in Nat /\ MaxReconnects \in Nat
    BY SourceConstants
  <2>3. SourceCounts
    BY <2>1, <2>2 DEF SourceCounts, At
  <2>4. FirstConnection
    BY <2>1 DEF FirstConnection, At
  <2>. QED  BY <2>3, <2>4
<1>3. FramesCounted /\ ReportHolds
  BY <1>1, MonitorConstants DEF FramesCounted, ReportHolds, NoCounts, NoReport, MainAt, Running
<1>4. WriterOK /\ TasksAscend
  BY <1>1 DEF WriterOK, TasksAscend, Tasks, Earlier, NoWriter, WriterAt, MainAt, Ending
<1>. QED  BY <1>2, <1>3, <1>4 DEF CountsInv

\* What the arithmetic of the reader's steps is about.
LEMMA ReaderFacts ==
    ASSUME SourceInv, SourceCounts
    PROVE  /\ reader.burst \in Int /\ reader.backoff \in Nat /\ sequence \in Nat
           /\ status.received \in Nat /\ status.reconnects \in Nat
           /\ InitialBackoff \in Nat \ {0} /\ MaxBackoff \in Nat
           /\ InitialBackoff <= MaxBackoff
           /\ MaxFrames \in Nat /\ MaxReconnects \in Nat
  BY SourceConstants DEF SourceInv, SourceOK, Readers, Statuses, SourceCounts

\* The counts depend on where the reader is and on these numbers only.
LEMMA CountsFollow ==
    ASSUME SourceInv, SourceCounts, FirstConnection, SourceOK',
           kind' = kind, stopEvent' = stopEvent,
           reader'.backoff \in InitialBackoff .. MaxBackoff,
           /\ reader'.burst > 0 =>
                 kind = "mjpeg" /\ reader'.pc \in {"yielding", "recording"}
           /\ reader'.pc = "grabbing" => kind = "webcam"
           /\ reader'.pc = "yielding" =>
                 reader'.burst > 0 /\ sequence' + reader'.burst <= MaxFrames
           /\ reader'.pc = "recording" /\ kind = "mjpeg" =>
                 reader'.burst > 0 /\ sequence' + reader'.burst <= MaxFrames + 1,
           sequence' \in 0 .. MaxFrames,
           status'.reconnects <= MaxReconnects,
           reader'.pc = "failed" /\ ~stopEvent => status'.reconnects < MaxReconnects,
           status'.received = sequence' - (IF reader'.pc = "recording" THEN 1 ELSE 0),
           /\ reader'.pc \in {"backoff", "leaving"} => stopEvent \/ status'.reconnects > 0
           /\ reader'.pc = "top" =>
                 stopEvent \/ status'.reconnects > 0 \/ status'.received = 0
           /\ status'.state = "CONNECTING" => status'.received = 0
    PROVE  SourceCounts' /\ FirstConnection'
  BY DEF SourceCounts, FirstConnection, At

LEMMA ReaderCounts ==
    ASSUME SourceInv, SourceCounts, FirstConnection, ReaderNext
    PROVE  SourceCounts' /\ FirstConnection'
<1>1. SourceOK' /\ reader \in Readers /\ status \in Statuses
  BY ReaderTyping DEF SourceInv, SourceOK
<1>2. kind' = kind /\ stopEvent' = stopEvent
  BY DEF ReaderNext, Top, Open, Configure, Fail, AwaitImage, Chunk, Grab, Yield, Record, GiveUp,
     Retry, Waited, Leave
<1>3. /\ reader.backoff \in InitialBackoff .. MaxBackoff
      /\ reader.burst > 0 => kind = "mjpeg" /\ reader.pc \in {"yielding", "recording"}
      /\ reader.pc = "grabbing" => kind = "webcam"
      /\ reader.pc = "yielding" => reader.burst > 0 /\ sequence + reader.burst <= MaxFrames
      /\ reader.pc = "recording" /\ kind = "mjpeg" =>
            reader.burst > 0 /\ sequence + reader.burst <= MaxFrames + 1
      /\ sequence \in 0 .. MaxFrames
      /\ status.reconnects <= MaxReconnects
      /\ reader.pc = "failed" /\ ~stopEvent => status.reconnects < MaxReconnects
      /\ status.received = sequence - (IF reader.pc = "recording" THEN 1 ELSE 0)
  BY DEF SourceCounts, At
<1>4. /\ reader.pc \in {"backoff", "leaving"} => stopEvent \/ status.reconnects > 0
      /\ reader.pc = "top" => stopEvent \/ status.reconnects > 0 \/ status.received = 0
      /\ status.state = "CONNECTING" => status.received = 0
  BY DEF FirstConnection, At
<1>. SUFFICES
       /\ reader'.backoff \in InitialBackoff .. MaxBackoff
       /\ reader'.burst > 0 =>
             kind = "mjpeg" /\ reader'.pc \in {"yielding", "recording"}
       /\ reader'.pc = "grabbing" => kind = "webcam"
       /\ reader'.pc = "yielding" =>
             reader'.burst > 0 /\ sequence' + reader'.burst <= MaxFrames
       /\ reader'.pc = "recording" /\ kind = "mjpeg" =>
             reader'.burst > 0 /\ sequence' + reader'.burst <= MaxFrames + 1
       /\ sequence' \in 0 .. MaxFrames
       /\ status'.reconnects <= MaxReconnects
       /\ reader'.pc = "failed" /\ ~stopEvent => status'.reconnects < MaxReconnects
       /\ status'.received = sequence' - (IF reader'.pc = "recording" THEN 1 ELSE 0)
       /\ reader'.pc \in {"backoff", "leaving"} => stopEvent \/ status'.reconnects > 0
       /\ reader'.pc = "top" =>
             stopEvent \/ status'.reconnects > 0 \/ status'.received = 0
       /\ status'.state = "CONNECTING" => status'.received = 0
  BY <1>1, <1>2, CountsFollow
<1>5. CASE Top
  <2>1. /\ reader.pc = "top" /\ UNCHANGED <<reader.burst, reader.backoff, sequence>>
        /\ reader'.pc = "ended" \/ (reader'.pc = "opening" /\ ~stopEvent)
        /\ UNCHANGED <<status.received, status.reconnects>>
        /\ status'.state = "CONNECTING" => status.state = "CONNECTING" \/ ~stopEvent
        /\ ~stopEvent /\ status.reconnects > 0 /\ status'.state = "CONNECTING" =>
              status.state = "CONNECTING"
    BY <1>1, <1>5 DEF Top, Readers, Statuses, At, Go, Attempting
  <2>. QED  BY <1>3, <1>4, <2>1, ReaderFacts
<1>6. CASE Open
  <2>1. /\ reader.pc = "opening" /\ UNCHANGED <<reader.burst, sequence>>
        /\ reader'.pc = "reading" \/ reader'.pc = "opened"
        /\ reader'.backoff \in {reader.backoff, InitialBackoff}
        /\ UNCHANGED <<status.received, status.reconnects>>
        /\ status'.state \in {status.state, "CONNECTED"}
    BY <1>1, <1>6 DEF Open, Readers, Statuses, At, Go, Connected, Calm
  <2>. QED  BY <1>3, <1>4, <2>1, ReaderFacts
<1>7. CASE Configure
  <2>1. /\ reader.pc = "opened" /\ UNCHANGED <<reader.burst, sequence>>
        /\ reader'.pc = "reading" /\ reader'.backoff = InitialBackoff
        /\ UNCHANGED <<status.received, status.reconnects>>
        /\ status'.state = "CONNECTED"
    BY <1>1, <1>7 DEF Configure, Readers, Statuses, At, Go, Connected, Calm
  <2>. QED  BY <1>3, <1>4, <2>1, ReaderFacts
<1>8. CASE Fail
  <2>1. /\ reader.pc \in {"opening", "opened", "reading", "grabbing"}
        /\ UNCHANGED <<reader.burst, reader.backoff, sequence, status>>
        /\ reader'.pc = "failed"
        /\ stopEvent \/ status.reconnects < MaxReconnects
    BY <1>1, <1>8 DEF Fail, Readers, Statuses, At, Go
  <2>. QED  BY <1>3, <1>4, <2>1, ReaderFacts
<1>9. CASE AwaitImage
  <2>1. /\ reader.pc = "reading" /\ kind = "webcam"
        /\ UNCHANGED <<reader.burst, reader.backoff, sequence, status>>
        /\ reader'.pc = IF stopEvent THEN "leaving" ELSE "grabbing"
    BY <1>1, <1>9 DEF AwaitImage, Readers, Statuses, At, Go
  <2>. QED  BY <1>3, <1>4, <2>1, ReaderFacts
<1>10. CASE Chunk
  <2>1. /\ reader.pc = "reading" /\ kind = "mjpeg"
        /\ UNCHANGED <<reader.backoff, sequence, status>>
        /\ reader'.pc = "yielding" /\ reader'.burst \in 1 .. MaxBurst
        /\ sequence + reader'.burst <= MaxFrames
    BY <1>1, <1>10 DEF Chunk, Readers, Statuses, At, Go
  <2>. QED  BY <1>3, <1>4, <2>1, ReaderFacts
<1>11. CASE Grab
  <2>1. /\ reader.pc = "grabbing" /\ sequence < MaxFrames
        /\ UNCHANGED <<reader.burst, reader.backoff, status>>
        /\ reader'.pc = "recording" /\ sequence' = sequence + 1
    BY <1>1, <1>11 DEF Grab, Readers, Statuses, At, Go, Put
  <2>. QED  BY <1>3, <1>4, <2>1, ReaderFacts
<1>12. CASE Yield
  <2>1. /\ reader.pc = "yielding" /\ UNCHANGED <<reader.backoff, status>>
        /\ \/ /\ reader'.pc = "ended" /\ reader'.burst = 0 /\ sequence' = sequence
           \/ /\ reader'.pc = "recording" /\ reader'.burst = reader.burst
              /\ sequence' = sequence + 1
    BY <1>1, <1>12 DEF Yield, Readers, Statuses, At, Go, Put
  <2>. QED  BY <1>3, <1>4, <2>1, ReaderFacts
<1>13. CASE Record
  <2>1. /\ reader.pc = "recording" /\ UNCHANGED <<reader.backoff, sequence>>
        /\ reader'.burst = IF kind = "mjpeg" THEN reader.burst - 1 ELSE 0
        /\ reader'.pc = IF reader'.burst > 0 THEN "yielding" ELSE "reading"
        /\ status'.received = status.received + 1
        /\ status'.reconnects = status.reconnects /\ status'.state = "CONNECTED"
    BY <1>1, <1>13 DEF Record, Readers, Statuses, At, Go, Received
  <2>. QED  BY <1>3, <1>4, <2>1, ReaderFacts
<1>14. CASE GiveUp
  <2>1. /\ reader.pc = "failed" /\ stopEvent
        /\ UNCHANGED <<reader.burst, reader.backoff, sequence, status>>
        /\ reader'.pc \in {"ended", "leaving"}
    BY <1>1, <1>14 DEF GiveUp, Readers, Statuses, At, Go
  <2>. QED  BY <1>3, <1>4, <2>1, ReaderFacts
<1>15. CASE Retry
  <2>1. /\ reader.pc = "failed" /\ ~stopEvent
        /\ UNCHANGED <<reader.burst, reader.backoff, sequence, status.received>>
        /\ reader'.pc = "backoff"
        /\ status'.state = "RECONNECTING" /\ status'.reconnects = status.reconnects + 1
    BY <1>1, <1>15 DEF Retry, Readers, Statuses, At, Go, Lost
  <2>. QED  BY <1>3, <1>4, <2>1, ReaderFacts
<1>16. CASE Waited
  <2>1. /\ reader.pc = "backoff" /\ UNCHANGED <<reader.burst, sequence, status>>
        /\ reader'.backoff = IF 2 * reader.backoff > MaxBackoff THEN MaxBackoff
                                                               ELSE 2 * reader.backoff
        /\ reader'.pc \in {"top", "leaving"}
    BY <1>1, <1>16 DEF Waited, Readers, Statuses, At, Go, Doubled
  <2>. QED  BY <1>3, <1>4, <2>1, ReaderFacts
<1>17. CASE Leave
  <2>1. /\ reader.pc = "leaving" /\ UNCHANGED <<reader.burst, reader.backoff, sequence, status>>
        /\ reader'.pc = "top"
    BY <1>1, <1>17 DEF Leave, Readers, Statuses, At, Go
  <2>. QED  BY <1>3, <1>4, <2>1, ReaderFacts
<1>. QED
  BY <1>5, <1>6, <1>7, <1>8, <1>9, <1>10, <1>11, <1>12, <1>13, <1>14, <1>15, <1>16, <1>17
  DEF ReaderNext

\* The counts of the source hang on its variables only.
LEMMA CountsStay ==
    ASSUME SourceCounts, FirstConnection, UNCHANGED sourceVars
    PROVE  SourceCounts' /\ FirstConnection'
  BY DEF SourceCounts, FirstConnection, At, sourceVars

\* The reader moves ahead of the loop.
LEMMA ReaderStep ==
    ASSUME MonitorInv, CountsInv, ReaderNext, UNCHANGED <<writerVars, loopVars>>
    PROVE  CountsInv'
<1>1. SourceCounts' /\ FirstConnection'
  BY ReaderCounts DEF MonitorInv, CountsInv
<1>2. /\ UNCHANGED <<main, metrics, report, stopFlag, writer, written>>
      /\ ~At("none") /\ ~MainAt("begin") /\ stopEvent' = stopEvent
      /\ sequence' \in {sequence, sequence + 1} /\ sequence \in Nat
  BY ReaderIsThere, ReaderTells DEF MonitorInv, MainFollows, MainOK, writerVars, loopVars
<1>3. ~At("none")'
  BY DEF MonitorInv, SourceInv, SourceOK, Readers, ReaderPCs, ReaderNext, Top, Open, Configure,
     Fail, AwaitImage, Chunk, Grab, Yield, Record, GiveUp, Retry, Waited, Leave, Go, At
<1>4. FramesCounted'
  <2>1. main.sequence <= sequence'
    BY <1>2 DEF MonitorInv, MainOK, CountsInv, FramesCounted
  <2>. QED  BY <1>2, <1>3, <2>1 DEF CountsInv, FramesCounted, MainAt
<1>5. ReportHolds' /\ WriterOK' /\ TasksAscend'
  BY <1>2 DEF CountsInv, ReportHolds, WriterOK, TasksAscend, WriterAt, MainAt
<1>. QED  BY <1>1, <1>4, <1>5 DEF CountsInv

\* The writer's own steps.
LEMMA WriterStep ==
    ASSUME MonitorInv, CountsInv, WriterNext, UNCHANGED <<sourceVars, loopVars>>
    PROVE  CountsInv'
<1>1. UNCHANGED <<main, metrics, report, stopFlag, sequence, stopEvent, reader>>
  BY DEF loopVars, sourceVars
<1>2. SourceCounts' /\ FirstConnection'
  BY CountsStay DEF CountsInv
<1>3. FramesCounted' /\ ReportHolds'
  BY <1>1 DEF CountsInv, FramesCounted, ReportHolds, MainAt, At
<1>. /\ WriterOK /\ TasksAscend /\ ~WriterAt("ended")
  BY DEF CountsInv, WriterNext, Sleep, Take, Write, EndWriter, WriterAt
<1>4. main.pc \notin Ending /\ ~MainAt("begin")
  BY DEF WriterOK, WriterNext, Sleep, Take, Write, EndWriter, WriterAt
<1>5. WriterOK'
  BY <1>1, <1>4 DEF WriterOK, WriterNext, Sleep, Take, Write, EndWriter, WriterAt, MainAt, Tasks
<1>6. TasksAscend'
  <2>1. \/ UNCHANGED <<written, writer.task, writer.pending>>
        \/ /\ writer.task = NoTask /\ written' = written
           /\ writer'.task = writer.pending /\ writer'.pending = NoTask
        \/ /\ writer.task # NoTask /\ written' \in {written, writer.task}
           /\ writer'.task = NoTask /\ writer'.pending = writer.pending
    BY DEF WriterOK, WriterNext, Sleep, Take, Write, EndWriter, WriterAt
  <2>2. \A t \in {written, writer.task, writer.pending}' :
           t = NoTask \/ t \in {written, writer.task, writer.pending}
    BY <2>1
  <2>3. \A t \in {written, writer.task, writer.pending}' :
          /\ Earlier(t, main.sequence + 1)
          /\ main.pc \in {"infer", "update"} => Earlier(t, main.sequence)
    BY <2>2 DEF TasksAscend, Earlier
  <2>4. (writer.task # NoTask => Earlier(written, writer.task))'
    BY <2>1 DEF TasksAscend, Earlier
  <2>5. (writer.pending # NoTask =>
           Earlier(written, writer.pending) /\ Earlier(writer.task, writer.pending))'
    BY <2>1 DEF TasksAscend, Earlier
  <2>. QED  BY <1>1, <2>3, <2>4, <2>5 DEF TasksAscend, Earlier
<1>. QED  BY <1>2, <1>3, <1>5, <1>6 DEF CountsInv

\* A report of what the metrics say while the program runs, or after it stopped.
LEMMA ReportStep ==
    ASSUME MonitorInv, CountsInv, NEW how, Reports(how, metrics),
           how = "stopped" \/ main.pc \in Running
    PROVE  ReportHolds'
<1>1. PICK camera \in Reported :
         report' = [status |-> how, camera |-> camera, received |-> status.received,
                    processed |-> metrics.processed, dropped |-> metrics.dropped]
  BY DEF Reports
<1>2. metrics.processed + metrics.dropped <= status.received + 1
  <2>1. /\ metrics.processed \in Nat /\ metrics.dropped \in Nat /\ main.sequence \in Nat
        /\ sequence \in Nat /\ status.received \in Nat
        /\ main.sequence <= sequence
        /\ status.received = sequence - (IF At("recording") THEN 1 ELSE 0)
        /\ metrics.processed + metrics.dropped + (IF main.inHand THEN 1 ELSE 0) = main.sequence
    BY ReaderFacts DEF MonitorInv, MainOK, CountsInv, FramesCounted, SourceCounts
  <2>. QED  BY <2>1
<1>3. camera = "CONNECTING" => status.received = 0
  BY DEF Reported, CountsInv, FirstConnection
<1>4. camera = "STOPPED" => how = "stopped"
  <2>1. camera = "STOPPED" => status.state = "STOPPED"
    BY DEF Reported
  <2>2. main.pc \in Running => status.state # "STOPPED"
    BY DEF MonitorInv, SourceInv, StateFollows, CountsInv, FramesCounted
  <2>. QED  BY <2>1, <2>2
<1>. QED  BY <1>1, <1>2, <1>3, <1>4 DEF ReportHolds

LEMMA BeginStep == ASSUME MonitorInv, CountsInv, Begin PROVE CountsInv'
<1>1. /\ MainAt("begin") /\ reader' = [NoReader EXCEPT !.pc = "top"]
      /\ status' = NewStatus("CONNECTING") /\ stopEvent' = FALSE
      /\ UNCHANGED <<kind, sequence, open, metrics, report, written>>
      /\ writer' = [writer EXCEPT !.pc = "awake", !.pending = NoTask, !.stopping = FALSE]
      /\ main' = [main EXCEPT !.pc = "first"]
  BY DEF Begin, StartSource, StartWriter, MainGoes
<1>2. /\ main.pc = "begin" /\ main'.pc = "first" /\ main'.sequence = main.sequence
      /\ main'.inHand = main.inHand /\ ~main.inHand /\ main.sequence = 0 /\ sequence = 0
      /\ writer.pc = "none" /\ writer.task = NoTask
  BY <1>1 DEF MonitorInv, MainOK, MainPCs, CountsInv, FramesCounted, WriterOK, MainAt, WriterAt
<1>3. SourceCounts' /\ FirstConnection'
  <2>1. /\ reader'.pc = "top" /\ reader'.backoff = InitialBackoff /\ reader'.burst = 0
        /\ status'.received = 0 /\ status'.reconnects = 0 /\ sequence' = 0
    BY <1>1, <1>2 DEF NoReader, NewStatus
  <2>2. /\ InitialBackoff \in Nat /\ MaxBackoff \in Nat /\ InitialBackoff <= MaxBackoff
        /\ MaxFrames \in Nat /\ MaxReconnects \in Nat
    BY SourceConstants
  <2>3. SourceCounts'
    BY <2>1, <2>2 DEF SourceCounts, At
  <2>4. FirstConnection'
    BY <2>1 DEF FirstConnection, At
  <2>. QED  BY <2>3, <2>4
<1>4. FramesCounted' /\ ReportHolds'
  BY <1>1, <1>2 DEF CountsInv, FramesCounted, ReportHolds, MainAt, Running, At, NoReader
<1>5. WriterOK'
  BY <1>1, <1>2 DEF CountsInv, WriterOK, WriterAt, MainAt, Ending, Tasks
<1>6. TasksAscend'
  BY <1>1, <1>2 DEF CountsInv, TasksAscend, WriterOK, Earlier
<1>. QED  BY <1>3, <1>4, <1>5, <1>6 DEF CountsInv

\* The steps of the loop that neither take up a frame nor reach the source.
LEMMA LoopStep ==
    ASSUME MonitorInv, CountsInv, UNCHANGED sourceVars, UNCHANGED metrics, written' = written,
           main' = [main EXCEPT !.pc = main'.pc],
           main.pc \notin {"begin", "infer"}, ~main.inHand \/ main'.pc \notin Running,
           main'.pc \notin {"begin", "infer", "update"},
           main'.pc \in Running => main.pc \in Running,
           main'.pc = "first" => main.pc = "first",
           ReportHolds', WriterOK', TasksAscend'
    PROVE  CountsInv'
<1>1. SourceCounts' /\ FirstConnection'
  BY CountsStay DEF CountsInv
<1>2. main'.sequence = main.sequence /\ main'.inHand = main.inHand
  BY DEF MonitorInv, MainOK
<1>3. FramesCounted'
  BY <1>2 DEF CountsInv, FramesCounted, MainAt, Running, At, sourceVars
<1>. QED  BY <1>1, <1>3 DEF CountsInv

\* Where the writer is left alone, or only told to stop.
LEMMA WriterLeft ==
    ASSUME MonitorInv, CountsInv, UNCHANGED writerVars,
           main' = [main EXCEPT !.pc = main'.pc],
           main'.pc \notin {"begin", "infer", "update"},
           main'.pc \in Ending => WriterAt("ended")
    PROVE  WriterOK' /\ TasksAscend'
<1>1. main'.sequence = main.sequence /\ UNCHANGED <<writer, written>>
  BY DEF MonitorInv, MainOK, writerVars
<1>. QED  BY <1>1 DEF CountsInv, WriterOK, TasksAscend, WriterAt, MainAt, Earlier

\* A loop step that writes a report or none.
LEMMA ReportLoopStep ==
    ASSUME MonitorInv, CountsInv,
           FirstReport \/ Loop \/ Detect \/ JoinWriter \/ LastReport, main'.pc # "crashed"
    PROVE  CountsInv'
<1>1. /\ UNCHANGED <<sourceVars, writerVars, metrics>>
      /\ main' = [main EXCEPT !.pc = main'.pc]
      /\ main.pc \in {"first", "loop", "detect", "joinWriter", "last"}
      /\ main'.pc \in {"loop", "poll", "closing", "signal", "done"}
      /\ main.pc \in Running \/ main'.pc \notin Running
      /\ main'.pc = "signal" => WriterAt("ended")
      /\ main'.pc = "done" => main.pc = "last"
      /\ \/ report' = report
         \/ main.pc \in Running /\ Reports("running", metrics)
         \/ Reports("stopped", metrics)
  <2>1. CASE FirstReport
    BY <2>1 DEF FirstReport, MainAt, MainGoes, MonitorInv, MainOK, Running
  <2>2. CASE Loop
    BY <2>2 DEF Loop, MainAt, MainGoes, MonitorInv, MainOK, Running
  <2>3. CASE Detect
    BY <2>3 DEF Detect, MainAt, MainGoes, MonitorInv, MainOK, Running
  <2>4. CASE JoinWriter
    BY <2>4 DEF JoinWriter, MainAt, MainGoes, MonitorInv, MainOK, Running
  <2>5. CASE LastReport
    BY <2>5 DEF LastReport, MainAt, MainGoes, MonitorInv, MainOK, Running
  <2>. QED  BY <2>1, <2>2, <2>3, <2>4, <2>5
<1>2. ReportHolds'
  <2>1. CASE report' = report
    BY <2>1 DEF CountsInv, ReportHolds
  <2>2. CASE main.pc \in Running /\ Reports("running", metrics)
    BY <2>2, ReportStep
  <2>3. CASE Reports("stopped", metrics)
    BY <2>3, ReportStep
  <2>. QED  BY <1>1, <2>1, <2>2, <2>3
<1>3. main'.pc \in Ending => WriterAt("ended")
  BY <1>1 DEF CountsInv, WriterOK, Ending
<1>4. ~main.inHand \/ main'.pc \notin Running
  BY <1>1 DEF CountsInv, FramesCounted, Running
<1>5. WriterOK' /\ TasksAscend'
  BY <1>1, <1>3, WriterLeft
<1>. QED  BY <1>1, <1>2, <1>4, <1>5, LoopStep DEF writerVars

\* A first report that cannot be written takes the reader and the writer along.
LEMMA CrashStep ==
    ASSUME MonitorInv, CountsInv, FirstReport, main'.pc = "crashed"
    PROVE  CountsInv'
<1>1. /\ main.pc = "first" /\ reader' = NoReader /\ status' = NewStatus("STOPPED")
      /\ sequence' = 0 /\ writer' = NoWriter
      /\ UNCHANGED <<kind, stopEvent, written, report, metrics>>
      /\ main'.sequence = main.sequence /\ main'.inHand = main.inHand
  BY DEF FirstReport, MainAt, MainGoes, MonitorInv, MainOK
<1>2. SourceCounts' /\ FirstConnection'
  <2>1. /\ reader'.pc = "none" /\ reader'.backoff = InitialBackoff /\ reader'.burst = 0
        /\ status'.received = 0 /\ status'.reconnects = 0 /\ sequence' = 0
    BY <1>1 DEF NoReader, NewStatus
  <2>2. /\ InitialBackoff \in Nat /\ MaxBackoff \in Nat /\ InitialBackoff <= MaxBackoff
        /\ MaxFrames \in Nat /\ MaxReconnects \in Nat
    BY SourceConstants
  <2>3. SourceCounts'
    BY <2>1, <2>2 DEF SourceCounts, At
  <2>4. FirstConnection'
    BY <2>1 DEF FirstConnection, At
  <2>. QED  BY <2>3, <2>4
<1>3. FramesCounted'
  BY <1>1 DEF CountsInv, FramesCounted, MainAt, Running
<1>4. ReportHolds' /\ WriterOK' /\ TasksAscend'
  BY <1>1 DEF CountsInv, ReportHolds, WriterOK, TasksAscend, NoWriter, WriterAt, MainAt, Ending,
              Tasks, Earlier
<1>. QED  BY <1>2, <1>3, <1>4 DEF CountsInv

\* A newer frame is taken up: those between it and the last one are dropped.
LEMMA PollStep == ASSUME MonitorInv, CountsInv, Poll PROVE CountsInv'
<1>1. /\ main.pc = "poll" /\ UNCHANGED <<sourceVars, writerVars, report, stopFlag>>
      /\ \/ main' = [main EXCEPT !.pc = "loop"] /\ metrics' = metrics
         \/ /\ sequence > main.sequence
            /\ main' = [pc |-> "infer", sequence |-> sequence, inHand |-> TRUE]
            /\ metrics' = [metrics EXCEPT !.dropped = @ + (sequence - main.sequence - 1)]
  BY DEF Poll, ReadLatest, MainAt, MainGoes, Observed
<1>2. CASE main' = [main EXCEPT !.pc = "loop"] /\ metrics' = metrics
  <2>1. main'.pc = "loop" /\ main.pc \in Running /\ ~main.inHand
    BY <1>1, <1>2 DEF MonitorInv, MainOK, MainPCs, Running, CountsInv, FramesCounted
  <2>2. WriterOK' /\ TasksAscend'
    BY <1>1, <1>2, <2>1, WriterLeft DEF Ending
  <2>3. ReportHolds'
    BY <1>1 DEF CountsInv, ReportHolds
  <2>. QED  BY <1>1, <1>2, <2>1, <2>2, <2>3, LoopStep DEF writerVars
<1>3. CASE /\ sequence > main.sequence
           /\ main' = [pc |-> "infer", sequence |-> sequence, inHand |-> TRUE]
           /\ metrics' = [metrics EXCEPT !.dropped = @ + (sequence - main.sequence - 1)]
  <2>1. /\ main'.pc = "infer" /\ main'.sequence = sequence /\ main'.inHand = TRUE
        /\ sequence' = sequence /\ sequence \in Nat /\ main.sequence \in Nat
        /\ ~main.inHand /\ main.pc = "poll"
    BY <1>1, <1>3 DEF MonitorInv, MainOK, CountsInv, FramesCounted, sourceVars
  <2>2. SourceCounts' /\ FirstConnection' /\ ReportHolds'
    BY <1>1, CountsStay DEF CountsInv, ReportHolds
  <2>3. /\ metrics' \in [processed : Nat, output : Nat, errors : Nat, dropped : Nat]
        /\ metrics'.processed + metrics'.dropped + 1 = sequence
        /\ metrics'.processed = metrics'.output + metrics'.errors
    <3>1. PICK d \in Nat : d = sequence - main.sequence - 1
      BY <1>3, <2>1
    <3>2. metrics' = [metrics EXCEPT !.dropped = @ + d]
      BY <1>3, <3>1
    <3>3. /\ metrics \in [processed : Nat, output : Nat, errors : Nat, dropped : Nat]
          /\ metrics.processed + metrics.dropped = main.sequence
          /\ metrics.processed = metrics.output + metrics.errors
      BY <2>1 DEF CountsInv, FramesCounted
    <3>4. metrics.processed + (metrics.dropped + d) + 1 = sequence
      BY <2>1, <3>1, <3>3
    <3>. QED  BY <3>2, <3>3, <3>4
  <2>4. FramesCounted'
    BY <1>1, <2>1, <2>3 DEF CountsInv, FramesCounted, MainAt, Running, At, sourceVars
  <2>5. WriterOK'
    BY <1>1, <2>1 DEF CountsInv, WriterOK, WriterAt, MainAt, Ending, writerVars
  <2>6. TasksAscend'
    <3>1. \A t \in {written, writer.task, writer.pending} :
             t # NoTask => t \in Nat /\ t < main.sequence + 1
      BY DEF CountsInv, WriterOK, TasksAscend, Earlier, Tasks
    <3>2. \A t \in {written, writer.task, writer.pending} :
             Earlier(t, sequence) /\ Earlier(t, sequence + 1)
      BY <1>3, <2>1, <3>1 DEF Earlier
    <3>. QED  BY <1>1, <2>1, <3>2 DEF CountsInv, TasksAscend, Earlier, writerVars
  <2>. QED  BY <2>2, <2>4, <2>5, <2>6 DEF CountsInv
<1>. QED  BY <1>1, <1>2, <1>3

\* A frame that was inferred is counted as processed, and as output or error.
LEMMA InferredCounts ==
    ASSUME metrics \in [processed : Nat, output : Nat, errors : Nat, dropped : Nat],
           NEW ok \in BOOLEAN
    PROVE  /\ Inferred(ok).processed = metrics.processed + 1
           /\ Inferred(ok).dropped = metrics.dropped
           /\ Inferred(ok).output + Inferred(ok).errors = metrics.output + metrics.errors + 1
           /\ Inferred(ok) \in [processed : Nat, output : Nat, errors : Nat, dropped : Nat]
<1>. DEFINE Counts == [processed : Nat, output : Nat, errors : Nat, dropped : Nat]
            m == [metrics EXCEPT !.processed = metrics.processed + 1]
            n == [m EXCEPT !.output = IF ok THEN metrics.output + 1 ELSE metrics.output]
            o == [n EXCEPT !.errors = IF ok THEN metrics.errors ELSE metrics.errors + 1]
<1>1. Inferred(ok) = o
  BY DEF Inferred
<1>2. /\ m \in Counts /\ m.processed = metrics.processed + 1
      /\ m.output = metrics.output /\ m.errors = metrics.errors /\ m.dropped = metrics.dropped
  OBVIOUS
<1>. HIDE DEF m
<1>3. /\ n \in Counts /\ n.processed = metrics.processed + 1 /\ n.dropped = metrics.dropped
      /\ n.output = IF ok THEN metrics.output + 1 ELSE metrics.output
      /\ n.errors = metrics.errors
  BY <1>2
<1>. HIDE DEF n
<1>4. /\ o \in Counts /\ o.processed = metrics.processed + 1 /\ o.dropped = metrics.dropped
      /\ o.output = IF ok THEN metrics.output + 1 ELSE metrics.output
      /\ o.errors = IF ok THEN metrics.errors ELSE metrics.errors + 1
  BY <1>3
<1>. HIDE DEF o
<1>. QED  BY <1>1, <1>4

LEMMA InferStep == ASSUME MonitorInv, CountsInv, Infer PROVE CountsInv'
<1>1. /\ main.pc = "infer" /\ main.inHand = TRUE
      /\ UNCHANGED <<sourceVars, writerVars, report, stopFlag>>
      /\ main'.pc \in {"loop", "update", "closing"} /\ main'.sequence = main.sequence
      /\ metrics \in [processed : Nat, output : Nat, errors : Nat, dropped : Nat]
      /\ metrics.processed + metrics.dropped + 1 = main.sequence
      /\ metrics.processed = metrics.output + metrics.errors
  BY DEF Infer, MainAt, MainGoes, MonitorInv, MainOK, CountsInv, FramesCounted
<1>2. SourceCounts' /\ FirstConnection' /\ ReportHolds'
  BY <1>1, CountsStay DEF CountsInv, ReportHolds
<1>3. /\ metrics' \in [processed : Nat, output : Nat, errors : Nat, dropped : Nat]
      /\ metrics'.processed + metrics'.dropped + (IF main'.inHand THEN 1 ELSE 0) = main.sequence
      /\ metrics'.processed = metrics'.output + metrics'.errors
      /\ main'.inHand => main'.pc = "closing"
  <2>1. CASE main'.inHand = FALSE /\ \E ok \in BOOLEAN : metrics' = Inferred(ok)
    <3>1. /\ metrics'.processed = metrics.processed + 1 /\ metrics'.dropped = metrics.dropped
          /\ metrics'.output + metrics'.errors = metrics.output + metrics.errors + 1
          /\ metrics' \in [processed : Nat, output : Nat, errors : Nat, dropped : Nat]
      BY <1>1, <2>1, InferredCounts
    <3>. QED  BY <1>1, <2>1, <3>1
  <2>2. CASE main'.inHand = TRUE /\ main'.pc = "closing" /\ metrics' = metrics
    BY <1>1, <2>2
  <2>3. \/ main'.inHand = FALSE /\ \E ok \in BOOLEAN : metrics' = Inferred(ok)
        \/ main'.inHand = TRUE /\ main'.pc = "closing" /\ metrics' = metrics
    BY <1>1 DEF Infer, MainGoes, MonitorInv, MainOK
  <2>. QED  BY <2>1, <2>2, <2>3
<1>4. FramesCounted'
  BY <1>1, <1>3 DEF CountsInv, FramesCounted, MainAt, Running, At, sourceVars
<1>5. WriterOK' /\ TasksAscend'
  BY <1>1 DEF CountsInv, WriterOK, TasksAscend, WriterAt, MainAt, Ending, writerVars, Earlier
<1>. QED  BY <1>2, <1>4, <1>5 DEF CountsInv

\* The overlay of the frame at hand is newer than what the writer has.
LEMMA UpdateStep == ASSUME MonitorInv, CountsInv, Update PROVE CountsInv'
<1>1. /\ main.pc = "update" /\ UNCHANGED <<sourceVars, metrics, report, stopFlag, written>>
      /\ main' = [main EXCEPT !.pc = "detect"]
      /\ \/ writer' = writer
         \/ /\ ~writer.stopping
            /\ writer' = [writer EXCEPT !.pending = main.sequence, !.pc = Woken]
  BY DEF Update, Submit, MainAt, MainGoes
<1>2. /\ main'.pc = "detect" /\ main'.sequence = main.sequence /\ ~main.inHand
      /\ main.sequence \in Nat
  BY <1>1 DEF MonitorInv, MainOK, CountsInv, FramesCounted
<1>3. WriterOK'
  <2>1. /\ Woken \in {"none", "awake", "writing", "ended"}
        /\ Woken = "writing" <=> WriterAt("writing")
    BY DEF Woken, WriterAt, CountsInv, WriterOK
  <2>. QED  BY <1>1, <1>2, <2>1 DEF CountsInv, WriterOK, WriterAt, MainAt, Ending, Tasks
<1>4. TasksAscend'
  <2>1. /\ writer'.task = writer.task /\ writer'.pending \in {writer.pending, main.sequence}
    BY <1>1 DEF CountsInv, WriterOK
  <2>. QED  BY <1>1, <1>2, <2>1 DEF CountsInv, TasksAscend, Earlier
<1>5. ReportHolds'
  BY <1>1 DEF CountsInv, ReportHolds
<1>. QED  BY <1>1, <1>2, <1>3, <1>4, <1>5, LoopStep DEF Running

LEMMA CloseWriterStep == ASSUME MonitorInv, CountsInv, CloseWriter PROVE CountsInv'
<1>1. /\ main.pc = "closing" /\ UNCHANGED <<sourceVars, metrics, report, stopFlag, written>>
      /\ main' = [main EXCEPT !.pc = "joinWriter"]
      /\ writer' = [writer EXCEPT !.stopping = TRUE, !.pending = NoTask, !.pc = Woken]
  BY DEF CloseWriter, StopWriter, MainAt, MainGoes
<1>2. main'.pc = "joinWriter" /\ main'.sequence = main.sequence
  BY <1>1 DEF MonitorInv, MainOK
<1>3. WriterOK'
  <2>1. /\ Woken \in {"none", "awake", "writing", "ended"}
        /\ Woken = "writing" <=> WriterAt("writing")
    BY DEF Woken, WriterAt, CountsInv, WriterOK
  <2>. QED  BY <1>1, <1>2, <2>1 DEF CountsInv, WriterOK, WriterAt, MainAt, Ending, Tasks
<1>4. TasksAscend'
  <2>1. writer'.task = writer.task /\ writer'.pending = NoTask
    BY <1>1 DEF CountsInv, WriterOK
  <2>. QED  BY <1>1, <1>2, <2>1 DEF CountsInv, TasksAscend, Earlier
<1>5. ReportHolds'
  BY <1>1 DEF CountsInv, ReportHolds
<1>. QED  BY <1>1, <1>2, <1>3, <1>4, <1>5, LoopStep DEF Running

\* Stopping the source leaves the counts, and shows it as stopped at most.
LEMMA CloseSourceStep == ASSUME MonitorInv, CountsInv, CloseSource PROVE CountsInv'
<1>1. /\ UNCHANGED <<kind, reader, sequence, writerVars, metrics, report, stopFlag>>
      /\ status' = status \/ status' = Stopped(status)
      /\ main' = [main EXCEPT !.pc = main'.pc]
      /\ main.pc \in Ending /\ main'.pc \in {"release", "join", "last"}
      /\ stopEvent' = TRUE
  BY DEF CloseSource, SignalStop, ReleaseCapture, JoinSource, MonitorInv, MainFollows, MainOK,
     MainAt, MainGoes, Ending
<1>2. /\ status'.received = status.received /\ status'.reconnects = status.reconnects
      /\ status'.state = "CONNECTING" => status.state = "CONNECTING"
  BY <1>1 DEF MonitorInv, SourceInv, SourceOK, Statuses, Stopped, Calm
<1>3. SourceCounts' /\ FirstConnection'
  BY <1>1, <1>2 DEF CountsInv, SourceCounts, FirstConnection, At
<1>4. main'.sequence = main.sequence /\ main'.inHand = main.inHand
  BY <1>1 DEF MonitorInv, MainOK
<1>5. FramesCounted'
  BY <1>1, <1>4 DEF CountsInv, FramesCounted, MainAt, Running
<1>6. ReportHolds' /\ WriterOK' /\ TasksAscend'
  <2>1. WriterAt("ended")
    BY <1>1 DEF CountsInv, WriterOK
  <2>. QED  BY <1>1, <2>1, WriterLeft DEF CountsInv, ReportHolds
<1>. QED  BY <1>3, <1>5, <1>6 DEF CountsInv

LEMMA CountsSteps == MonitorInv /\ CountsInv /\ [MonitorNext]_monitorVars => CountsInv'
<1>. SUFFICES ASSUME MonitorInv, CountsInv, [MonitorNext]_monitorVars PROVE CountsInv'
  OBVIOUS
<1>1. CASE MainNext
  <2>1. CASE FirstReport /\ main'.pc = "crashed"
    BY <2>1, CrashStep
  <2>2. CASE /\ FirstReport \/ Loop \/ Detect \/ JoinWriter \/ LastReport
             /\ main'.pc # "crashed"
    BY <2>2, ReportLoopStep
  <2>3. Loop \/ Detect \/ JoinWriter \/ LastReport => main'.pc # "crashed"
    BY DEF Loop, Detect, JoinWriter, LastReport, MainGoes, MonitorInv, MainOK
  <2>. QED  BY <1>1, <2>1, <2>2, <2>3, BeginStep, PollStep, InferStep, UpdateStep,
                CloseWriterStep, CloseSourceStep DEF MainNext
<1>2. CASE ReaderNext /\ UNCHANGED <<writerVars, loopVars>>
  BY <1>2, ReaderStep
<1>3. CASE WriterNext /\ UNCHANGED <<sourceVars, loopVars>>
  BY <1>3, WriterStep
<1>4. CASE UNCHANGED <<sourceVars, writerVars, main, metrics, report>>
  <2>1. SourceCounts' /\ FirstConnection'
    BY <1>4, CountsStay DEF CountsInv
  <2>2. FramesCounted' /\ ReportHolds' /\ WriterOK' /\ TasksAscend'
    BY <1>4 DEF CountsInv, FramesCounted, ReportHolds, WriterOK, TasksAscend, WriterAt, MainAt, At,
                sourceVars, writerVars
  <2>. QED  BY <2>1, <2>2 DEF CountsInv
<1>. QED  BY <1>1, <1>2, <1>3, <1>4 DEF MonitorNext, Signal, monitorVars

-----------------------------------------------------------------------------
(* The theorems *)

LEMMA HeldOnce == MonitorInv => OneCapture
<1>. SUFFICES ASSUME MonitorInv PROVE OneCapture
  OBVIOUS
<1>1. open = {} \/ open = {reader.capture}
  BY DEF MonitorInv, SourceInv, OpenIsHeld
<1>2. Cardinality({}) = 0 /\ Cardinality({reader.capture}) = 1
  BY FS_EmptySet, FS_Singleton
<1>3. Cardinality(open) <= 1
  BY <1>1, <1>2
<1>4. At("ended") => open = {}
  BY DEF MonitorInv, SourceInv, OpenIsHeld, Holding, At
<1>. QED  BY <1>3, <1>4 DEF OneCapture

LEMMA StatusFollows == MonitorInv => StatusIsHonest
  BY DEF MonitorInv, SourceInv, ErrorFollows, StateFollows, StatusIsHonest

\* The camera is opened once at a time, through every failure, stop and crash, and
\* a reader that has ended holds nothing (stream/webcam.py:286-291, mjpeg.py:240).
THEOREM CameraIsHeldOnce == MonitorSpec => []OneCapture
  BY MonitorStarts, MonitorSteps, HeldOnce, PTL DEF MonitorSpec

\* Before a stop the status is what the reader does, and an error is shown only
\* while the camera is lost (stream/mjpeg.py:279-308).
THEOREM StatusTellsTheReader == MonitorSpec => []StatusIsHonest
  BY MonitorStarts, MonitorSteps, StatusFollows, PTL DEF MonitorSpec

\* The source's own invariants are its types.
LEMMA CountsType == MonitorInv /\ CountsInv => MonitorTypeOK
<1>. SUFFICES ASSUME MonitorInv, CountsInv PROVE MonitorTypeOK
  OBVIOUS
<1>1. status.reconnects \in 0 .. MaxReconnects
  BY ReaderFacts DEF MonitorInv, CountsInv, SourceCounts
<1>2. SourceTypeOK
  BY <1>1 DEF CountsInv, SourceCounts, SourceTypeOK
<1>. QED  BY <1>2 DEF CountsInv, FramesCounted, WriterOK, MonitorTypeOK

\* An overlay is written only while the writer runs, and then over an older one.
LEMMA OverlaySteps ==
    ASSUME MonitorInv, CountsInv, [MonitorNext]_monitorVars, written' # written
    PROVE  /\ written # NoTask => written' > written
           /\ main.pc \notin {"signal", "release", "join", "last", "done"}
<1>1. CASE MonitorNext
  <2>1. Write
    BY <1>1 DEF MonitorNext, MainNext, Begin, FirstReport, Loop, Poll, Infer, Update, Detect,
                CloseWriter, JoinWriter, CloseSource, LastReport, Signal, WriterNext, Sleep, Take,
                EndWriter, StartWriter, Submit, StopWriter, writerVars
  <2>2. written' = writer.task /\ WriterAt("writing") /\ writer.task # NoTask
    BY <2>1 DEF Write, CountsInv, WriterOK
  <2>3. written # NoTask => written < writer.task
    BY <2>2 DEF CountsInv, TasksAscend, Earlier
  <2>4. writer.task \in Nat /\ written \in Tasks
    BY <2>2 DEF CountsInv, WriterOK, Tasks
  <2>5. main.pc \notin Ending
    BY <2>2 DEF CountsInv, WriterOK, WriterAt
  <2>. QED  BY <2>2, <2>3, <2>4, <2>5 DEF Tasks, Ending
<1>2. CASE UNCHANGED monitorVars
  BY <1>2 DEF monitorVars, writerVars
<1>. QED  BY <1>1, <1>2

LEMMA MonitorInvariant == MonitorSpec => [](MonitorInv /\ CountsInv)
<1>1. MonitorInit => MonitorInv /\ CountsInv
  BY MonitorStarts, CountsStart
<1>2. MonitorInv /\ CountsInv /\ [MonitorNext]_monitorVars => MonitorInv' /\ CountsInv'
  BY MonitorSteps, CountsSteps
<1>. QED  BY <1>1, <1>2, PTL DEF MonitorSpec

\* The backoff stays within its bounds, only a stream has a burst, and the loop is
\* never ahead of the reader (stream/mjpeg.py:198-252, observability/metrics.py:42-53).
THEOREM MonitorTypes == MonitorSpec => []MonitorTypeOK
  BY MonitorInvariant, CountsType, PTL

\* What a report says: every frame once, a first connection apart from a lost one,
\* and a stopped camera only of a program that stops (observability/metrics.py:42-53).
THEOREM ReportsAreTrue == MonitorSpec => []ReportIsTrue
<1>1. CountsInv => ReportIsTrue
  BY DEF CountsInv, FramesCounted, ReportHolds, ReportIsTrue
<1>. QED  BY <1>1, MonitorInvariant, PTL

\* Overlays are written in the order of their frames, and none after the writer was
\* joined (observability/latest_writer.py:54-78).
THEOREM OverlaysInOrder == MonitorSpec => OverlaysAdvance
<1>. DEFINE A == written' # written =>
                   /\ written # NoTask => written' > written
                   /\ main.pc \notin {"signal", "release", "join", "last", "done"}
<1>1. MonitorInv /\ CountsInv /\ [MonitorNext]_monitorVars => A
  BY OverlaySteps
<1>2. OverlaysAdvance <=> [][A]_monitorVars
  BY DEF OverlaysAdvance
<1>. HIDE DEF A
<1>. QED  BY <1>1, <1>2, MonitorInvariant, PTL DEF MonitorSpec

-----------------------------------------------------------------------------
(* The segments of the collector *)

Segments == [motion : 1 .. MotionTotal, sample : 1 .. Samples]

\* The segment of the stage is still to be measured, or is the last measured one.
Before == {"initial_wait", "waiting_for_first_palm", "waiting_for_first_release",
           "waiting_for_next_release", "neutral"}
After == {"target", "waiting_for_next_palm", "completed"}

Phases == Before \cup After \cup {"stopped"}

Stages == [phase : Phases, motion : 1 .. MotionTotal, sample : 1 .. Samples,
           records : Nat, remaining : Nat]

StageOK ==
    /\ stage \in Stages
    /\ shown.motion = stage.motion
    /\ shown.sample = stage.sample
    /\ measured \in Seq(Segments)
    /\ output \in Seq(Segments)

MeasuredInOrder ==
    \A i \in DOMAIN measured : Index(measured[i]) = i /\ measured[i].sample <= Samples

OutputInOrder ==
    \A i \in DOMAIN output : /\ Index(output[i]) <= Len(measured)
                             /\ i > 1 => Index(output[i - 1]) <= Index(output[i])

StatusCounts == ~In("target") => shown.saved = Len(output)

StageFollows ==
    /\ stage.phase \in Before => Index(stage) = Len(measured) + 1
    /\ stage.phase \in After => Index(stage) = Len(measured)
    /\ In("completed") => LastSegment

CollectorInv ==
    /\ StageOK
    /\ MeasuredInOrder
    /\ OutputInOrder
    /\ StatusCounts
    /\ StageFollows

-----------------------------------------------------------------------------
(* The index *)

\* The index of a segment only depends on its motion and sample, and is a number.
LEMMA IndexIsNat ==
    ASSUME NEW s, s.motion \in 1 .. MotionTotal, s.sample \in 1 .. Samples
    PROVE  Index(s) \in Nat
<1>1. s.motion - 1 \in Nat /\ Samples \in Nat /\ s.sample \in Nat
  BY CollectorConstants
<1>2. (s.motion - 1) * Samples \in Nat
  BY <1>1
<1>. QED  BY <1>1, <1>2 DEF Index

LEMMA IndexOfSegment ==
    ASSUME NEW s, NEW t, s.motion = t.motion, s.sample = t.sample
    PROVE  Index(s) = Index(t)
  BY DEF Index

LEMMA IndexBegins ==
    ASSUME NEW s, s.motion = 1, s.sample = 1
    PROVE  Index(s) = 1
<1>1. (1 - 1) * Samples = 0
  BY CollectorConstants
<1>. QED  BY <1>1 DEF Index

\* The next sample, and the first sample of the next motion, are the next segment.
LEMMA IndexAdvances ==
    ASSUME NEW s, NEW t, s.motion \in 1 .. MotionTotal, s.sample \in 1 .. Samples,
           \/ t.motion = s.motion /\ t.sample = s.sample + 1
           \/ s.sample = Samples /\ t.motion = s.motion + 1 /\ t.sample = 1
    PROVE  Index(t) = Index(s) + 1
<1>1. s.motion \in Int /\ Samples \in Int /\ s.sample \in Int
  BY CollectorConstants
<1>2. (s.motion + 1 - 1) * Samples = (s.motion - 1) * Samples + Samples
  BY <1>1
<1>3. (s.motion - 1) * Samples \in Int
  BY <1>1
<1>. QED  BY <1>1, <1>2, <1>3 DEF Index

LEMMA IndexEnds ==
    ASSUME NEW s, s.motion = MotionTotal, s.sample = Samples
    PROVE  Index(s) = MotionTotal * Samples
<1>1. MotionTotal \in Int /\ Samples \in Int
  BY CollectorConstants
<1>2. (MotionTotal - 1) * Samples + Samples = MotionTotal * Samples
  BY <1>1
<1>. QED  BY <1>2 DEF Index

-----------------------------------------------------------------------------
(* The invariant *)

LEMMA CollectorStarts == CollectorInit => CollectorInv
<1>. SUFFICES ASSUME CollectorInit PROVE CollectorInv
  OBVIOUS
<1>1. stage = [phase |-> "initial_wait", motion |-> 1, sample |-> 1, records |-> 0,
               remaining |-> InitialWait]
      /\ shown = Shows(stage, 0) /\ measured = <<>> /\ output = <<>>
  BY DEF CollectorInit
<1>2. StageOK
  BY <1>1, CollectorConstants DEF StageOK, Stages, Phases, Before, After, Shows, Segments
<1>3. Index(stage) = 1
  BY <1>1, IndexBegins
<1>4. MeasuredInOrder /\ OutputInOrder
  BY <1>1 DEF MeasuredInOrder, OutputInOrder
<1>5. StatusCounts
  BY <1>1 DEF StatusCounts, Shows
<1>6. StageFollows
  BY <1>1, <1>3 DEF StageFollows, Before, After, In
<1>. QED  BY <1>2, <1>4, <1>5, <1>6 DEF CollectorInv

\* A step that leaves the segment and the files alone keeps the invariant.
LEMMA StayingKeeps ==
    ASSUME CollectorInv, UNCHANGED <<shown, measured, output>>,
           stage' = stage \/ \E r \in Nat : stage' = [stage EXCEPT !.remaining = r]
    PROVE  CollectorInv'
<1>1. /\ stage'.phase = stage.phase /\ stage'.motion = stage.motion
      /\ stage'.sample = stage.sample
      /\ StageOK'
  BY DEF CollectorInv, StageOK, Stages, Phases, Segments
<1>2. Index(stage)' = Index(stage)
  BY <1>1 DEF Index
<1>3. MeasuredInOrder' /\ OutputInOrder'
  BY DEF CollectorInv, MeasuredInOrder, OutputInOrder, Index
<1>4. StatusCounts' /\ StageFollows'
  BY <1>1, <1>2 DEF CollectorInv, StatusCounts, StageFollows, In, LastSegment
<1>. QED  BY <1>1, <1>3, <1>4 DEF CollectorInv

\* So does one to a later phase of the same segment.
LEMMA PhaseKeeps ==
    ASSUME CollectorInv, UNCHANGED <<measured, output>>,
           NEW p, NEW time \in Nat, Enter(Begins(p, time)),
           \/ p \in Before /\ stage.phase \in Before
           \/ p \in After \ {"completed"} /\ stage.phase \in After
           \/ p = "completed" /\ stage.phase \in After /\ LastSegment
           \/ p = "stopped"
    PROVE  CollectorInv'
<1>1. /\ stage'.phase = p /\ stage'.motion = stage.motion /\ stage'.sample = stage.sample
      /\ StageOK'
  BY DEF CollectorInv, StageOK, Stages, Phases, Segments, Enter, Begins, Shows, Before, After
<1>2. Index(stage)' = Index(stage)
  BY <1>1 DEF Index
<1>3. MeasuredInOrder' /\ OutputInOrder'
  BY DEF CollectorInv, MeasuredInOrder, OutputInOrder, Index
<1>4. StatusCounts'
  BY <1>1 DEF CollectorInv, StatusCounts, Enter, Shows, Begins
<1>5. StageFollows'
  BY <1>1, <1>2 DEF CollectorInv, StageFollows, In, LastSegment, Before, After
<1>. QED  BY <1>1, <1>3, <1>4, <1>5 DEF CollectorInv

\* The step to the target phase measures the segment.
LEMMA MeasuringKeeps ==
    ASSUME CollectorInv, NEW palm, BeNeutral(palm), stage.remaining = 0
    PROVE  CollectorInv'
<1>1. /\ stage.phase = "neutral"
      /\ stage' = [Begins("target", Target) EXCEPT !.records = 0]
      /\ shown' = Shows(stage', Len(output))
      /\ measured' = Append(measured, Segment)
      /\ UNCHANGED output
  BY DEF BeNeutral, Enter, In
<1>2. /\ stage'.phase = "target" /\ stage'.motion = stage.motion
      /\ stage'.sample = stage.sample
      /\ Segment \in Segments
  BY <1>1 DEF CollectorInv, StageOK, Stages, Phases, Begins, Segment, Segments
<1>3. StageOK'
  <2>1. stage' = [stage EXCEPT !.phase = "target", !.remaining = Target, !.records = 0]
    BY <1>1 DEF CollectorInv, StageOK, Stages, Phases, Begins
  <2>2. /\ stage' \in Stages
        /\ Target \in Nat
    BY <2>1, CollectorConstants DEF CollectorInv, StageOK, Stages, Phases, After
  <2>3. shown'.motion = stage'.motion /\ shown'.sample = stage'.sample
    BY <1>1 DEF Shows
  <2>4. measured' \in Seq(Segments) /\ output' \in Seq(Segments)
    BY <1>1, <1>2 DEF CollectorInv, StageOK, Stages, Phases
  <2>. QED  BY <2>2, <2>3, <2>4 DEF StageOK, Stages, Phases
<1>4. /\ Index(Segment) = Len(measured) + 1
      /\ Index(stage)' = Len(measured) + 1
  BY <1>1, <1>2 DEF CollectorInv, StageFollows, Before, Index, Segment
<1>5. /\ Len(measured') = Len(measured) + 1
      /\ \A i \in DOMAIN measured' :
            measured'[i] = IF i = Len(measured) + 1 THEN Segment ELSE measured[i]
      /\ DOMAIN measured' = 1 .. Len(measured) + 1
      /\ DOMAIN measured = 1 .. Len(measured)
      /\ Len(measured) \in Nat
  BY <1>1, <1>2 DEF CollectorInv, StageOK, Stages, Phases
<1>6. MeasuredInOrder'
  <2>. SUFFICES ASSUME NEW i \in DOMAIN measured'
                PROVE  Index(measured'[i]) = i /\ measured'[i].sample <= Samples
    BY DEF MeasuredInOrder, Index
  <2>1. CASE i = Len(measured) + 1
    <3>1. Segment.sample <= Samples
      BY <1>2, CollectorConstants DEF Segments
    <3>. QED  BY <2>1, <3>1, <1>4, <1>5
  <2>2. CASE i # Len(measured) + 1
    BY <2>2, <1>5 DEF CollectorInv, MeasuredInOrder
  <2>. QED  BY <2>1, <2>2
<1>7. OutputInOrder'
  <2>. SUFFICES ASSUME NEW i \in DOMAIN output
                PROVE  /\ Index(output[i]) <= Len(measured')
                       /\ i > 1 => Index(output[i - 1]) <= Index(output[i])
    BY <1>1 DEF OutputInOrder, Index
  <2>1. output[i] \in Segments
    BY DEF CollectorInv, StageOK, Stages, Phases
  <2>2. output[i].motion \in 1 .. MotionTotal /\ output[i].sample \in 1 .. Samples
    BY <2>1 DEF Segments
  <2>3. Index(output[i]) \in Nat
    BY <2>2, IndexIsNat
  <2>. QED  BY <2>3, <1>5 DEF CollectorInv, OutputInOrder
<1>8. StatusCounts' /\ StageFollows'
  BY <1>1, <1>2, <1>4, <1>5 DEF StatusCounts, StageFollows, In, Before, After
<1>. QED  BY <1>3, <1>6, <1>7, <1>8 DEF CollectorInv

\* A record belongs to the segment that was measured last.
LEMMA SavingKeeps ==
    ASSUME CollectorInv, NEW palm, SaveFrame(palm), stage.remaining # 0
    PROVE  CollectorInv'
<1>1. /\ stage.phase = "target"
      /\ output' = Append(output, Segment)
      /\ stage' = [stage EXCEPT !.records = @ + 1]
      /\ shown' \in {shown, Shows(stage, Len(output'))}
      /\ UNCHANGED measured
  BY DEF SaveFrame, In
<1>2. /\ stage'.phase = "target" /\ stage'.motion = stage.motion
      /\ stage'.sample = stage.sample
      /\ Segment \in Segments
  BY <1>1 DEF CollectorInv, StageOK, Stages, Phases, Segment, Segments
<1>3. StageOK'
  <2>0. stage \in Stages /\ stage.records + 1 \in Nat
    BY DEF CollectorInv, StageOK, Stages
  <2>1. stage' \in Stages
    BY <1>1, <2>0 DEF Stages
  <2>2. shown'.motion = stage'.motion /\ shown'.sample = stage'.sample
    BY <1>1, <1>2 DEF CollectorInv, StageOK, Stages, Phases, Shows
  <2>3. measured' \in Seq(Segments) /\ output' \in Seq(Segments)
    BY <1>1, <1>2 DEF CollectorInv, StageOK, Stages, Phases
  <2>. QED  BY <2>1, <2>2, <2>3 DEF StageOK, Stages, Phases
<1>4. /\ Index(Segment) = Len(measured)
      /\ Index(stage)' = Len(measured)
  BY <1>1, <1>2 DEF CollectorInv, StageFollows, After, Index, Segment
<1>5. /\ \A i \in DOMAIN output' :
            output'[i] = IF i = Len(output) + 1 THEN Segment ELSE output[i]
      /\ DOMAIN output' = 1 .. Len(output) + 1
      /\ DOMAIN output = 1 .. Len(output)
      /\ Len(output) \in Nat /\ Len(measured) \in Nat
  BY <1>1, <1>2 DEF CollectorInv, StageOK, Stages, Phases
<1>6. OutputInOrder'
  <2>. SUFFICES ASSUME NEW i \in DOMAIN output'
                PROVE  /\ Index(output'[i]) <= Len(measured)
                       /\ i > 1 => Index(output'[i - 1]) <= Index(output'[i])
    BY <1>1 DEF OutputInOrder, Index
  <2>1. CASE i = Len(output) + 1
    <3>1. i > 1 => Index(output[i - 1]) <= Len(measured)
      BY <2>1, <1>5 DEF CollectorInv, OutputInOrder
    <3>. QED  BY <2>1, <3>1, <1>4, <1>5
  <2>2. CASE i # Len(output) + 1
    BY <2>2, <1>5 DEF CollectorInv, OutputInOrder
  <2>. QED  BY <2>1, <2>2
<1>7. MeasuredInOrder'
  BY <1>1 DEF CollectorInv, MeasuredInOrder, Index
<1>8. StatusCounts' /\ StageFollows'
  BY <1>1, <1>2, <1>4 DEF StatusCounts, StageFollows, In, Before, After
<1>. QED  BY <1>3, <1>6, <1>7, <1>8 DEF CollectorInv

\* The step to the next segment.
LEMMA AdvancingKeeps ==
    ASSUME CollectorInv, In("waiting_for_next_palm"), ~LastSegment, Enter(Advanced),
           UNCHANGED <<measured, output>>
    PROVE  CollectorInv'
<1>1. /\ stage \in Stages
      /\ MotionTotal \in Nat /\ Samples \in Nat \ {0}
      /\ stage' = Advanced /\ shown' = Shows(Advanced, Len(output))
  BY CollectorConstants DEF CollectorInv, StageOK, Stages, Phases, Enter
<1>2. /\ stage'.phase = "waiting_for_next_release"
      /\ \/ stage'.motion = stage.motion /\ stage'.sample = stage.sample + 1
         \/ stage.sample = Samples /\ stage'.motion = stage.motion + 1 /\ stage'.sample = 1
      /\ stage' \in Stages
  <2>0. /\ stage.motion \in 1 .. MotionTotal /\ stage.sample \in 1 .. Samples
        /\ "waiting_for_next_release" \in Phases
    BY <1>1 DEF Stages, Phases, Before
  <2>. DEFINE b == Begins("waiting_for_next_release", 0)
  <2>1. /\ b \in Stages /\ b.phase = "waiting_for_next_release"
        /\ b.motion = stage.motion /\ b.sample = stage.sample
    BY <1>1, <2>0 DEF Begins, Stages
  <2>2. Advanced = IF stage.sample = Samples
                   THEN [[b EXCEPT !.motion = @ + 1] EXCEPT !.sample = 1]
                   ELSE [b EXCEPT !.sample = @ + 1]
    BY DEF Advanced
  <2>. HIDE DEF b
  <2>3. CASE stage.sample = Samples
    <3>. DEFINE c == [b EXCEPT !.motion = @ + 1]
    <3>1. stage.motion + 1 \in 1 .. MotionTotal /\ 1 \in 1 .. Samples
      BY <1>1, <2>0, <2>3 DEF LastSegment
    <3>2. /\ c \in Stages /\ c.phase = b.phase
          /\ c.motion = stage.motion + 1
      BY <2>1, <3>1 DEF Stages
    <3>3. stage' = [c EXCEPT !.sample = 1]
      BY <1>1, <2>2, <2>3
    <3>. HIDE DEF c
    <3>4. /\ stage' \in Stages /\ stage'.phase = b.phase
          /\ stage'.motion = c.motion /\ stage'.sample = 1
      BY <3>1, <3>2, <3>3 DEF Stages
    <3>. QED  BY <2>1, <2>3, <3>2, <3>4
  <2>4. CASE stage.sample # Samples
    <3>1. stage.sample + 1 \in 1 .. Samples
      BY <1>1, <2>0, <2>4
    <3>2. stage' = [b EXCEPT !.sample = @ + 1]
      BY <1>1, <2>2, <2>4
    <3>3. /\ stage' \in Stages /\ stage'.phase = b.phase
          /\ stage'.motion = b.motion /\ stage'.sample = stage.sample + 1
      BY <2>1, <3>1, <3>2 DEF Stages
    <3>. QED  BY <2>1, <3>3
  <2>. QED  BY <2>3, <2>4
<1>3. StageOK'
  BY <1>1, <1>2 DEF CollectorInv, StageOK, Stages, Phases, Shows
<1>4. Index(stage') = Len(measured) + 1
  <2>1. stage.motion \in 1 .. MotionTotal /\ stage.sample \in 1 .. Samples
    BY <1>1 DEF Stages
  <2>2. Index(stage) = Len(measured) /\ Len(measured) \in Nat
    BY DEF CollectorInv, StageOK, StageFollows, In, After
  <2>3. Index(stage') = Index(stage) + 1
    BY <1>2, <2>1, IndexAdvances
  <2>. QED  BY <2>2, <2>3
<1>5. Index(stage)' = Len(measured) + 1
  BY <1>4 DEF Index
<1>6. MeasuredInOrder' /\ OutputInOrder'
  BY DEF CollectorInv, MeasuredInOrder, OutputInOrder, Index
<1>7. StatusCounts' /\ StageFollows'
  BY <1>1, <1>2, <1>5 DEF StatusCounts, StageFollows, In, Shows, Before, After
<1>. QED  BY <1>3, <1>6, <1>7 DEF CollectorInv

LEMMA CollectorSteps == CollectorInv /\ [CollectorNext]_collectorVars => CollectorInv'
<1>. SUFFICES ASSUME CollectorInv, [CollectorNext]_collectorVars PROVE CollectorInv'
  OBVIOUS
<1>0. stage.remaining \in Nat /\ {InitialWait, Neutral, Target} \subseteq Nat
  BY CollectorConstants DEF CollectorInv, StageOK, Stages, Phases
<1>1. CASE Pass
  BY <1>0, <1>1, StayingKeeps DEF Pass
<1>2. CASE Prepare
  <2>1. CASE stage.remaining = 0
    BY <1>2, <2>1, PhaseKeeps DEF Prepare, In, Before
  <2>2. CASE stage.remaining # 0
    BY <1>2, <2>2, StayingKeeps DEF Prepare, Stay
  <2>. QED  BY <2>1, <2>2
<1>3. ASSUME NEW palm \in BOOLEAN, FirstPalm(palm)  PROVE CollectorInv'
  <2>1. CASE Enter(Begins("waiting_for_first_release", 0))
    BY <1>3, <2>1, PhaseKeeps DEF FirstPalm, In, Before
  <2>2. CASE Stay
    BY <1>3, <2>2, StayingKeeps DEF FirstPalm, Stay
  <2>. QED  BY <1>3, <2>1, <2>2 DEF FirstPalm
<1>4. ASSUME NEW palm \in BOOLEAN, ReleasePalm(palm)  PROVE CollectorInv'
  <2>1. CASE Enter(Begins("neutral", Neutral))
    BY <1>0, <1>4, <2>1, PhaseKeeps DEF ReleasePalm, In, Before
  <2>2. CASE Stay
    BY <1>4, <2>2, StayingKeeps DEF ReleasePalm, Stay
  <2>. QED  BY <1>4, <2>1, <2>2 DEF ReleasePalm
<1>5. ASSUME NEW palm \in BOOLEAN, BeNeutral(palm)  PROVE CollectorInv'
  <2>1. CASE stage.remaining = 0
    BY <1>5, <2>1, MeasuringKeeps
  <2>2. CASE stage.remaining # 0
    BY <1>5, <2>2, StayingKeeps DEF BeNeutral, Stay
  <2>. QED  BY <2>1, <2>2
<1>6. ASSUME NEW palm \in BOOLEAN, SaveFrame(palm)  PROVE CollectorInv'
  <2>1. CASE stage.remaining = 0
    BY <1>6, <2>1, PhaseKeeps DEF SaveFrame, In, After
  <2>2. CASE stage.remaining # 0
    BY <1>6, <2>2, SavingKeeps
  <2>. QED  BY <2>1, <2>2
<1>7. ASSUME NEW palm \in BOOLEAN, NextPalm(palm)  PROVE CollectorInv'
  <2>1. In("waiting_for_next_palm") /\ UNCHANGED <<measured, output>>
    BY <1>7 DEF NextPalm
  <2>2. Stay \/ (LastSegment /\ Enter(Begins("completed", 0))) \/ (~LastSegment /\ Enter(Advanced))
    BY <1>7 DEF NextPalm
  <2>3. CASE Stay
    BY <2>1, <2>3, StayingKeeps DEF Stay
  <2>4. CASE LastSegment /\ Enter(Begins("completed", 0))
    BY <2>1, <2>4, PhaseKeeps DEF In, After
  <2>5. CASE ~LastSegment /\ Enter(Advanced)
    BY <2>1, <2>5, AdvancingKeeps
  <2>. QED  BY <2>2, <2>3, <2>4, <2>5
<1>8. CASE Stop
  BY <1>8, PhaseKeeps DEF Stop
<1>9. CASE UNCHANGED collectorVars
  BY <1>9, StayingKeeps DEF collectorVars
<1>. QED  BY <1>1, <1>2, <1>3, <1>4, <1>5, <1>6, <1>7, <1>8, <1>9 DEF CollectorNext

LEMMA OrderFollows == CollectorInv => SegmentsInOrder
<1>. SUFFICES ASSUME CollectorInv PROVE SegmentsInOrder
  OBVIOUS
<1>1. Index(shown) = Index(stage) /\ Len(measured) \in Nat
  BY IndexOfSegment DEF CollectorInv, StageOK, Stages, Phases
<1>2. ~In("stopped") => Index(shown) - Len(measured) \in {0, 1}
  <2>1. ~In("stopped") => stage.phase \in Before \cup After
    BY DEF CollectorInv, StageOK, Stages, Phases, In
  <2>. QED  BY <1>1, <2>1 DEF CollectorInv, StageFollows
<1>3. In("completed") => Len(measured) = MotionTotal * Samples
  BY IndexEnds DEF CollectorInv, StageFollows, In, After, LastSegment
<1>. QED
  BY <1>2, <1>3 DEF CollectorInv, MeasuredInOrder, OutputInOrder, StatusCounts, SegmentsInOrder

\* The segments are measured and recorded in order, none is left out, and a run
\* that completes has measured all of them (collect_delimited_landmarks.py:485-526).
THEOREM CollectedInOrder == CollectorSpec => []SegmentsInOrder
  BY CollectorStarts, CollectorSteps, OrderFollows, PTL DEF CollectorSpec

-----------------------------------------------------------------------------
(* The palms of the collector *)

\* What the gate counts, the observer has counted for as long: a palm the gate has
\* seen, and every frame without it since.  The gate may have forgotten a palm the
\* observer still sees, as it is reset with the phase.
GateFollows ==
    gate.started # Never => /\ gate.absent = down
                            /\ up # Never
                            /\ gate.started <= up

\* Only a palm that was counted, and not lowered yet, waits for its release.
LoweredFollows ==
    lowered \/ stage.phase \in {"waiting_for_first_release", "waiting_for_next_release",
                                "completed", "stopped"}

PalmInv ==
    /\ gate \in [started : 0 .. Hold \cup {Never}, absent : 0 .. Release \cup {Never},
                 triggered : BOOLEAN]
    /\ up \in 0 .. Hold \cup {Never}
    /\ down \in 0 .. Release \cup {Never}
    /\ lowered \in BOOLEAN
    /\ GateFollows
    /\ LoweredFollows

LEMMA PalmStarts == CollectorInit => PalmInv
  BY CollectorConstants DEF CollectorInit, PalmInv, GateFollows, LoweredFollows, NoPalm

\* An age never passes the limit it is asked for.
LEMMA OlderBounded ==
    ASSUME NEW limit \in Nat \ {0}, NEW x \in 0 .. limit \cup {Never}
    PROVE  /\ Older(x, limit) \in 0 .. limit \cup {Never}
           /\ Older(x, limit) = Never <=> x = Never
           /\ Since(x) \in 0 .. limit
           /\ \A y \in 0 .. limit \cup {Never} :
                 x # Never /\ y # Never /\ x <= y => Older(x, limit) <= Older(y, limit)
  BY CollectorConstants DEF Older, Since

\* A gate that saw this frame still follows the observer of it.
LEMMA GateKeeps ==
    ASSUME PalmInv, NEW palm \in BOOLEAN, gate' = Gated(palm).gate \/ gate' = NoPalm,
           Observe(palm), lowered' \in BOOLEAN, LoweredFollows'
    PROVE  PalmInv'
<1>1. /\ Hold \in Nat \ {0} /\ Release \in Nat \ {0} /\ Never \notin Nat
      /\ gate.started \in 0 .. Hold \cup {Never} /\ gate.absent \in 0 .. Release \cup {Never}
      /\ gate.triggered \in BOOLEAN
      /\ gate = [started |-> gate.started, absent |-> gate.absent, triggered |-> gate.triggered]
  BY CollectorConstants DEF PalmInv
<1>2. Since(up) \in 0 .. Hold /\ Since(down) \in 0 .. Release /\ Since(gate.started) \in 0 .. Hold
  BY <1>1, OlderBounded DEF PalmInv
<1>3. up' \in 0 .. Hold \cup {Never} /\ down' \in 0 .. Release \cup {Never}
  BY <1>2 DEF Observe, PalmInv
<1>4. CASE gate' = NoPalm
  BY <1>1, <1>3, <1>4 DEF PalmInv, NoPalm, GateFollows
<1>5. CASE palm /\ gate' = Gated(palm).gate
  <2>1. /\ gate' = [started |-> Since(gate.started), absent |-> Never,
                    triggered |-> gate.triggered \/ Since(gate.started) >= Hold]
        /\ down' = Never /\ up' = Since(up)
    BY <1>5 DEF Gated, Shown, Observe
  <2>2. Since(gate.started) <= Since(up)
    BY <1>1, <1>2 DEF PalmInv, GateFollows, Since
  <2>3. GateFollows'
    BY <1>1, <1>2, <2>1, <2>2 DEF GateFollows
  <2>. QED  BY <1>1, <1>2, <1>3, <2>1, <2>3 DEF PalmInv
<1>6. CASE ~palm /\ gate' = Hidden(gate).gate /\ gate' # NoPalm
  <2>1. /\ down' = Since(down)
        /\ up' = IF Since(down) >= Release THEN Never ELSE up
    BY <1>6 DEF Observe, Away
  <2>2. CASE gate.started = Never
    BY <1>1, <1>3, <1>6, <2>2 DEF Hidden, PalmInv, GateFollows
  <2>3. CASE gate.started # Never
    <3>1. Since(gate.absent) = Since(down)
      BY <2>3 DEF PalmInv, GateFollows
    <3>2. Since(gate.absent) < Release /\ gate' = [gate EXCEPT !.absent = Since(gate.absent)]
      BY <1>6, <2>3 DEF Hidden
    <3>3. /\ gate'.started = gate.started /\ gate'.absent = down' /\ up' = up
          /\ gate'.triggered = gate.triggered
          /\ gate' = [started |-> gate.started, absent |-> down', triggered |-> gate.triggered]
      BY <1>1, <1>2, <2>1, <3>1, <3>2
    <3>4. GateFollows'
      BY <2>3, <3>3 DEF PalmInv, GateFollows
    <3>. QED  BY <1>1, <1>3, <3>3, <3>4 DEF PalmInv
  <2>. QED  BY <2>2, <2>3
<1>. QED  BY <1>4, <1>5, <1>6 DEF Gated

\* A palm is only counted when the observer saw it for as long.
LEMMA HeldIsUp ==
    ASSUME PalmInv, NEW palm \in BOOLEAN, Gated(palm).event = "held", Observe(palm)
    PROVE  up' = Hold
<1>1. palm /\ Since(gate.started) >= Hold
  BY DEF Gated, Shown, Hidden
<1>2. up' = Since(up) /\ Hold \in Nat \ {0} /\ Never \notin Nat
  BY <1>1, CollectorConstants DEF Observe
<1>3. gate.started # Never /\ gate.started = Hold
  BY <1>1, <1>2 DEF PalmInv, Since
<1>. QED  BY <1>2, <1>3 DEF PalmInv, GateFollows, Since

\* A palm is only released when the observer missed it for as long.
LEMMA ReleasedIsAway ==
    ASSUME PalmInv, NEW palm \in BOOLEAN, Gated(palm).event = "released"
    PROVE  Away(palm)
<1>1. ~palm /\ gate.started # Never /\ Since(gate.absent) \in 0 .. Release
      /\ ~(Since(gate.absent) < Release)
  <2>1. ~palm
    BY DEF Gated, Shown
  <2>2. Release \in Nat /\ Since(gate.absent) \in 0 .. Release
    BY CollectorConstants, OlderBounded DEF PalmInv
  <2>. QED  BY <2>1, <2>2 DEF Gated, Hidden
<1>2. Since(gate.absent) = Since(down)
  BY <1>1 DEF PalmInv, GateFollows
<1>. QED  BY <1>1, <1>2, CollectorConstants DEF Away

LEMMA PalmSteps ==
    ASSUME CollectorInv, PalmInv, [CollectorNext]_collectorVars
    PROVE  /\ PalmInv'
           /\ stage.phase \in {"waiting_for_first_palm", "waiting_for_next_palm"}
              /\ stage'.phase \notin {stage.phase, "stopped"} => lowered /\ up' = Hold
<1>. DEFINE Waits == stage.phase \in {"waiting_for_first_palm", "waiting_for_next_palm"}
            Counted == Waits /\ stage'.phase \notin {stage.phase, "stopped"}
                          => lowered /\ up' = Hold
<1>. SUFFICES PalmInv' /\ Counted
  OBVIOUS
<1>0. (Waits => lowered) /\ stage \in Stages
  BY DEF PalmInv, LoweredFollows, CollectorInv, StageOK
<1>1. CASE Pass
  <2>1. /\ Hold \in Nat \ {0} /\ Release \in Nat \ {0}
        /\ gate.started \in 0 .. Hold \cup {Never} /\ gate.absent \in 0 .. Release \cup {Never}
    BY CollectorConstants DEF PalmInv
  <2>2. /\ stage'.phase = stage.phase /\ lowered' = lowered
        /\ up' = Older(up, Hold) /\ down' = Older(down, Release)
        /\ gate' = [started |-> Older(gate.started, Hold),
                    absent |-> Older(gate.absent, Release), triggered |-> gate.triggered]
    BY <1>0, <1>1 DEF Pass, PalmInv, Stages
  <2>3. GateFollows'
    BY <2>1, <2>2, OlderBounded DEF PalmInv, GateFollows
  <2>4. PalmInv'
    BY <2>1, <2>2, <2>3, OlderBounded DEF PalmInv, LoweredFollows
  <2>. QED  BY <2>2, <2>4
<1>2. CASE Prepare
  BY <1>2, CollectorConstants DEF Prepare, PalmInv, GateFollows, LoweredFollows, In, Enter,
     Begins, Stay, NoPalm
<1>3. ASSUME NEW palm \in BOOLEAN, FirstPalm(palm) \/ NextPalm(palm)  PROVE PalmInv' /\ Counted
  <2>1. /\ gate' = Gated(palm).gate /\ Observe(palm) /\ Waits
        /\ lowered' = (Gated(palm).event # "held" /\ (lowered \/ Away(palm)))
    BY <1>3 DEF FirstPalm, NextPalm, In
  <2>2. CASE Gated(palm).event # "held"
    <3>1. stage' = stage /\ lowered' = TRUE
      BY <1>0, <1>3, <2>1, <2>2 DEF FirstPalm, NextPalm, Stay
    <3>2. PalmInv'
      BY <2>1, <3>1, GateKeeps DEF LoweredFollows
    <3>. QED  BY <3>1, <3>2
  <2>3. CASE Gated(palm).event = "held"
    <3>1. lowered' = FALSE
      BY <2>1, <2>3
    <3>2. stage'.phase \in {"waiting_for_first_release", "waiting_for_next_release", "completed"}
      BY <1>0, <1>3, <2>3 DEF FirstPalm, NextPalm, Enter, Begins, Advanced, Stages
    <3>3. PalmInv'
      BY <2>1, <3>1, <3>2, GateKeeps DEF LoweredFollows
    <3>. QED  BY <1>0, <2>1, <2>3, <3>3, HeldIsUp
  <2>. QED  BY <2>2, <2>3
<1>4. ASSUME NEW palm \in BOOLEAN, ReleasePalm(palm)  PROVE PalmInv' /\ Counted
  <2>1. /\ gate' = Gated(palm).gate /\ Observe(palm) /\ ~Waits
        /\ lowered' = (lowered \/ Away(palm))
    BY <1>4 DEF ReleasePalm, In
  <2>2. CASE Gated(palm).event = "released"
    BY <2>1, <2>2, ReleasedIsAway, GateKeeps DEF LoweredFollows
  <2>3. CASE Gated(palm).event # "released"
    <3>1. stage' = stage
      BY <1>4, <2>3 DEF ReleasePalm, Stay
    <3>. QED  BY <2>1, <3>1, GateKeeps DEF LoweredFollows, PalmInv, Away
  <2>. QED  BY <2>2, <2>3
<1>5. ASSUME NEW palm \in BOOLEAN, BeNeutral(palm) \/ SaveFrame(palm)  PROVE PalmInv' /\ Counted
  <2>1. /\ gate' = Gated(palm).gate \/ gate' = NoPalm
        /\ Observe(palm) /\ ~Waits /\ lowered' = (lowered \/ Away(palm))
    BY <1>5 DEF BeNeutral, SaveFrame, In
  <2>2. lowered
    BY <1>5 DEF BeNeutral, SaveFrame, In, PalmInv, LoweredFollows
  <2>. QED  BY <2>1, <2>2, GateKeeps DEF LoweredFollows
<1>6. CASE Stop
  BY <1>6 DEF Stop, Enter, Begins, PalmInv, GateFollows, LoweredFollows
<1>7. CASE UNCHANGED collectorVars
  BY <1>7 DEF collectorVars, PalmInv, GateFollows, LoweredFollows
<1>. QED  BY <1>1, <1>2, <1>3, <1>4, <1>5, <1>6, <1>7 DEF CollectorNext

\* Every step to another segment takes a palm of its own, held for its time after
\* the last one was lowered for its time, whatever frames the detector misses
\* (collect_delimited_landmarks.py:156-178).
THEOREM PalmsCountedOnce == CollectorSpec => PalmsCountOnce
<1>. DEFINE A == stage.phase \in {"waiting_for_first_palm", "waiting_for_next_palm"}
                    /\ stage'.phase \notin {stage.phase, "stopped"} => lowered /\ up' = Hold
<1>1. CollectorInv /\ PalmInv /\ [CollectorNext]_collectorVars => PalmInv' /\ A
  BY PalmSteps
<1>2. PalmsCountOnce <=> [][A]_collectorVars
  BY DEF PalmsCountOnce
<1>. HIDE DEF A
<1>. QED  BY <1>1, <1>2, PalmStarts, CollectorStarts, CollectorSteps, PTL DEF CollectorSpec
===============================================================================
