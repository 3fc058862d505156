----------------------------- MODULE FrameSource -----------------------------
(***************************************************************************)
(* A camera read by a background thread, and the buffer that holds only    *)
(* its newest frame: MjpegFrameSource, OpenCvFrameSource and               *)
(* LatestFrameStore (recognition/.../stream).                              *)
(*                                                                         *)
(* The reader's steps are the parts of _run between two points where       *)
(* another thread can act: a lock, the stop event, or a call that blocks.  *)
(* Time is not modelled: a wait may end at any moment, and a connection    *)
(* may be stale whenever it is asked.                                      *)
(***************************************************************************)
EXTENDS Naturals, FiniteSets

CONSTANTS
    None,
    InitialBackoff, MaxBackoff,
    MaxBurst,        \* images a chunk of the stream may complete
    MaxFrames,       \* bound: frames received
    MaxReconnects    \* bound: failures before the source is stopped

ASSUME SourceConstants ==
    /\ {InitialBackoff, MaxBackoff, MaxBurst} \subseteq Nat \ {0}
    /\ MaxBackoff >= InitialBackoff
    /\ {MaxFrames, MaxReconnects} \subseteq Nat

VARIABLES
    kind,       \* "mjpeg" or "webcam"
    reader,     \* the thread: where it is, its backoff, capture and pending images
    stopEvent,
    status,     \* what get_status reads
    sequence,   \* of the newest frame in the buffer
    open        \* streams and captures that hold the camera

sourceVars == <<kind, reader, stopEvent, status, sequence, open>>

NoReader == [pc |-> "none", backoff |-> InitialBackoff, capture |-> None, burst |-> 0]

NewStatus(state) ==
    [state |-> state, retry |-> FALSE, error |-> FALSE, received |-> 0, reconnects |-> 0]

SourceInit ==
    /\ kind \in {"mjpeg", "webcam"}
    /\ reader = NoReader
    /\ stopEvent = FALSE
    /\ status = NewStatus("STOPPED")
    /\ sequence = 0
    /\ open = {}

At(pc) == reader.pc = pc
Go(pc) == reader' = [reader EXCEPT !.pc = pc]

-----------------------------------------------------------------------------
(* Status *)

Calm(s, state) == [s EXCEPT !.state = state, !.retry = FALSE, !.error = FALSE]

\* Mutant of Connected: the error of the last connection stays.
Connected_Error(s) == [s EXCEPT !.state = "CONNECTED", !.retry = FALSE]

Connected(s) == Calm(s, "CONNECTED")
Stopped(s) == Calm(s, "STOPPED")

Attempting(s) ==
    [s EXCEPT !.state = IF s.reconnects > 0 THEN "RECONNECTING" ELSE "CONNECTING", !.retry = FALSE]

Lost(s) ==
    [s EXCEPT !.state = "RECONNECTING", !.error = TRUE, !.retry = TRUE, !.reconnects = @ + 1]

Received(s) == [s EXCEPT !.state = "CONNECTED", !.received = @ + 1]

\* The states get_status may report.
Reported == IF status.state = "CONNECTED" THEN {"CONNECTED", "STALE"} ELSE {status.state}

-----------------------------------------------------------------------------
(* The reader *)

\* Mutant of Top: the thread looks for a stop only while it reads.
Top_Forever ==
    /\ At("top")
    /\ Go("opening")
    /\ status' = IF kind = "mjpeg" THEN Attempting(status) ELSE status
    /\ UNCHANGED <<kind, stopEvent, sequence, open>>

\* The head of the loop; only the MJPEG reader announces the attempt.
Top ==
    /\ At("top")
    /\ IF stopEvent THEN Go("ended") /\ UNCHANGED status
       ELSE /\ Go("opening")
            /\ status' = IF kind = "mjpeg" THEN Attempting(status) ELSE status
    /\ UNCHANGED <<kind, stopEvent, sequence, open>>

\* The stream answers, or the device has a capture that may still not be open.
Open ==
    /\ At("opening")
    /\ open' = open \cup {status.reconnects}
    /\ IF kind = "mjpeg"
       THEN /\ reader' = [reader EXCEPT !.pc = "reading", !.backoff = InitialBackoff,
                                        !.capture = status.reconnects]
            /\ status' = Connected(status)
       ELSE /\ reader' = [reader EXCEPT !.pc = "opened", !.capture = status.reconnects]
            /\ UNCHANGED status
    /\ UNCHANGED <<kind, stopEvent, sequence>>

\* A capture that stop has released is not open any more.
Configure ==
    /\ At("opened") /\ reader.capture \in open
    /\ reader' = [reader EXCEPT !.pc = "reading", !.backoff = InitialBackoff]
    /\ status' = Connected(status)
    /\ UNCHANGED <<kind, stopEvent, sequence, open>>

\* Any of the calls fails; leaving the with statement closes a stream.
Fail ==
    /\ At("opening") \/ At("opened") \/ (At("reading") /\ kind = "mjpeg") \/ At("grabbing")
    /\ stopEvent \/ status.reconnects < MaxReconnects
    /\ IF kind = "mjpeg"
       THEN reader' = [reader EXCEPT !.pc = "failed", !.capture = None]
            /\ open' = open \ {reader.capture}
       ELSE Go("failed") /\ UNCHANGED open
    /\ UNCHANGED <<kind, stopEvent, status, sequence>>

\* The webcam reader looks for a stop before it waits for the next image.
AwaitImage ==
    /\ At("reading") /\ kind = "webcam"
    /\ Go(IF stopEvent THEN "leaving" ELSE "grabbing")
    /\ UNCHANGED <<kind, stopEvent, status, sequence, open>>

\* A chunk of the stream completes some images, whatever boundaries it has.
Chunk ==
    /\ At("reading") /\ kind = "mjpeg"
    /\ \E n \in 1 .. MaxBurst :
          /\ sequence + n <= MaxFrames
          /\ reader' = [reader EXCEPT !.pc = "yielding", !.burst = n]
    /\ UNCHANGED <<kind, stopEvent, status, sequence, open>>

Put == sequence' = sequence + 1

\* An image of the webcam is normalised, encoded and buffered.
Grab ==
    /\ At("grabbing") /\ reader.capture \in open
    /\ sequence < MaxFrames
    /\ Put
    /\ Go("recording")
    /\ UNCHANGED <<kind, stopEvent, status, open>>

\* The MJPEG reader looks for a stop before every image of a chunk.
Yield ==
    /\ At("yielding")
    /\ IF stopEvent
       THEN /\ reader' = [reader EXCEPT !.pc = "ended", !.capture = None, !.burst = 0]
            /\ open' = open \ {reader.capture}
            /\ UNCHANGED sequence
       ELSE Put /\ Go("recording") /\ UNCHANGED open
    /\ UNCHANGED <<kind, stopEvent, status>>

Record ==
    /\ At("recording")
    /\ status' = Received(status)
    /\ LET n == IF kind = "mjpeg" THEN reader.burst - 1 ELSE 0
       IN reader' = [reader EXCEPT !.pc = IF n > 0 THEN "yielding" ELSE "reading", !.burst = n]
    /\ UNCHANGED <<kind, stopEvent, sequence, open>>

\* A failure ends the thread after a stop, and is counted and waited out before.
GiveUp ==
    /\ At("failed") /\ stopEvent
    /\ Go(IF kind = "mjpeg" THEN "ended" ELSE "leaving")
    /\ UNCHANGED <<kind, stopEvent, status, sequence, open>>

Retry ==
    /\ At("failed") /\ ~stopEvent
    /\ status' = Lost(status)
    /\ Go("backoff")
    /\ UNCHANGED <<kind, stopEvent, sequence, open>>

\* Mutant of Doubled: the wait is not limited.
Doubled_Unlimited(backoff) == 2 * backoff

Doubled(backoff) == IF 2 * backoff > MaxBackoff THEN MaxBackoff ELSE 2 * backoff

Waited ==
    /\ At("backoff")
    /\ reader' = [reader EXCEPT !.pc = IF kind = "mjpeg" THEN "top" ELSE "leaving",
                                !.backoff = Doubled(@)]
    /\ UNCHANGED <<kind, stopEvent, status, sequence, open>>

\* Mutant of Leave: the capture of a device that failed is kept.
Leave_Kept ==
    /\ At("leaving")
    /\ reader' = [reader EXCEPT !.pc = "top", !.capture = None]
    /\ UNCHANGED <<kind, stopEvent, status, sequence, open>>

\* The webcam's finally: the capture is released, after the wait.
Leave ==
    /\ At("leaving")
    /\ reader' = [reader EXCEPT !.pc = "top", !.capture = None]
    /\ open' = open \ {reader.capture}
    /\ UNCHANGED <<kind, stopEvent, status, sequence>>

ReaderNext ==
    \/ Top \/ Open \/ Configure \/ Fail \/ AwaitImage \/ Chunk \/ Grab
    \/ Yield \/ Record \/ GiveUp \/ Retry \/ Waited \/ Leave

-----------------------------------------------------------------------------
(* What the program's own thread calls *)

StartSource ==
    /\ status' = NewStatus("CONNECTING")
    /\ stopEvent' = FALSE
    /\ reader' = [NoReader EXCEPT !.pc = "top"]
    /\ UNCHANGED <<kind, sequence, open>>

SignalStop ==
    /\ stopEvent' = TRUE
    /\ UNCHANGED <<kind, reader, status, sequence, open>>

\* stop takes the camera away from a webcam reader that may be waiting for it.
ReleaseCapture ==
    /\ open' = IF kind = "webcam" THEN open \ {reader.capture} ELSE open
    /\ UNCHANGED <<kind, reader, stopEvent, status, sequence>>

\* The thread may be in a call that blocks for longer than stop waits.
Blocked == At("opening") \/ (At("reading") /\ kind = "mjpeg") \/ At("grabbing")

JoinSource ==
    /\ At("ended") \/ Blocked
    /\ status' = Stopped(status)
    /\ UNCHANGED <<kind, reader, stopEvent, sequence, open>>

ReadLatest(after) == IF sequence > after THEN sequence ELSE None

-----------------------------------------------------------------------------
(* Properties of the source *)

Streaming == At("reading") \/ At("grabbing") \/ At("yielding") \/ At("recording")

SourceTypeOK ==
    /\ reader.backoff \in InitialBackoff .. MaxBackoff
    /\ reader.burst > 0 => kind = "mjpeg" /\ (At("yielding") \/ At("recording"))
    /\ sequence \in 0 .. MaxFrames
    /\ status.reconnects \in 0 .. MaxReconnects
    /\ status.received = sequence - (IF At("recording") THEN 1 ELSE 0)

\* Before a stop the status is what the reader is doing: CONNECTED as long as it
\* reads, and an error or a retry is shown only while the camera is lost
\* (stream/mjpeg.py:279-308, recognition/README.md:234-240).
StatusIsHonest ==
    /\ ~stopEvent => /\ Streaming => status.state = "CONNECTED"
                     /\ status.state = "CONNECTED" => Streaming \/ At("failed")
                     /\ status.state = "STOPPED" => At("none")
    /\ status.retry => status.error
    /\ status.error => status.state = "RECONNECTING"

\* The camera is opened once at a time, whatever fails, and a thread that has
\* ended leaves nothing open (stream/webcam.py:286-291, mjpeg.py:240).
OneCapture ==
    /\ Cardinality(open) <= 1
    /\ At("ended") => open = {}
=============================================================================
