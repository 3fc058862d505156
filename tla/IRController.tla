---------------------------- MODULE IRController ----------------------------
(***************************************************************************)
(* The infrared controller and the backend's client of it                  *)
(* (backend/internal/executor/ir.go).  The client sends one request at a   *)
(* time, holding operationMu until the answer or the request timeout, and  *)
(* remembers until when it believes the controller to be learning.  The    *)
(* controller is an ESP32 with a clock of its own; it is modelled from     *)
(* what the client asks of it and expects back.                            *)
(*                                                                         *)
(* A call is two steps: the controller handles the request, or never gets  *)
(* it; later its answer reaches the client, or is lost.  A request that is *)
(* lost, refused with 409, answered 5xx or timed out is one answer,        *)
(* "fails".  A signal is its capture id and whether ValidateIRSignal and   *)
(* the repeat filter would let it through.                                 *)
(***************************************************************************)
EXTENDS Integers, FiniteSets

CONSTANTS
    Clients,       \* concurrent requests to the backend
    LearnTime,     \* learning timeout, the same for every session
    AnswersWith408,\* TRUE: the controller answers a timed out learning with 408
    MaxTime,       \* bound: clock
    MaxCaptures    \* bound: signals the controller captures

ASSUME ControllerConstants ==
    /\ IsFiniteSet(Clients)
    /\ LearnTime \in Nat \ {0}
    /\ AnswersWith408 \in BOOLEAN
    /\ MaxTime \in Nat /\ MaxCaptures \in Nat

VARIABLES
    now,     \* wall clock
    device,  \* mode, deadline of the learning mode, last captured signal
    until,   \* learningUntil while the flag learning is set, 0 otherwise
    call     \* the request every client's goroutine has at the controller

controllerVars == <<now, device, until, call>>

\* A test signal is sent under the same guards as a learned one.
Ops == {"start", "status", "stop", "send"}
Answers == {"ok", "learning", "captured", "idle", "timeout", "expired",
            "error", "fails"}
NoCall == [op |-> "none", answer |-> "none"]

ControllerTypeOK ==
    /\ now \in 0 .. MaxTime
    /\ device \in [mode : {"idle", "learning", "captured", "timeout"},
                   deadline : Nat, capture : 0 .. MaxCaptures,
                   usable : BOOLEAN, last : 0 .. MaxCaptures]
    /\ until \in Nat
    /\ call \in [Clients -> {NoCall} \cup [op : Ops, answer : Answers]]

ControllerInit ==
    /\ now = 0
    /\ device = [mode |-> "idle", deadline |-> 0, capture |-> 0,
                 usable |-> FALSE, last |-> 0]
    /\ until = 0
    /\ call = [c \in Clients |-> NoCall]

\* learningActiveLocked: the flag lapses by itself at learningUntil.
LearningActive == now < until

-----------------------------------------------------------------------------
(* The controller *)

\* A start discards the capture of the session before.
DeviceStarts(answer) ==
    /\ device.mode # "learning"
    /\ device' = [device EXCEPT !.mode = "learning", !.deadline = now + LearnTime,
                                !.capture = 0]
    /\ answer = "ok"

\* An internal error ends the learning mode and is reported as a state.
DeviceReports(answer) ==
    \/ /\ UNCHANGED device
       /\ answer = IF device.mode # "timeout" THEN device.mode
                   ELSE IF AnswersWith408 THEN "expired" ELSE "timeout"
    \/ /\ device' = [device EXCEPT !.mode = "idle"]
       /\ answer = "error"

\* Stopping is idempotent; the capture stays until the next start.
DeviceStops(answer) ==
    /\ device' = [device EXCEPT !.mode = "idle"]
    /\ answer = "ok"

DeviceSends(answer) ==
    /\ device.mode # "learning"
    /\ UNCHANGED device
    /\ answer = "ok"

DeviceHandles(op, answer) ==
    CASE op = "start" -> DeviceStarts(answer)
      [] op = "status" -> DeviceReports(answer)
      [] op = "stop" -> DeviceStops(answer)
      [] OTHER -> DeviceSends(answer)

\* One-shot reception.
DeviceCaptures ==
    /\ device.mode = "learning"
    /\ device.last < MaxCaptures
    /\ \E u \in BOOLEAN :
          device' = [device EXCEPT !.mode = "captured", !.capture = device.last + 1,
                                   !.last = @ + 1, !.usable = u]
    /\ UNCHANGED <<now, until, call>>

DeviceTimesOut ==
    /\ device.mode = "learning" /\ now >= device.deadline
    /\ device' = [device EXCEPT !.mode = "timeout"]
    /\ UNCHANGED <<now, until, call>>

DeviceGoesIdle ==
    /\ device.mode = "timeout"
    /\ device' = [device EXCEPT !.mode = "idle"]
    /\ UNCHANGED <<now, until, call>>

-----------------------------------------------------------------------------
(* The client *)

OperationFree == \A c \in Clients : call[c] = NoCall

\* Sending and starting are refused without a request while the flag is set.
Busy(op) == op \in {"start", "send"} /\ LearningActive

Request(c, op) ==
    /\ OperationFree /\ ~Busy(op)
    /\ \E answer \in Answers :
          /\ \/ DeviceHandles(op, answer)
             \/ answer = "fails" /\ UNCHANGED device
             \/ answer = "fails" /\ \E a \in Answers : DeviceHandles(op, a)
          /\ call' = [call EXCEPT ![c] = [op |-> op, answer |-> answer]]
    /\ UNCHANGED <<now, until>>

\* Mutants: any answer to a status request clears the flag; a stop clears it
\* only when it succeeds.
Learned_AnyStatus(op, answer) ==
    until' = CASE op = "start" /\ answer = "ok" -> now + LearnTime
               [] op \in {"stop", "status"} -> 0
               [] OTHER -> until

Learned_GoodStop(op, answer) ==
    until' = CASE op = "start" /\ answer = "ok" -> now + LearnTime
               [] op = "stop" /\ answer = "ok" -> 0
               [] op = "status" /\ answer \in {"captured", "idle", "timeout", "error"} -> 0
               [] OTHER -> until

\* What the client learns about the learning mode from the end of a call:
\* a stop clears the flag whatever comes back, a failed status keeps it.
Learned(op, answer) ==
    until' = CASE op = "start" /\ answer = "ok" -> now + LearnTime
               [] op = "stop" -> 0
               [] op = "status" /\ answer \in {"captured", "idle", "timeout", "error"} -> 0
               [] OTHER -> until

Answered(c) ==
    /\ call[c] # NoCall
    /\ Learned(call[c].op, call[c].answer)
    /\ call' = [call EXCEPT ![c] = NoCall]
    /\ UNCHANGED <<now, device>>

TimePasses ==
    /\ now < MaxTime
    /\ now' = now + 1
    /\ UNCHANGED <<device, until, call>>

Controller == DeviceCaptures \/ DeviceTimesOut \/ DeviceGoesIdle \/ TimePasses
=============================================================================
