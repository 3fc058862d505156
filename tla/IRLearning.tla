----------------------------- MODULE IRLearning -----------------------------
(***************************************************************************)
(* Learning an infrared button (backend/internal/service/ir.go): one       *)
(* learning session for the whole backend, kept in memory under irMu, over *)
(* the controller of IRController.  A request to start, poll, confirm or   *)
(* stop a session holds irMu from its first look at the session to its     *)
(* end, the controller's answer times included; requests that send a       *)
(* signal take no part in irMu and meet the others at the controller only. *)
(*                                                                         *)
(* A request whose appliance or arguments are refused, and a confirmation  *)
(* the database cannot list the actions for, ends without effect and is    *)
(* left out.  The map irSessions never holds a session besides the active  *)
(* one and is folded into it.                                              *)
(***************************************************************************)
EXTENDS IRController

CONSTANTS
    Nobody,         \* no client
    Appliances, Names,
    DatabaseFails,  \* TRUE: CreateAction may fail, or commit and report failure
    DirectCreates,  \* TRUE: actions are created by POST /api/actions too
    MaxSessions,    \* bound: sessions started
    MaxRestarts     \* bound: backend restarts

ASSUME LearningConstants ==
    /\ Nobody \notin Clients
    /\ DatabaseFails \in BOOLEAN /\ DirectCreates \in BOOLEAN
    /\ MaxSessions \in Nat /\ MaxRestarts \in Nat

VARIABLES
    irMu,         \* client that holds the mutex of the sessions
    session,      \* the active session, NoSession when there is none
    req,          \* request every client makes
    irActions,    \* stored infrared actions; row 0: any number of equal rows
    lastSession,  \* session ids handed out
    restarts

learningVars == <<irMu, session, req, irActions, lastSession, restarts>>
vars == <<controllerVars, learningVars>>

SessionIds == 0 .. MaxSessions  \* 0: none
Captures == 0 .. MaxCaptures    \* 0: none

NoSession == [id |-> 0]

Kinds == {"start", "status", "confirm", "stop", "send"}
Pcs == {"wait", "replace", "start", "poll", "captured", "expire", "store", "stop"}

NoRequest == [pc |-> "idle", kind |-> "none"]
RequestsOf(kind) == [pc : Pcs, kind : {kind}, appliance : Appliances, id : SessionIds,
                   capture : Captures, name : Names]

LearningTypeOK ==
    /\ ControllerTypeOK
    /\ irMu \in Clients \cup {Nobody}
    /\ session \in {NoSession} \cup
         [id : SessionIds \ {0}, appliance : Appliances,
          state : {"learning", "captured"}, expires : Nat, capture : Captures]
    /\ req \in [Clients -> {NoRequest} \cup UNION {RequestsOf(k) : k \in Kinds}]
    /\ irActions \subseteq [row : Nat, appliance : Appliances, name : Names,
                            session : SessionIds, capture : Captures]
    /\ lastSession \in SessionIds
    /\ restarts \in 0 .. MaxRestarts

Init ==
    /\ ControllerInit
    /\ irMu = Nobody
    /\ session = NoSession
    /\ req = [c \in Clients |-> NoRequest]
    /\ irActions = {}
    /\ lastSession = 0
    /\ restarts = 0

Active == session # NoSession
Expired == now >= session.expires
Own(c) == Active /\ session.appliance = req[c].appliance

At(c, pc) == req[c].pc = pc

\* Mutant: a request ends and keeps irMu.
Finish_Holding(c) ==
    /\ req' = [req EXCEPT ![c] = NoRequest]
    /\ UNCHANGED irMu

\* irMu is released when its holder ends.
Finish(c) ==
    /\ req' = [req EXCEPT ![c] = NoRequest]
    /\ irMu' = IF irMu = c THEN Nobody ELSE irMu

GoesTo(c, pc) ==
    /\ req' = [req EXCEPT ![c].pc = pc]
    /\ irMu' = c

-----------------------------------------------------------------------------
(* Requests arrive and take irMu *)

Starting == Cardinality({c \in Clients : req[c].kind = "start"})

Arrive(c) ==
    /\ req[c] = NoRequest
    /\ \E kind \in Kinds, a \in Appliances, id \in 0 .. lastSession,
          cap \in 0 .. device.last, n \in Names :
         /\ kind \notin {"confirm", "stop"} => id = 0
         /\ kind # "confirm" => cap = 0 /\ n = CHOOSE m \in Names : TRUE
         /\ kind = "confirm" => id # 0 /\ cap # 0
         /\ kind = "start" => lastSession + Starting < MaxSessions
         /\ req' = [req EXCEPT ![c] = [pc |-> "wait", kind |-> kind, appliance |-> a,
                                       id |-> id, capture |-> cap, name |-> n]]
    /\ UNCHANGED <<controllerVars, irMu, session, irActions, lastSession, restarts>>

Enters(c, kind) ==
    /\ At(c, "wait") /\ req[c].kind = kind
    /\ irMu = Nobody
    /\ UNCHANGED <<controllerVars, session, irActions, lastSession, restarts>>

\* Mutant: an expired session is left in place until the new one is there.
EnterStart_KeepsExpired(c) ==
    /\ Enters(c, "start")
    /\ IF Active /\ ~Expired THEN Finish(c) ELSE GoesTo(c, "start")

\* An expired session is stopped and replaced, a live one is in the way.
EnterStart(c) ==
    /\ Enters(c, "start")
    /\ IF Active
       THEN IF Expired THEN GoesTo(c, "replace") ELSE Finish(c)
       ELSE GoesTo(c, "start")

EnterStatus(c) ==
    /\ Enters(c, "status")
    /\ IF ~Own(c) THEN Finish(c)
       ELSE IF Expired THEN GoesTo(c, "expire")
       ELSE IF session.state = "captured" THEN Finish(c)
       ELSE GoesTo(c, "poll")

NameTaken(a, n) == \E x \in irActions : x.appliance = a /\ x.name = n

\* Mutant: the names of the appliance are not looked at.
EnterConfirm_AnyName(c) ==
    /\ Enters(c, "confirm")
    /\ IF ~Own(c) \/ session.id # req[c].id THEN Finish(c)
       ELSE IF Expired THEN GoesTo(c, "expire")
       ELSE IF session.state # "captured" \/ session.capture # req[c].capture
       THEN Finish(c)
       ELSE GoesTo(c, "store")

EnterConfirm(c) ==
    /\ Enters(c, "confirm")
    /\ IF ~Own(c) \/ session.id # req[c].id THEN Finish(c)
       ELSE IF Expired THEN GoesTo(c, "expire")
       ELSE IF \/ session.state # "captured"
               \/ session.capture # req[c].capture
               \/ NameTaken(req[c].appliance, req[c].name)
       THEN Finish(c)
       ELSE GoesTo(c, "store")

EnterStop(c) ==
    /\ Enters(c, "stop")
    /\ IF ~Own(c) \/ req[c].id \notin {0, session.id} THEN Finish(c)
       ELSE GoesTo(c, "stop")

-----------------------------------------------------------------------------
(* Calls to the controller *)

Needs(c) ==
    CASE req[c].pc \in {"replace", "expire", "captured", "stop"} -> "stop"
      [] At(c, "start") -> "start"
      [] At(c, "poll") -> "status"
      [] At(c, "wait") /\ req[c].kind = "send" -> "send"
      [] OTHER -> "none"

CallController(c) ==
    /\ Needs(c) # "none"
    /\ Request(c, Needs(c))
    /\ UNCHANGED learningVars

\* ErrIRBusy.
RefusedAsBusy(c) ==
    /\ Busy(Needs(c)) /\ OperationFree
    /\ Finish(c)
    /\ UNCHANGED <<controllerVars, session, irActions, lastSession, restarts>>

\* Whatever the stop answered, the session it was for is gone.
ReturnReplaced(c) ==
    /\ At(c, "replace") /\ Answered(c)
    /\ session' = NoSession
    /\ GoesTo(c, "start")
    /\ UNCHANGED <<irActions, lastSession, restarts>>

ReturnStopped(c) ==
    /\ req[c].pc \in {"expire", "stop"} /\ Answered(c)
    /\ session' = NoSession
    /\ Finish(c)
    /\ UNCHANGED <<irActions, lastSession, restarts>>

ReturnStarted(c) ==
    /\ At(c, "start") /\ Answered(c)
    /\ IF call[c].answer = "ok"
       THEN /\ lastSession' = lastSession + 1
            /\ session' = [id |-> lastSession + 1, appliance |-> req[c].appliance,
                           state |-> "learning", expires |-> now + LearnTime,
                           capture |-> 0]
       ELSE UNCHANGED <<lastSession, session>>
    /\ Finish(c)
    /\ UNCHANGED <<irActions, restarts>>

\* Mutant: a learning that timed out stays the active session.
ReturnPolled_KeepsSession(c) ==
    /\ At(c, "poll") /\ Answered(c)
    /\ \/ /\ call[c].answer \in {"expired", "timeout", "idle"}
          /\ session' = [session EXCEPT !.state = call[c].answer]
          /\ Finish(c)
       \/ /\ call[c].answer = "captured" /\ device.usable
          /\ session' = [session EXCEPT !.capture = device.capture, !.state = "captured"]
          /\ GoesTo(c, "captured")
       \/ /\ \/ call[c].answer \in {"fails", "learning", "error"}
             \/ call[c].answer = "captured" /\ ~device.usable
          /\ UNCHANGED session
          /\ Finish(c)
    /\ UNCHANGED <<irActions, lastSession, restarts>>

\* A capture that is a repeat or not a valid signal leaves the session learning.
ReturnPolled(c) ==
    /\ At(c, "poll") /\ Answered(c)
    /\ \/ /\ call[c].answer \in {"expired", "timeout", "idle"}
          /\ session' = NoSession
          /\ Finish(c)
       \/ /\ call[c].answer = "captured" /\ device.usable
          /\ session' = [session EXCEPT !.capture = device.capture, !.state = "captured"]
          /\ GoesTo(c, "captured")
       \/ /\ \/ call[c].answer \in {"fails", "learning", "error"}
             \/ call[c].answer = "captured" /\ ~device.usable
          /\ UNCHANGED session
          /\ Finish(c)
    /\ UNCHANGED <<irActions, lastSession, restarts>>

\* A failed stop is an error to the caller, but the capture is kept.
ReturnCaptured(c) ==
    /\ At(c, "captured") /\ Answered(c)
    /\ Finish(c)
    /\ UNCHANGED <<session, irActions, lastSession, restarts>>

ReturnSent(c) ==
    /\ At(c, "wait") /\ Answered(c)
    /\ Finish(c)
    /\ UNCHANGED <<session, irActions, lastSession, restarts>>

-----------------------------------------------------------------------------
(* Storing the action of a confirmed capture *)

Saved(c) == [row |-> Cardinality({x \in irActions : x.session # 0}) + 1,
             appliance |-> req[c].appliance, name |-> req[c].name,
             session |-> session.id, capture |-> session.capture]

StoreAction(c) ==
    /\ At(c, "store")
    /\ irActions' = irActions \cup {Saved(c)}
    /\ session' = NoSession
    /\ Finish(c)
    /\ UNCHANGED <<controllerVars, lastSession, restarts>>

\* The session survives an error, also that of a transaction that committed.
StoreFails(c) ==
    /\ At(c, "store") /\ DatabaseFails
    /\ irActions' \in {irActions, irActions \cup {Saved(c)}}
    /\ Finish(c)
    /\ UNCHANGED <<controllerVars, session, lastSession, restarts>>

DirectCreate ==
    /\ DirectCreates
    /\ \E a \in Appliances, n \in Names :
          irActions' = irActions \cup {[row |-> 0, appliance |-> a, name |-> n,
                                        session |-> 0, capture |-> 0]}
    /\ UNCHANGED <<controllerVars, irMu, session, req, lastSession, restarts>>

\* The session lives in the memory of the backend, the controller lives on.
Restart ==
    /\ restarts < MaxRestarts
    /\ restarts' = restarts + 1
    /\ irMu' = Nobody
    /\ session' = NoSession
    /\ req' = [c \in Clients |-> NoRequest]
    /\ call' = [c \in Clients |-> NoCall]
    /\ until' = 0
    /\ UNCHANGED <<now, device, irActions, lastSession>>

Enter(c) == EnterStart(c) \/ EnterStatus(c) \/ EnterConfirm(c) \/ EnterStop(c)

Return(c) ==
    \/ ReturnReplaced(c)
    \/ ReturnStopped(c)
    \/ ReturnStarted(c)
    \/ ReturnPolled(c)
    \/ ReturnCaptured(c)
    \/ ReturnSent(c)

Serve(c) ==
    \/ Enter(c)
    \/ CallController(c)
    \/ RefusedAsBusy(c)
    \/ Return(c)
    \/ StoreAction(c)
    \/ StoreFails(c)

Environment == Controller /\ UNCHANGED learningVars

Next ==
    \/ \E c \in Clients : Arrive(c) \/ Serve(c)
    \/ Environment
    \/ DirectCreate
    \/ Restart

Spec == Init /\ [][Next]_vars

-----------------------------------------------------------------------------
(* Properties *)

\* While a session waits and the controller does learn, the backend holds
\* commands back itself (executor/ir_test.go:51).
WaitingIsFlagged ==
    Active /\ session.state = "learning" /\ device.mode = "learning" /\ ~Expired =>
        LearningActive \/ \E c \in Clients : call[c].op = "stop"

\* A captured session holds the signal of its own learning, never one the
\* controller kept from a session before, so no capture becomes a button of two
\* sessions (service/ir.go:68-78).
CaptureIsCurrent ==
    /\ Active /\ session.capture # 0 => session.capture = device.capture
    /\ \A x, y \in irActions :
          x.capture = y.capture /\ x.capture # 0 => x.session = y.session

\* Two confirmations never give an appliance two buttons of one name
\* (docs/frontend-ir-api-specification.md:294), through retries too.
ConfirmedNamesUnique ==
    \A x, y \in irActions :
        /\ x.session # 0 /\ y.session # 0
        /\ x.appliance = y.appliance /\ x.name = y.name
        => x = y

\* Without a session or a request at work, nothing keeps commands and the next
\* learning away from the controller: a learning that timed out can be retried
\* (docs/esp32-ir-http-contract.md:312 promises it for 408 and for 200).
FreeWithoutSession == ~Active /\ irMu = Nobody => ~LearningActive

\* A confirmation never stores a name that is taken on its appliance
\* (docs/frontend-ir-api-specification.md:294).
TakenNameRefused ==
    [][\A x \in irActions' \ irActions :
          x.session # 0 => ~NameTaken(x.appliance, x.name)]_vars

\* What a request waits for is there: irMu, the controller, or its answer.
CanServe(c) ==
    \/ At(c, "wait") /\ req[c].kind # "send" /\ irMu = Nobody
    \/ Needs(c) # "none" /\ OperationFree
    \/ Needs(c) # "none" /\ call[c] # NoCall /\ (At(c, "poll") => call[c].answer # "ok")
    \/ At(c, "store")

\* Requests that wait for irMu, for operationMu or for the controller never all
\* wait for each other (service/ir.go:68, executor/ir.go:196).
SomeRequestMoves ==
    /\ (\E c \in Clients : req[c] # NoRequest) => \E c \in Clients : CanServe(c)
    /\ \A c \in Clients : CanServe(c) => ENABLED Serve(c)
=============================================================================
