-------------------------- MODULE IRLearningProofs --------------------------
(* Learning an infrared button, for any number of clients, appliances,       *)
(* sessions, captures and restarts.                                          *)
EXTENDS IRLearning, FiniteSetTheorems, TLAPS

Holding(c) == req[c].pc \in Pcs \ {"wait"}

\* A client is idle, waits to be served, or goes through the steps of its kind.
StepsOf(kind) == CASE kind = "start" -> {"replace", "start"}
                   [] kind = "status" -> {"poll", "captured", "expire"}
                   [] kind = "confirm" -> {"expire", "store"}
                   [] kind = "stop" -> {"stop"}
                   [] OTHER -> {}

RequestsFollow ==
    \A c \in Clients : Holding(c) => req[c].pc \in StepsOf(req[c].kind)

Started == {c \in Clients : req[c].kind = "start"}

RequestOK ==
    /\ ControllerTypeOK
    /\ irMu \in Clients \cup {Nobody}
    /\ req \in [Clients -> {NoRequest} \cup UNION {RequestsOf(k) : k \in Kinds}]
    /\ lastSession \in Nat /\ lastSession + Cardinality(Started) =< MaxSessions
    /\ restarts \in 0 .. MaxRestarts
    /\ RequestsFollow

HolderWorks == \A c \in Clients : irMu = c <=> Holding(c)

OneCall ==
    /\ \A c \in Clients : call[c] # NoCall => call[c].op \in Ops /\ call[c].op = Needs(c)
    /\ \A c, d \in Clients : call[c] # NoCall /\ call[d] # NoCall => c = d

Sessions == [id : SessionIds \ {0}, appliance : Appliances,
             state : {"learning", "captured"}, expires : Nat, capture : Captures]

Rows == [row : Nat, appliance : Appliances, name : Names,
         session : SessionIds, capture : Captures]

Confirmed(a, n) == \E x \in irActions : x.session # 0 /\ x.appliance = a /\ x.name = n

SessionOK ==
    /\ session \in {NoSession} \cup Sessions
    /\ Active => session.id =< lastSession
    /\ Active => (session.state = "captured" <=> session.capture # 0)

\* What a client found when it took irMu still holds at each of its steps.
StepHolds(c) ==
    /\ At(c, "start") => ~Active
    /\ req[c].pc \in {"replace", "expire", "stop"} => Active
    /\ At(c, "poll") => Active /\ session.state = "learning"
    /\ At(c, "captured") => Active /\ session.state = "captured"
    /\ At(c, "store") => /\ Own(c) /\ session.state = "captured"
                         /\ ~Confirmed(req[c].appliance, req[c].name)

SessionFollows == SessionOK /\ \A c \in Clients : StepHolds(c)

RowsOK ==
    /\ irActions \subseteq Rows
    /\ IsFiniteSet(irActions)
    /\ ConfirmedNamesUnique

DeviceOK ==
    /\ device.mode = "captured" => device.capture # 0
    /\ device.capture =< device.last

\* What the controller answered is still so when the answer arrives.
AnswerHolds ==
    /\ DeviceOK
    /\ \A c \in Clients :
         /\ call[c].answer = "expired" => AnswersWith408
         /\ call[c].answer = "captured" => device.mode = "captured"
         /\ call[c].answer \in {"idle", "timeout", "error"} => device.mode # "learning"
         /\ call[c].op = "start" /\ call[c].answer = "ok" =>
              \A x \in irActions : x.capture # 0 => x.capture # device.capture

CapturesFollow ==
    /\ Active /\ session.state = "captured" =>
         device.mode # "learning" /\ session.capture = device.capture
    /\ \A x \in irActions :
         /\ x.capture =< device.last
         /\ Active /\ x.capture # 0 /\ x.capture = device.capture => x.session = session.id
    /\ \A x, y \in irActions :
         x.capture = y.capture /\ x.capture # 0 => x.session = y.session

FlagFollows ==
    /\ Active /\ session.state = "learning" /\ device.mode = "learning" =>
         until = session.expires
    /\ Active /\ session.state = "captured" => until = 0
    /\ ~AnswersWith408 /\ ~Active => until = 0

LearningInv ==
    RequestOK /\ HolderWorks /\ OneCall /\ SessionFollows /\ RowsOK
      /\ AnswerHolds /\ CapturesFollow /\ FlagFollows

-----------------------------------------------------------------------------
(* Types and requests *)

LEMMA RequestTyped ==
    ASSUME RequestOK, NEW c \in Clients, req[c] # NoRequest
    PROVE  req[c] \in RequestsOf(req[c].kind) /\ req[c].kind \in Kinds
BY DEF RequestOK, RequestsOf

LEMMA DeviceTyped ==
    ASSUME ControllerTypeOK, NEW op \in Ops, NEW answer, DeviceHandles(op, answer)
    PROVE  device' \in [mode : {"idle", "learning", "captured", "timeout"},
                        deadline : Nat, capture : 0 .. MaxCaptures,
                        usable : BOOLEAN, last : 0 .. MaxCaptures]
<1>. USE ControllerConstants
<1>. DEFINE D == [mode : {"idle", "learning", "captured", "timeout"},
                  deadline : Nat, capture : 0 .. MaxCaptures,
                  usable : BOOLEAN, last : 0 .. MaxCaptures]
<1>1. device \in D /\ now \in Nat
  BY DEF ControllerTypeOK
<1>2. ASSUME DeviceStarts(answer) PROVE device' \in D
  <2>. DEFINE d1 == [device EXCEPT !.mode = "learning"]
              d2 == [d1 EXCEPT !.deadline = now + LearnTime]
  <2>1. d1 \in D
    BY <1>1
  <2>2. device' = [d2 EXCEPT !.capture = 0]
    BY <1>2, <1>1 DEF DeviceStarts
  <2>. HIDE DEF d1
  <2>3. d2 \in D
    BY <2>1, <1>1
  <2>. HIDE DEF d2
  <2>. QED  BY <2>2, <2>3
<1>3. ASSUME DeviceReports(answer) PROVE device' \in D
  BY <1>1, <1>3 DEF DeviceReports
<1>4. ASSUME DeviceStops(answer) PROVE device' \in D
  BY <1>1, <1>4 DEF DeviceStops
<1>5. ASSUME DeviceSends(answer) PROVE device' \in D
  BY <1>1, <1>5 DEF DeviceSends
<1>. QED  BY <1>2, <1>3, <1>4, <1>5 DEF DeviceHandles, Ops

LEMMA RequestTypes ==
    ASSUME ControllerTypeOK, NEW c \in Clients, NEW op \in Ops, Request(c, op)
    PROVE  ControllerTypeOK'
<1>. DEFINE D == [mode : {"idle", "learning", "captured", "timeout"},
                  deadline : Nat, capture : 0 .. MaxCaptures,
                  usable : BOOLEAN, last : 0 .. MaxCaptures]
<1>1. device' \in D
  <2>1. device \in D
    BY DEF ControllerTypeOK
  <2>2. UNCHANGED device \/ \E a \in Answers : DeviceHandles(op, a)
    BY DEF Request
  <2>. QED  BY <2>1, <2>2, DeviceTyped
<1>2. PICK answer \in Answers : call' = [call EXCEPT ![c] = [op |-> op, answer |-> answer]]
  BY DEF Request
<1>3. call' \in [Clients -> {NoCall} \cup [op : Ops, answer : Answers]]
  BY <1>2 DEF ControllerTypeOK
<1>4. UNCHANGED <<now, until>>
  BY DEF Request
<1>. QED  BY <1>1, <1>3, <1>4 DEF ControllerTypeOK

LEMMA AnsweredTypes ==
    ASSUME ControllerTypeOK, NEW c \in Clients, Answered(c)
    PROVE  ControllerTypeOK'
<1>1. until' \in Nat
  BY ControllerConstants DEF Answered, Learned, ControllerTypeOK
<1>2. call' \in [Clients -> {NoCall} \cup [op : Ops, answer : Answers]]
  BY DEF Answered, ControllerTypeOK
<1>. QED  BY <1>1, <1>2 DEF Answered, ControllerTypeOK

LEMMA ControllerTypes ==
    ASSUME ControllerTypeOK, Controller
    PROVE  ControllerTypeOK'
<1>. USE ControllerConstants
<1>. DEFINE D == [mode : {"idle", "learning", "captured", "timeout"},
                  deadline : Nat, capture : 0 .. MaxCaptures,
                  usable : BOOLEAN, last : 0 .. MaxCaptures]
<1>1. device \in D
  BY DEF ControllerTypeOK
<1>2. ASSUME DeviceCaptures PROVE ControllerTypeOK'
  <2>1. PICK u \in BOOLEAN :
          device' = [device EXCEPT !.mode = "captured", !.capture = device.last + 1,
                                   !.last = device.last + 1, !.usable = u]
    BY <1>2, <1>1 DEF DeviceCaptures
  <2>. DEFINE d1 == [device EXCEPT !.mode = "captured"]
              d2 == [d1 EXCEPT !.capture = device.last + 1]
              d3 == [d2 EXCEPT !.last = device.last + 1]
  <2>2. d1 \in D /\ device.last + 1 \in 0 .. MaxCaptures
    BY <1>1, <1>2 DEF DeviceCaptures
  <2>3. device' = [d3 EXCEPT !.usable = u]
    BY <2>1, <1>1
  <2>. HIDE DEF d1
  <2>4. d2 \in D
    BY <2>2
  <2>. HIDE DEF d2
  <2>5. d3 \in D
    BY <2>4, <2>2
  <2>. HIDE DEF d3
  <2>. QED  BY <2>3, <2>5, <1>2 DEF DeviceCaptures, ControllerTypeOK
<1>3. ASSUME DeviceTimesOut \/ DeviceGoesIdle PROVE ControllerTypeOK'
  BY <1>1, <1>3 DEF DeviceTimesOut, DeviceGoesIdle, ControllerTypeOK
<1>4. ASSUME TimePasses PROVE ControllerTypeOK'
  BY <1>4 DEF TimePasses, ControllerTypeOK
<1>. QED  BY <1>2, <1>3, <1>4 DEF Controller

LEMMA FinishKeeps ==
    ASSUME RequestOK, NEW c \in Clients, Finish(c)
    PROVE  /\ irMu' \in Clients \cup {Nobody}
           /\ req' \in [Clients -> {NoRequest} \cup UNION {RequestsOf(k) : k \in Kinds}]
           /\ RequestsFollow'
           /\ Started' = Started \ {c}
           /\ Cardinality(Started) \in Nat
           /\ Cardinality(Started') =
                IF req[c].kind = "start" THEN Cardinality(Started) - 1
                ELSE Cardinality(Started)
<1>1. irMu' \in Clients \cup {Nobody} /\ req' = [req EXCEPT ![c] = NoRequest]
  BY DEF Finish, RequestOK
<1>2. req' \in [Clients -> {NoRequest} \cup UNION {RequestsOf(k) : k \in Kinds}]
  BY <1>1 DEF RequestOK
<1>3. RequestsFollow'
  BY <1>1 DEF RequestOK, RequestsFollow, Holding, NoRequest, Pcs
<1>4. Started' = Started \ {c}
  BY <1>1 DEF Started, RequestOK, NoRequest
<1>5. IsFiniteSet(Started) /\ Cardinality(Started) \in Nat
  BY ControllerConstants, FS_Subset, FS_CardinalityType DEF Started
<1>6. c \in Started <=> req[c].kind = "start"
  BY DEF Started
<1>. QED  BY <1>1, <1>2, <1>3, <1>4, <1>5, <1>6, FS_RemoveElement

LEMMA GoesKeeps ==
    ASSUME RequestOK, NEW c \in Clients, req[c] # NoRequest,
           NEW pc \in Pcs, pc \in StepsOf(req[c].kind), GoesTo(c, pc)
    PROVE  /\ irMu' \in Clients \cup {Nobody}
           /\ req' \in [Clients -> {NoRequest} \cup UNION {RequestsOf(k) : k \in Kinds}]
           /\ RequestsFollow'
           /\ Started' = Started
<1>1. req[c] \in RequestsOf(req[c].kind) /\ req[c].kind \in Kinds
  BY RequestTyped
<1>. DEFINE r == [req[c] EXCEPT !.pc = pc]
<1>2. r \in RequestsOf(req[c].kind) /\ r.kind = req[c].kind /\ r.pc = pc
  BY <1>1 DEF RequestsOf
<1>3. req' = [req EXCEPT ![c] = r] /\ irMu' = c
  BY DEF GoesTo
<1>. HIDE DEF r
<1>4. req' \in [Clients -> {NoRequest} \cup UNION {RequestsOf(k) : k \in Kinds}]
  BY <1>1, <1>2, <1>3 DEF RequestOK
<1>5. RequestsFollow'
  BY <1>1, <1>2, <1>3 DEF RequestOK, RequestsFollow, Holding
<1>6. Started' = Started
  BY <1>2, <1>3 DEF RequestOK, Started
<1>. QED  BY <1>3, <1>4, <1>5, <1>6

LEMMA RequestInit == Init => RequestOK
<1>. SUFFICES ASSUME Init PROVE RequestOK
  OBVIOUS
<1>1. ControllerTypeOK
  BY ControllerConstants DEF Init, ControllerInit, ControllerTypeOK
<1>2. Started = {}
  BY DEF Init, Started, NoRequest
<1>. QED
  BY <1>1, <1>2, FS_EmptySet, LearningConstants
     DEF Init, RequestOK, RequestsFollow, Holding, NoRequest, Pcs

LEMMA RequestStep == RequestOK /\ [Next]_vars => RequestOK'
<1>. SUFFICES ASSUME RequestOK, [Next]_vars PROVE RequestOK'
  OBVIOUS
<1>. USE ControllerConstants, LearningConstants
<1>0. IsFiniteSet(Started) /\ Cardinality(Started) \in Nat
  BY FS_Subset, FS_CardinalityType DEF Started
<1>1. ASSUME NEW c \in Clients, Arrive(c) PROVE RequestOK'
  <2>1. PICK kind \in Kinds, a \in Appliances, id \in 0 .. lastSession,
             cap \in 0 .. device.last, n \in Names :
          /\ kind = "start" => lastSession + Starting < MaxSessions
          /\ req' = [req EXCEPT ![c] = [pc |-> "wait", kind |-> kind, appliance |-> a,
                                        id |-> id, capture |-> cap, name |-> n]]
    BY <1>1 DEF Arrive
  <2>. DEFINE r == [pc |-> "wait", kind |-> kind, appliance |-> a,
                    id |-> id, capture |-> cap, name |-> n]
  <2>2. r \in RequestsOf(kind) /\ r.kind = kind /\ r.pc = "wait"
    <3>1. id \in SessionIds
      BY <1>0 DEF SessionIds, RequestOK
    <3>2. cap \in Captures
      BY DEF Captures, RequestOK, ControllerTypeOK
    <3>. QED  BY <3>1, <3>2 DEF RequestsOf, Pcs
  <2>3. req' = [req EXCEPT ![c] = r] /\ req[c] = NoRequest
    BY <2>1, <1>1 DEF Arrive
  <2>. HIDE DEF r
  <2>4. req' \in [Clients -> {NoRequest} \cup UNION {RequestsOf(k) : k \in Kinds}]
    BY <2>2, <2>3 DEF RequestOK
  <2>5. RequestsFollow'
    BY <2>2, <2>3 DEF RequestOK, RequestsFollow, Holding
  <2>6. Started' = IF kind = "start" THEN Started \cup {c} ELSE Started
    BY <2>2, <2>3 DEF RequestOK, Started, NoRequest
  <2>7. lastSession + Cardinality(Started') =< MaxSessions
    <3>1. lastSession \in Nat /\ lastSession + Cardinality(Started) =< MaxSessions
      BY DEF RequestOK
    <3>2. kind = "start" => lastSession + Cardinality(Started) < MaxSessions
      BY <2>1 DEF Starting, Started
    <3>3. Cardinality(Started \cup {c}) \in {Cardinality(Started), Cardinality(Started) + 1}
      BY <1>0, FS_AddElement
    <3>. QED  BY <2>6, <1>0, <3>1, <3>2, <3>3
  <2>8. UNCHANGED <<controllerVars, irMu, lastSession, restarts>>
    BY <1>1 DEF Arrive
  <2>. QED  BY <2>4, <2>5, <2>7, <2>8 DEF RequestOK, ControllerTypeOK, controllerVars
<1>2. ASSUME NEW c \in Clients, Enter(c) PROVE RequestOK'
  <2>1. UNCHANGED <<controllerVars, lastSession, restarts>>
    BY <1>2 DEF Enter, EnterStart, EnterStatus, EnterConfirm, EnterStop, Enters
  <2>2. req[c] # NoRequest
    BY <1>2 DEF Enter, EnterStart, EnterStatus, EnterConfirm, EnterStop, Enters, At, NoRequest
  <2>3. Finish(c) \/ \E pc \in Pcs : pc \in StepsOf(req[c].kind) /\ GoesTo(c, pc)
    BY <1>2 DEF Enter, EnterStart, EnterStatus, EnterConfirm, EnterStop, Enters,
                StepsOf, Pcs
  <2>. QED
    BY <2>1, <2>2, <2>3, FinishKeeps, GoesKeeps
       DEF RequestOK, ControllerTypeOK, controllerVars
<1>3. ASSUME NEW c \in Clients, CallController(c) PROVE RequestOK'
  <2>1. Needs(c) \in Ops
    BY <1>3 DEF CallController, Needs, Ops
  <2>2. ControllerTypeOK'
    BY <2>1, <1>3, RequestTypes DEF CallController, RequestOK
  <2>. QED
    BY <2>2, <1>3
       DEF CallController, learningVars, RequestOK, RequestsFollow, Holding, Started
<1>4. ASSUME NEW c \in Clients, Return(c) PROVE RequestOK'
  <2>1. Answered(c)
    BY <1>4 DEF Return, ReturnReplaced, ReturnStopped, ReturnStarted, ReturnPolled,
                ReturnCaptured, ReturnSent
  <2>2. ControllerTypeOK' /\ restarts' = restarts
    BY <2>1, <1>4, AnsweredTypes
       DEF RequestOK, Return, ReturnReplaced, ReturnStopped, ReturnStarted, ReturnPolled,
           ReturnCaptured, ReturnSent
  <2>3. ASSUME ReturnStarted(c) PROVE RequestOK'
    <3>1. req[c].kind = "start"
      BY <2>3 DEF ReturnStarted, At, RequestOK, RequestsFollow, Holding, Pcs, StepsOf
    <3>2. Finish(c) /\ lastSession' \in {lastSession, lastSession + 1}
      BY <2>3 DEF ReturnStarted
    <3>. QED  BY <3>1, <3>2, <2>2, FinishKeeps DEF RequestOK
  <2>4. ASSUME ~ReturnStarted(c) PROVE RequestOK'
    <3>1. lastSession' = lastSession /\ req[c] # NoRequest
      BY <2>4, <1>4
         DEF Return, ReturnReplaced, ReturnStopped, ReturnPolled,
             ReturnCaptured, ReturnSent, NoRequest, At
    <3>2. Finish(c) \/ \E pc \in Pcs : pc \in StepsOf(req[c].kind) /\ GoesTo(c, pc)
      <4>1. At(c, "replace") => req[c].kind = "start"
        BY DEF At, RequestOK, RequestsFollow, Holding, Pcs, StepsOf
      <4>2. At(c, "poll") => req[c].kind = "status"
        BY DEF At, RequestOK, RequestsFollow, Holding, Pcs, StepsOf
      <4>. QED
        BY <4>1, <4>2, <2>4, <1>4
           DEF Return, ReturnReplaced, ReturnStopped, ReturnPolled,
               ReturnCaptured, ReturnSent, StepsOf, Pcs
    <3>. QED  BY <3>1, <3>2, <2>2, FinishKeeps, GoesKeeps DEF RequestOK
  <2>. QED  BY <2>3, <2>4
<1>5. ASSUME NEW c \in Clients, RefusedAsBusy(c) \/ StoreAction(c) \/ StoreFails(c)
      PROVE  RequestOK'
  <2>1. Finish(c) /\ UNCHANGED <<controllerVars, lastSession, restarts>>
    BY <1>5 DEF RefusedAsBusy, StoreAction, StoreFails
  <2>. QED
    BY <2>1, FinishKeeps DEF RequestOK, ControllerTypeOK, controllerVars
<1>6. ASSUME Environment PROVE RequestOK'
  <2>1. ControllerTypeOK'
    BY <1>6, ControllerTypes DEF Environment, RequestOK
  <2>. QED
    BY <2>1, <1>6 DEF Environment, learningVars, RequestOK, RequestsFollow, Holding, Started
<1>7. ASSUME DirectCreate PROVE RequestOK'
  BY <1>7 DEF DirectCreate, controllerVars, RequestOK, ControllerTypeOK, RequestsFollow,
              Holding, Started
<1>8. ASSUME Restart PROVE RequestOK'
  <2>1. Started' = {}
    BY <1>8 DEF Restart, Started, NoRequest
  <2>2. ControllerTypeOK'
    BY <1>8 DEF Restart, RequestOK, ControllerTypeOK
  <2>3. RequestsFollow'
    BY <1>8 DEF Restart, RequestsFollow, Holding, NoRequest, Pcs
  <2>4. restarts' \in 0 .. MaxRestarts
    BY <1>8 DEF Restart, RequestOK
  <2>. QED  BY <2>1, <2>2, <2>3, <2>4, <1>8, <1>0, FS_EmptySet DEF Restart, RequestOK
<1>9. ASSUME UNCHANGED vars PROVE RequestOK'
  BY <1>9 DEF vars, controllerVars, learningVars, RequestOK, ControllerTypeOK,
              RequestsFollow, Holding, Started
<1>. QED  BY <1>1, <1>2, <1>3, <1>4, <1>5, <1>6, <1>7, <1>8, <1>9 DEF Next, Serve

-----------------------------------------------------------------------------
(* irMu and the one request at the controller *)

LEMMA OthersStay ==
    ASSUME RequestOK, NEW c \in Clients, NEW r, req' = [req EXCEPT ![c] = r],
           NEW d \in Clients, d # c
    PROVE  req'[d] = req[d] /\ (Holding(d)' <=> Holding(d)) /\ Needs(d)' = Needs(d)
BY DEF RequestOK, Holding, Needs, At

LEMMA FinishHolder ==
    ASSUME RequestOK, HolderWorks, NEW c \in Clients, Finish(c)
    PROVE  HolderWorks'
<1>1. req' = [req EXCEPT ![c] = NoRequest] /\ irMu' = IF irMu = c THEN Nobody ELSE irMu
  BY DEF Finish
<1>2. ~Holding(c)'
  BY <1>1 DEF RequestOK, Holding, NoRequest, Pcs
<1>3. ASSUME NEW d \in Clients, d # c PROVE Holding(d)' <=> Holding(d)
  BY <1>1, <1>3, OthersStay
<1>. QED  BY <1>1, <1>2, <1>3, LearningConstants DEF HolderWorks

LEMMA GoesHolder ==
    ASSUME RequestOK, HolderWorks, NEW c \in Clients, NEW pc \in Pcs \ {"wait"},
           irMu \in {c, Nobody}, GoesTo(c, pc)
    PROVE  HolderWorks'
<1>1. req' = [req EXCEPT ![c] = [req[c] EXCEPT !.pc = pc]] /\ irMu' = c
  BY DEF GoesTo
<1>2. req'[c] = [req[c] EXCEPT !.pc = pc]
  BY <1>1 DEF RequestOK
<1>3. [req[c] EXCEPT !.pc = pc].pc = pc
  BY DEF RequestOK, RequestsOf, NoRequest
<1>4. Holding(c)'
  BY <1>2, <1>3 DEF Holding
<1>5. ASSUME NEW d \in Clients, d # c PROVE Holding(d)' <=> Holding(d)
  BY <1>1, <1>5, OthersStay
<1>. QED  BY <1>1, <1>4, <1>5, LearningConstants DEF HolderWorks

LEMMA MovesCall ==
    ASSUME RequestOK, OneCall, NEW c \in Clients, NEW r, req' = [req EXCEPT ![c] = r],
           \/ UNCHANGED call /\ call[c] = NoCall
           \/ call' = [call EXCEPT ![c] = NoCall]
    PROVE  OneCall'
<1>1. call \in [Clients -> {NoCall} \cup [op : Ops, answer : Answers]]
  BY DEF RequestOK, ControllerTypeOK
<1>2. call'[c] = NoCall /\ \A d \in Clients : d # c => call'[d] = call[d]
  BY <1>1
<1>3. \A d \in Clients : call'[d] # NoCall => call[d] # NoCall /\ d # c
  BY <1>2
<1>4. \A d \in Clients : d # c => Needs(d)' = Needs(d)
  BY OthersStay
<1>5. ASSUME NEW d \in Clients, call'[d] # NoCall
      PROVE  call'[d].op \in Ops /\ call'[d].op = Needs(d)'
  BY <1>2, <1>3, <1>4, <1>5 DEF OneCall
<1>. QED  BY <1>3, <1>5 DEF OneCall

LEMMA HolderInit == Init => HolderWorks /\ OneCall
BY LearningConstants
   DEF Init, ControllerInit, HolderWorks, OneCall, Holding, NoRequest, Pcs

LEMMA ReqFinish ==
    ASSUME NEW c \in Clients, Finish(c) \/ \E pc : GoesTo(c, pc)
    PROVE  \E r : req' = [req EXCEPT ![c] = r]
BY DEF Finish, GoesTo

LEMMA CallerHolds ==
    ASSUME RequestOK, HolderWorks, NEW c \in Clients, req[c].pc \in Pcs \ {"wait"}
    PROVE  irMu = c /\ \A d \in Clients : d # c => ~Holding(d)
BY DEF HolderWorks, Holding

LEMMA HolderStep ==
    RequestOK /\ HolderWorks /\ OneCall /\ [Next]_vars => HolderWorks' /\ OneCall'
<1>. SUFFICES ASSUME RequestOK, HolderWorks, OneCall, [Next]_vars
              PROVE  HolderWorks' /\ OneCall'
  OBVIOUS
<1>1. ASSUME NEW c \in Clients, Arrive(c) PROVE HolderWorks' /\ OneCall'
  <2>1. req[c] = NoRequest /\ UNCHANGED <<irMu, call>>
    BY <1>1 DEF Arrive, controllerVars
  <2>2. PICK kind \in Kinds, a \in Appliances, id \in 0 .. lastSession,
             cap \in 0 .. device.last, n \in Names :
          req' = [req EXCEPT ![c] = [pc |-> "wait", kind |-> kind, appliance |-> a,
                                     id |-> id, capture |-> cap, name |-> n]]
    BY <1>1 DEF Arrive
  <2>3. Needs(c) = "none" /\ ~Holding(c)
    BY <2>1 DEF Needs, NoRequest, At, Holding, Pcs
  <2>4. call[c] = NoCall
    BY <2>3 DEF OneCall, Ops
  <2>5. req'[c].pc = "wait"
    BY <2>2 DEF RequestOK
  <2>6. ~Holding(c)'
    BY <2>5 DEF Holding
  <2>7. ASSUME NEW d \in Clients, d # c PROVE Holding(d)' <=> Holding(d)
    BY <2>2, <2>7, OthersStay
  <2>8. HolderWorks'
    BY <2>1, <2>3, <2>6, <2>7 DEF HolderWorks
  <2>. QED  BY <2>1, <2>2, <2>4, <2>8, MovesCall
<1>2. ASSUME NEW c \in Clients, Enter(c) PROVE HolderWorks' /\ OneCall'
  <2>1. /\ irMu = Nobody /\ req[c].pc = "wait" /\ req[c].kind # "send"
        /\ UNCHANGED call
    BY <1>2 DEF Enter, EnterStart, EnterStatus, EnterConfirm, EnterStop, Enters, At,
                controllerVars
  <2>2. Needs(c) = "none"
    BY <2>1 DEF Needs, At
  <2>3. call[c] = NoCall
    BY <2>2 DEF OneCall, Ops
  <2>4. Finish(c) \/ \E pc \in Pcs \ {"wait"} : GoesTo(c, pc)
    BY <1>2 DEF Enter, EnterStart, EnterStatus, EnterConfirm, EnterStop, Pcs
  <2>5. HolderWorks'
    BY <2>1, <2>4, FinishHolder, GoesHolder
  <2>. QED  BY <2>1, <2>3, <2>4, <2>5, ReqFinish, MovesCall
<1>3. ASSUME NEW c \in Clients, CallController(c) PROVE HolderWorks' /\ OneCall'
  <2>1. UNCHANGED <<irMu, req>> /\ \A d \in Clients : call[d] = NoCall
    BY <1>3 DEF CallController, learningVars, Request, OperationFree
  <2>2. PICK answer \in Answers :
          call' = [call EXCEPT ![c] = [op |-> Needs(c), answer |-> answer]]
    BY <1>3 DEF CallController, Request
  <2>3. Needs(c) \in Ops
    BY <1>3 DEF CallController, Needs, Ops
  <2>4. call'[c] = [op |-> Needs(c), answer |-> answer]
    BY <2>2 DEF RequestOK, ControllerTypeOK
  <2>5. \A d \in Clients : d # c => call'[d] = NoCall
    BY <2>1, <2>2 DEF RequestOK, ControllerTypeOK
  <2>6. \A d \in Clients : Needs(d)' = Needs(d) /\ (Holding(d)' <=> Holding(d))
    BY <2>1 DEF Needs, At, Holding
  <2>7. HolderWorks'
    BY <2>1, <2>6 DEF HolderWorks
  <2>8. call'[c].op = Needs(c)' /\ call'[c].op \in Ops
    BY <2>3, <2>4, <2>6
  <2>. QED  BY <2>5, <2>7, <2>8 DEF OneCall
<1>4. ASSUME NEW c \in Clients, RefusedAsBusy(c) PROVE HolderWorks' /\ OneCall'
  <2>1. Finish(c) /\ UNCHANGED call /\ call[c] = NoCall
    BY <1>4 DEF RefusedAsBusy, OperationFree, controllerVars
  <2>. QED  BY <2>1, FinishHolder, ReqFinish, MovesCall
<1>5. ASSUME NEW c \in Clients, Return(c) PROVE HolderWorks' /\ OneCall'
  <2>1. call' = [call EXCEPT ![c] = NoCall]
    BY <1>5 DEF Return, ReturnReplaced, ReturnStopped, ReturnStarted, ReturnPolled,
                ReturnCaptured, ReturnSent, Answered
  <2>2. \/ Finish(c)
        \/ req[c].pc \in {"replace", "poll"} /\ \E pc \in Pcs \ {"wait"} : GoesTo(c, pc)
    BY <1>5 DEF Return, ReturnReplaced, ReturnStopped, ReturnStarted, ReturnPolled,
                ReturnCaptured, ReturnSent, At, Pcs
  <2>3. req[c].pc \in {"replace", "poll"} => irMu = c
    BY DEF HolderWorks, Holding, Pcs
  <2>4. HolderWorks'
    BY <2>2, <2>3, FinishHolder, GoesHolder
  <2>. QED  BY <2>1, <2>2, <2>4, ReqFinish, MovesCall
<1>6. ASSUME NEW c \in Clients, StoreAction(c) \/ StoreFails(c)
      PROVE  HolderWorks' /\ OneCall'
  <2>1. Finish(c) /\ UNCHANGED call /\ req[c].pc = "store"
    BY <1>6 DEF StoreAction, StoreFails, controllerVars, At
  <2>2. Needs(c) = "none"
    BY <2>1 DEF Needs, At
  <2>3. call[c] = NoCall
    BY <2>2 DEF OneCall, Ops
  <2>. QED  BY <2>1, <2>3, FinishHolder, ReqFinish, MovesCall
<1>7. ASSUME UNCHANGED <<irMu, req, call>> PROVE HolderWorks' /\ OneCall'
  BY <1>7 DEF HolderWorks, OneCall, Holding, Needs, At
<1>8. ASSUME Restart PROVE HolderWorks' /\ OneCall'
  BY <1>8, LearningConstants DEF Restart, HolderWorks, OneCall, Holding, NoRequest, Pcs
<1>9. ASSUME Environment \/ DirectCreate \/ UNCHANGED vars
      PROVE  UNCHANGED <<irMu, req, call>>
  BY <1>9 DEF Environment, Controller, DeviceCaptures, DeviceTimesOut, DeviceGoesIdle,
              TimePasses, DirectCreate, vars, controllerVars, learningVars
<1>. QED
  BY <1>1, <1>2, <1>3, <1>4, <1>5, <1>6, <1>7, <1>8, <1>9 DEF Next, Serve

-----------------------------------------------------------------------------
(* The session and what the holder of irMu knows of it *)

LEMMA IdleHolds ==
    ASSUME NEW c \in Clients, ~Holding(c)
    PROVE  StepHolds(c)
BY DEF Holding, StepHolds, Pcs, At

LEMMA OthersIdle ==
    ASSUME RequestOK, HolderWorks, NEW c \in Clients, irMu \in {c, Nobody},
           NEW r, req' = [req EXCEPT ![c] = r], NEW d \in Clients, d # c
    PROVE  StepHolds(d)'
<1>1. ~Holding(d)
  BY LearningConstants DEF HolderWorks
<1>2. ~Holding(d)'
  BY <1>1, OthersStay
<1>. QED  BY <1>2 DEF Holding, StepHolds, Pcs, At

LEMMA FinishIdle ==
    ASSUME RequestOK, NEW c \in Clients, Finish(c)
    PROVE  StepHolds(c)'
<1>1. req'[c] = NoRequest
  BY DEF Finish, RequestOK
<1>. QED  BY <1>1 DEF NoRequest, StepHolds, At

LEMMA FinishSteps ==
    ASSUME RequestOK, SessionFollows, NEW c \in Clients, Finish(c),
           UNCHANGED <<session, irActions>>
    PROVE  \A d \in Clients : StepHolds(d)'
<1>1. StepHolds(c)'
  BY FinishIdle
<1>2. ASSUME NEW d \in Clients, d # c PROVE StepHolds(d)'
  <2>1. req'[d] = req[d] /\ StepHolds(d)
    BY <1>2, OthersStay DEF Finish, SessionFollows
  <2>. QED  BY <2>1 DEF StepHolds, At, Active, Own, Confirmed
<1>. QED  BY <1>1, <1>2

LEMMA GoesReq ==
    ASSUME RequestOK, NEW c \in Clients, NEW pc \in Pcs, GoesTo(c, pc), req[c] # NoRequest
    PROVE  /\ req'[c].pc = pc /\ req'[c].appliance = req[c].appliance
           /\ req'[c].name = req[c].name /\ req'[c].kind = req[c].kind
<1>1. req[c] \in RequestsOf(req[c].kind)
  BY RequestTyped
<1>2. req'[c] = [req[c] EXCEPT !.pc = pc]
  BY DEF GoesTo, RequestOK
<1>. QED  BY <1>1, <1>2 DEF RequestsOf

LEMMA EnterSession ==
    ASSUME LearningInv, NEW c \in Clients, Enter(c)
    PROVE  SessionFollows'
<1>0. RequestOK /\ HolderWorks /\ SessionFollows
  BY DEF LearningInv
<1>1. /\ irMu = Nobody /\ UNCHANGED <<session, irActions, lastSession>>
      /\ req[c].pc = "wait" /\ req[c] # NoRequest
  BY DEF Enter, EnterStart, EnterStatus, EnterConfirm, EnterStop, Enters, At, NoRequest
<1>2. SessionOK'
  BY <1>0, <1>1 DEF SessionFollows, SessionOK, Active
<1>3. ASSUME Finish(c) PROVE SessionFollows'
  BY <1>0, <1>1, <1>2, <1>3, FinishSteps DEF SessionFollows
<1>4. ASSUME NEW pc \in Pcs, GoesTo(c, pc), StepHolds(c)' PROVE SessionFollows'
  <2>1. PICK r : req' = [req EXCEPT ![c] = r]
    BY <1>4, ReqFinish
  <2>. QED  BY <1>0, <1>1, <1>2, <1>4, <2>1, OthersIdle DEF SessionFollows
<1>5. ASSUME EnterStart(c) PROVE SessionFollows'
  <2>1. ASSUME GoesTo(c, "replace"), Active PROVE SessionFollows'
    <3>1. req'[c].pc = "replace"
      BY <2>1, <1>0, <1>1, GoesReq DEF Pcs
    <3>2. StepHolds(c)'
      BY <3>1, <2>1, <1>1 DEF StepHolds, At, Active
    <3>. QED  BY <3>2, <2>1, <1>4 DEF Pcs
  <2>2. ASSUME GoesTo(c, "start"), ~Active PROVE SessionFollows'
    <3>1. req'[c].pc = "start"
      BY <2>2, <1>0, <1>1, GoesReq DEF Pcs
    <3>2. StepHolds(c)'
      BY <3>1, <2>2, <1>1 DEF StepHolds, At, Active
    <3>. QED  BY <3>2, <2>2, <1>4 DEF Pcs
  <2>. QED  BY <1>3, <1>5, <2>1, <2>2 DEF EnterStart
<1>6. ASSUME GoesTo(c, "expire"), Active PROVE SessionFollows'
  <2>1. req'[c].pc = "expire"
    BY <1>6, <1>0, <1>1, GoesReq DEF Pcs
  <2>2. StepHolds(c)'
    BY <2>1, <1>6, <1>1 DEF StepHolds, At, Active
  <2>. QED  BY <2>2, <1>6, <1>4 DEF Pcs
<1>7. ASSUME EnterStatus(c) PROVE SessionFollows'
  <2>1. ASSUME GoesTo(c, "poll"), Active, session.state # "captured" PROVE SessionFollows'
    <3>1. req'[c].pc = "poll"
      BY <2>1, <1>0, <1>1, GoesReq DEF Pcs
    <3>2. session.state = "learning"
      BY <2>1, <1>0 DEF SessionFollows, SessionOK, Sessions, Active
    <3>3. StepHolds(c)'
      BY <3>1, <3>2, <2>1, <1>1 DEF StepHolds, At, Active
    <3>. QED  BY <3>3, <2>1, <1>4 DEF Pcs
  <2>. QED  BY <1>3, <1>6, <1>7, <2>1 DEF EnterStatus, Own
<1>8. ASSUME EnterConfirm(c) PROVE SessionFollows'
  <2>1. ASSUME GoesTo(c, "store"), Own(c), session.state = "captured",
               ~NameTaken(req[c].appliance, req[c].name)
        PROVE  SessionFollows'
    <3>1. /\ req'[c].pc = "store" /\ req'[c].appliance = req[c].appliance
          /\ req'[c].name = req[c].name
      BY <2>1, <1>0, <1>1, GoesReq DEF Pcs
    <3>2. ~Confirmed(req[c].appliance, req[c].name)
      BY <2>1 DEF NameTaken, Confirmed
    <3>3. StepHolds(c)'
      BY <3>1, <3>2, <2>1, <1>1 DEF StepHolds, At, Active, Own, Confirmed
    <3>. QED  BY <3>3, <2>1, <1>4 DEF Pcs
  <2>. QED  BY <1>3, <1>6, <1>8, <2>1 DEF EnterConfirm, Own
<1>9. ASSUME EnterStop(c) PROVE SessionFollows'
  <2>1. ASSUME GoesTo(c, "stop"), Active PROVE SessionFollows'
    <3>1. req'[c].pc = "stop"
      BY <2>1, <1>0, <1>1, GoesReq DEF Pcs
    <3>2. StepHolds(c)'
      BY <3>1, <2>1, <1>1 DEF StepHolds, At, Active
    <3>. QED  BY <3>2, <2>1, <1>4 DEF Pcs
  <2>. QED  BY <1>3, <1>9, <2>1 DEF EnterStop, Own
<1>. QED  BY <1>5, <1>7, <1>8, <1>9 DEF Enter

LEMMA NoSessionOK ==
    ASSUME RequestOK, HolderWorks, NEW c \in Clients, irMu \in {c, Nobody},
           NEW r, req' = [req EXCEPT ![c] = r], session' = NoSession, StepHolds(c)'
    PROVE  SessionFollows'
<1>1. SessionOK'
  BY DEF SessionOK, Active
<1>. QED  BY <1>1, OthersIdle DEF SessionFollows

LEMMA ReturnSession ==
    ASSUME LearningInv, RequestOK', NEW c \in Clients, Return(c)
    PROVE  SessionFollows'
<1>0. RequestOK /\ HolderWorks /\ OneCall /\ SessionFollows /\ AnswerHolds
  BY DEF LearningInv
<1>1. PICK r : req' = [req EXCEPT ![c] = r]
  BY ReqFinish DEF Return, ReturnReplaced, ReturnStopped, ReturnStarted, ReturnPolled,
                   ReturnCaptured, ReturnSent
<1>2. req[c].pc \in Pcs \ {"wait"} => irMu \in {c, Nobody}
  BY <1>0, CallerHolds
<1>3. ASSUME ReturnReplaced(c) PROVE SessionFollows'
  <2>1. req[c].pc = "replace" /\ GoesTo(c, "start") /\ session' = NoSession
    BY <1>3 DEF ReturnReplaced, At
  <2>2. req'[c].pc = "start"
    BY <2>1, <1>0, GoesReq DEF Pcs, NoRequest
  <2>3. StepHolds(c)'
    BY <2>1, <2>2 DEF StepHolds, At, Active
  <2>. QED  BY <2>1, <2>3, <1>0, <1>1, <1>2, NoSessionOK DEF Pcs
<1>4. ASSUME ReturnStopped(c) PROVE SessionFollows'
  <2>1. req[c].pc \in {"expire", "stop"} /\ Finish(c) /\ session' = NoSession
    BY <1>4 DEF ReturnStopped
  <2>2. StepHolds(c)'
    BY <2>1, <1>0, FinishIdle
  <2>. QED  BY <2>1, <2>2, <1>0, <1>1, <1>2, NoSessionOK DEF Pcs
<1>5. ASSUME ReturnStarted(c) PROVE SessionFollows'
  <2>1. req[c].pc = "start" /\ Finish(c)
    BY <1>5 DEF ReturnStarted, At
  <2>2. \A d \in Clients : StepHolds(d)'
    BY <2>1, <1>0, <1>1, <1>2, FinishIdle, OthersIdle DEF Pcs
  <2>3. CASE call[c].answer = "ok"
    <3>1. /\ lastSession' = lastSession + 1
          /\ session' = [id |-> lastSession + 1, appliance |-> req[c].appliance,
                         state |-> "learning", expires |-> now + LearnTime,
                         capture |-> 0]
      BY <2>3, <1>5 DEF ReturnStarted
    <3>2. req[c].appliance \in Appliances
      BY <2>1, <1>0, RequestTyped DEF RequestsOf, NoRequest
    <3>3. lastSession \in Nat /\ lastSession + 1 \in SessionIds
      <4>1. IsFiniteSet(Started')
        BY ControllerConstants, FS_Subset DEF Started
      <4>2. Cardinality(Started)' \in Nat
        BY <4>1, FS_CardinalityType
      <4>3. lastSession \in Nat /\ lastSession + 1 + Cardinality(Started)' =< MaxSessions
        BY <3>1, <1>0 DEF RequestOK
      <4>. QED  BY <4>2, <4>3, LearningConstants DEF SessionIds
    <3>4. now + LearnTime \in Nat /\ 0 \in Captures
      BY <1>0, ControllerConstants DEF RequestOK, ControllerTypeOK, Captures
    <3>5. session' \in Sessions
      BY <3>1, <3>2, <3>3, <3>4 DEF Sessions
    <3>6. SessionOK'
      BY <3>1, <3>3, <3>5 DEF SessionOK, Active
    <3>. QED  BY <3>6, <2>2 DEF SessionFollows
  <2>4. CASE call[c].answer # "ok"
    BY <2>2, <2>4, <1>5, <1>0 DEF ReturnStarted, SessionFollows, SessionOK, Active
  <2>. QED  BY <2>3, <2>4
<1>6. ASSUME ReturnPolled(c) PROVE SessionFollows'
  <2>1. req[c].pc = "poll" /\ lastSession' = lastSession
    BY <1>6 DEF ReturnPolled, At
  <2>2. Active /\ session \in Sessions /\ session.id =< lastSession
    BY <2>1, <1>0 DEF SessionFollows, StepHolds, SessionOK, Active, At
  <2>3. ASSUME session' = NoSession, Finish(c) PROVE SessionFollows'
    BY <2>1, <2>3, <1>0, <1>1, <1>2, NoSessionOK, FinishIdle DEF Pcs
  <2>4. ASSUME UNCHANGED session, Finish(c) PROVE SessionFollows'
    <3>1. \A d \in Clients : StepHolds(d)'
      BY <2>1, <2>4, <1>0, <1>1, <1>2, FinishIdle, OthersIdle DEF Pcs
    <3>. QED  BY <3>1, <2>1, <2>4, <1>0 DEF SessionFollows, SessionOK, Active
  <2>5. ASSUME call[c].answer = "captured", GoesTo(c, "captured"),
               session' = [session EXCEPT !.capture = device.capture, !.state = "captured"]
        PROVE  SessionFollows'
    <3>1. device.capture \in Captures /\ device.capture # 0
      BY <2>5, <1>0 DEF AnswerHolds, DeviceOK, RequestOK, ControllerTypeOK, Captures
    <3>. DEFINE s1 == [session EXCEPT !.capture = device.capture]
    <3>2. s1 \in Sessions /\ s1.capture = device.capture /\ s1.id = session.id
      BY <2>2, <3>1 DEF Sessions
    <3>3. session' = [s1 EXCEPT !.state = "captured"]
      BY <2>5, <2>2 DEF Sessions
    <3>. HIDE DEF s1
    <3>4. /\ session' \in Sessions /\ session'.capture # 0 /\ session'.state = "captured"
          /\ session'.id = session.id
      BY <3>1, <3>2, <3>3 DEF Sessions
    <3>5. session' # NoSession
      BY <3>4 DEF Sessions, NoSession, SessionIds
    <3>6. SessionOK'
      BY <3>4, <3>5, <2>1, <2>2 DEF SessionOK, Active
    <3>7. req'[c].pc = "captured"
      BY <2>1, <2>5, <1>0, GoesReq DEF Pcs, NoRequest
    <3>8. StepHolds(c)'
      BY <3>4, <3>5, <3>7 DEF StepHolds, At, Active
    <3>. QED  BY <3>6, <3>8, <2>1, <1>0, <1>1, <1>2, OthersIdle DEF SessionFollows, Pcs
  <2>. QED  BY <1>6, <2>3, <2>4, <2>5 DEF ReturnPolled
<1>7. ASSUME ReturnCaptured(c) \/ ReturnSent(c) PROVE SessionFollows'
  <2>1. Finish(c) /\ UNCHANGED <<session, irActions, lastSession>>
    BY <1>7 DEF ReturnCaptured, ReturnSent
  <2>. QED
    BY <2>1, <1>0, FinishSteps DEF SessionFollows, SessionOK, Active
<1>. QED  BY <1>3, <1>4, <1>5, <1>6, <1>7 DEF Return

LEMMA StoringHolds ==
    ASSUME LearningInv, NEW c \in Clients, At(c, "store")
    PROVE  /\ irMu = c
           /\ req[c] \in RequestsOf(req[c].kind)
           /\ Active /\ session \in Sessions /\ session.appliance = req[c].appliance
           /\ session.state = "captured" /\ session.capture # 0
           /\ ~Confirmed(req[c].appliance, req[c].name)
           /\ Saved(c) \in Rows
<1>0. RequestOK /\ HolderWorks /\ SessionFollows /\ RowsOK
  BY DEF LearningInv
<1>1. irMu = c
  BY <1>0, CallerHolds DEF At, Pcs
<1>2. req[c] \in RequestsOf(req[c].kind)
  BY <1>0, RequestTyped DEF At, NoRequest
<1>3. /\ Active /\ session.appliance = req[c].appliance /\ session.state = "captured"
      /\ ~Confirmed(req[c].appliance, req[c].name)
  BY <1>0 DEF SessionFollows, StepHolds, Own
<1>4. session \in Sessions /\ session.capture # 0
  BY <1>0, <1>3 DEF SessionFollows, SessionOK, Active
<1>5. Cardinality({x \in irActions : x.session # 0}) + 1 \in Nat
  BY <1>0, FS_Subset, FS_CardinalityType DEF RowsOK
<1>6. Saved(c) \in Rows
  BY <1>2, <1>4, <1>5 DEF Saved, Rows, Sessions, RequestsOf
<1>. QED  BY <1>1, <1>2, <1>3, <1>4, <1>6

LEMMA RowsGrow ==
    ASSUME RowsOK, NEW x \in Rows, irActions' = irActions \cup {x},
           x.session # 0 => ~Confirmed(x.appliance, x.name)
    PROVE  RowsOK'
<1>1. irActions' \subseteq Rows /\ IsFiniteSet(irActions')
  BY FS_AddElement DEF RowsOK
<1>2. ConfirmedNamesUnique'
  BY DEF RowsOK, ConfirmedNamesUnique, Confirmed
<1>. QED  BY <1>1, <1>2 DEF RowsOK

LEMMA RowsInit == Init => RowsOK /\ SessionFollows
<1>. SUFFICES ASSUME Init PROVE RowsOK /\ SessionFollows
  OBVIOUS
<1>1. RowsOK
  BY FS_EmptySet DEF Init, RowsOK, ConfirmedNamesUnique
<1>2. SessionFollows
  BY DEF Init, SessionFollows, SessionOK, StepHolds, Active, At, NoRequest
<1>. QED  BY <1>1, <1>2

LEMMA RowsStep == LearningInv /\ [Next]_vars => RowsOK'
<1>. SUFFICES ASSUME LearningInv, [Next]_vars PROVE RowsOK'
  OBVIOUS
<1>0. RowsOK
  BY DEF LearningInv
<1>1. ASSUME UNCHANGED irActions PROVE RowsOK'
  BY <1>0, <1>1 DEF RowsOK, ConfirmedNamesUnique
<1>2. ASSUME NEW c \in Clients, StoreAction(c) \/ StoreFails(c) PROVE RowsOK'
  <2>1. At(c, "store") /\ irActions' \in {irActions, irActions \cup {Saved(c)}}
    BY <1>2 DEF StoreAction, StoreFails
  <2>2. Saved(c) \in Rows /\ ~Confirmed(Saved(c).appliance, Saved(c).name)
    BY <2>1, StoringHolds DEF Saved
  <2>. QED  BY <1>0, <1>1, <2>1, <2>2, RowsGrow
<1>3. ASSUME DirectCreate PROVE RowsOK'
  <2>1. PICK a \in Appliances, n \in Names :
          irActions' = irActions \cup {[row |-> 0, appliance |-> a, name |-> n,
                                        session |-> 0, capture |-> 0]}
    BY <1>3 DEF DirectCreate
  <2>. DEFINE x == [row |-> 0, appliance |-> a, name |-> n, session |-> 0, capture |-> 0]
  <2>2. x \in Rows /\ x.session = 0
    BY ControllerConstants, LearningConstants DEF Rows, SessionIds, Captures
  <2>. HIDE DEF x
  <2>3. irActions' = irActions \cup {x}
    BY <2>1 DEF x
  <2>. QED  BY <1>0, <2>2, <2>3, RowsGrow
<1>4. ASSUME NEW c \in Clients,
             Arrive(c) \/ Enter(c) \/ CallController(c) \/ RefusedAsBusy(c) \/ Return(c)
      PROVE  UNCHANGED irActions
  BY <1>4 DEF Arrive, Enter, EnterStart, EnterStatus, EnterConfirm, EnterStop, Enters,
              CallController, learningVars, RefusedAsBusy, Return, ReturnReplaced,
              ReturnStopped, ReturnStarted, ReturnPolled, ReturnCaptured, ReturnSent
<1>5. ASSUME Environment \/ Restart \/ UNCHANGED vars PROVE UNCHANGED irActions
  BY <1>5 DEF Environment, Restart, vars, learningVars
<1>. QED  BY <1>1, <1>2, <1>3, <1>4, <1>5 DEF Next, Serve

LEMMA SessionStep == LearningInv /\ RequestOK' /\ [Next]_vars => SessionFollows'
<1>. SUFFICES ASSUME LearningInv, RequestOK', [Next]_vars PROVE SessionFollows'
  OBVIOUS
<1>0. RequestOK /\ HolderWorks /\ OneCall /\ SessionFollows
  BY DEF LearningInv
<1>1. ASSUME NEW c \in Clients, Arrive(c) PROVE SessionFollows'
  <2>1. UNCHANGED <<session, irActions, lastSession>>
    BY <1>1 DEF Arrive
  <2>2. PICK kind \in Kinds, a \in Appliances, id \in 0 .. lastSession,
             cap \in 0 .. device.last, n \in Names :
          req' = [req EXCEPT ![c] = [pc |-> "wait", kind |-> kind, appliance |-> a,
                                     id |-> id, capture |-> cap, name |-> n]]
    BY <1>1 DEF Arrive
  <2>3. req'[c].pc = "wait"
    BY <2>2, <1>0 DEF RequestOK
  <2>4. StepHolds(c)'
    BY <2>3 DEF StepHolds, At
  <2>5. ASSUME NEW d \in Clients, d # c PROVE StepHolds(d)'
    <3>1. req'[d] = req[d] /\ StepHolds(d)
      BY <2>2, <2>5, <1>0, OthersStay DEF SessionFollows
    <3>. QED  BY <2>1, <3>1 DEF StepHolds, At, Active, Own, Confirmed
  <2>. QED  BY <2>1, <2>4, <2>5, <1>0 DEF SessionFollows, SessionOK, Active
<1>2. ASSUME UNCHANGED <<session, req, irActions, lastSession>> PROVE SessionFollows'
  BY <1>0, <1>2 DEF SessionFollows, SessionOK, StepHolds, Active, At, Own, Confirmed
<1>3. ASSUME NEW c \in Clients, RefusedAsBusy(c) PROVE SessionFollows'
  <2>1. Finish(c) /\ UNCHANGED <<session, irActions, lastSession>>
    BY <1>3 DEF RefusedAsBusy
  <2>. QED  BY <2>1, <1>0, FinishSteps DEF SessionFollows, SessionOK, Active
<1>4. ASSUME NEW c \in Clients, StoreAction(c) \/ StoreFails(c) PROVE SessionFollows'
  <2>1. /\ At(c, "store") /\ Finish(c) /\ session' \in {session, NoSession}
        /\ UNCHANGED lastSession
    BY <1>4 DEF StoreAction, StoreFails
  <2>2. irMu = c /\ StepHolds(c)'
    BY <2>1, <1>0, StoringHolds, FinishIdle
  <2>3. PICK r : req' = [req EXCEPT ![c] = r]
    BY <2>1, ReqFinish
  <2>4. \A d \in Clients : StepHolds(d)'
    BY <2>2, <2>3, <1>0, OthersIdle
  <2>5. SessionOK'
    BY <2>1, <1>0 DEF SessionFollows, SessionOK, Active
  <2>. QED  BY <2>4, <2>5 DEF SessionFollows
<1>5. ASSUME DirectCreate PROVE SessionFollows'
  <2>1. UNCHANGED <<session, req, lastSession>>
    BY <1>5 DEF DirectCreate
  <2>2. PICK a \in Appliances, n \in Names :
          irActions' = irActions \cup {[row |-> 0, appliance |-> a, name |-> n,
                                        session |-> 0, capture |-> 0]}
    BY <1>5 DEF DirectCreate
  <2>3. ASSUME NEW a1, NEW n1 PROVE Confirmed(a1, n1)' <=> Confirmed(a1, n1)
    BY <2>2 DEF Confirmed
  <2>4. ASSUME NEW d \in Clients PROVE StepHolds(d)'
    <3>1. StepHolds(d)
      BY <1>0 DEF SessionFollows
    <3>2. Confirmed(req[d].appliance, req[d].name)' <=> Confirmed(req[d].appliance, req[d].name)
      BY <2>1, <2>2 DEF Confirmed
    <3>. QED  BY <2>1, <3>1, <3>2 DEF StepHolds, At, Active, Own
  <2>. QED  BY <2>1, <2>4, <1>0 DEF SessionFollows, SessionOK, Active
<1>6. ASSUME Restart PROVE SessionFollows'
  BY <1>6 DEF Restart, SessionFollows, SessionOK, StepHolds, Active, At, NoRequest
<1>7. ASSUME \/ \E c \in Clients : CallController(c)
             \/ Environment \/ UNCHANGED vars
      PROVE  UNCHANGED <<session, req, irActions, lastSession>>
  BY <1>7 DEF CallController, Environment, vars, learningVars
<1>. QED
  BY <1>1, <1>2, <1>3, <1>4, <1>5, <1>6, <1>7, EnterSession, ReturnSession DEF Next, Serve

-----------------------------------------------------------------------------
(* The controller's answers, the captures and the flag *)

\* What handling one request may do to the controller, and what its answer says.
Handled(op, answer) ==
    /\ DeviceOK' /\ device'.last = device.last
    /\ answer = "expired" => AnswersWith408
    /\ answer = "captured" => device'.mode = "captured"
    /\ answer \in {"idle", "timeout", "error"} => device'.mode # "learning"
    /\ op = "start" /\ answer = "ok" => device'.capture = 0
    /\ op # "start" => /\ device'.capture = device.capture
                       /\ device'.mode = "learning" => device.mode = "learning"

LEMMA DeviceHandled ==
    ASSUME ControllerTypeOK, DeviceOK, NEW op \in Ops, NEW answer,
           DeviceHandles(op, answer)
    PROVE  Handled(op, answer)
<1>. DEFINE D == [mode : {"idle", "learning", "captured", "timeout"},
                  deadline : Nat, capture : 0 .. MaxCaptures,
                  usable : BOOLEAN, last : 0 .. MaxCaptures]
<1>1. device \in D
  BY DEF ControllerTypeOK
<1>2. ASSUME op = "start", DeviceStarts(answer) PROVE Handled(op, answer)
  <2>1. /\ device'.mode = "learning" /\ device'.capture = 0
        /\ device'.last = device.last /\ answer = "ok"
    BY <1>1, <1>2 DEF DeviceStarts
  <2>2. device.last \in Nat
    BY <1>1, ControllerConstants
  <2>. QED  BY <1>2, <2>1, <2>2 DEF Handled, DeviceOK
<1>3. ASSUME op = "status", DeviceReports(answer) PROVE Handled(op, answer)
  <2>1. CASE UNCHANGED device /\ answer = IF device.mode # "timeout" THEN device.mode
                                         ELSE IF AnswersWith408 THEN "expired" ELSE "timeout"
    BY <1>1, <1>3, <2>1 DEF Handled, DeviceOK
  <2>2. CASE device' = [device EXCEPT !.mode = "idle"] /\ answer = "error"
    BY <1>1, <1>3, <2>2 DEF Handled, DeviceOK
  <2>. QED  BY <1>3, <2>1, <2>2 DEF DeviceReports
<1>4. ASSUME op = "stop", DeviceStops(answer) PROVE Handled(op, answer)
  BY <1>1, <1>4 DEF DeviceStops, Handled, DeviceOK
<1>5. ASSUME op = "send", DeviceSends(answer) PROVE Handled(op, answer)
  BY <1>1, <1>5 DEF DeviceSends, Handled, DeviceOK
<1>. QED  BY <1>2, <1>3, <1>4, <1>5 DEF DeviceHandles, Ops

LEMMA RequestHandled ==
    ASSUME ControllerTypeOK, DeviceOK, NEW c \in Clients, NEW op \in Ops, Request(c, op)
    PROVE  \E answer \in Answers :
             /\ Handled(op, answer)
             /\ call' = [call EXCEPT ![c] = [op |-> op, answer |-> answer]]
<1>1. PICK answer \in Answers :
        /\ \/ DeviceHandles(op, answer)
           \/ answer = "fails" /\ UNCHANGED device
           \/ answer = "fails" /\ \E a \in Answers : DeviceHandles(op, a)
        /\ call' = [call EXCEPT ![c] = [op |-> op, answer |-> answer]]
  BY DEF Request
<1>2. CASE DeviceHandles(op, answer)
  BY <1>1, <1>2, DeviceHandled
<1>3. CASE answer = "fails" /\ UNCHANGED device
  BY <1>1, <1>3 DEF Handled, DeviceOK
<1>4. CASE answer = "fails" /\ \E a \in Answers : DeviceHandles(op, a)
  <2>1. PICK a \in Answers : DeviceHandles(op, a)
    BY <1>4
  <2>2. Handled(op, a)
    BY <2>1, DeviceHandled
  <2>. QED  BY <1>1, <1>4, <2>2 DEF Handled
<1>. QED  BY <1>1, <1>2, <1>3, <1>4

LEMMA CallSays ==
    ASSUME OneCall, NEW c \in Clients, call[c] # NoCall
    PROVE  /\ req[c].pc \in {"replace", "expire", "captured", "stop"} => call[c].op = "stop"
           /\ At(c, "start") => call[c].op = "start"
           /\ At(c, "poll") => call[c].op = "status"
           /\ At(c, "wait") => call[c].op = "send"
           /\ call[c].op = "start" => At(c, "start")
BY DEF OneCall, Needs, At, Ops

LEMMA AnswerInit == Init => AnswerHolds /\ CapturesFollow /\ FlagFollows
<1>. SUFFICES ASSUME Init PROVE AnswerHolds /\ CapturesFollow /\ FlagFollows
  OBVIOUS
<1>1. AnswerHolds
  BY DEF Init, ControllerInit, AnswerHolds, DeviceOK, NoCall
<1>2. CapturesFollow /\ FlagFollows
  BY DEF Init, ControllerInit, CapturesFollow, FlagFollows, Active
<1>. QED  BY <1>1, <1>2

LEMMA CallStep ==
    ASSUME LearningInv, NEW c \in Clients, CallController(c)
    PROVE  AnswerHolds' /\ CapturesFollow' /\ FlagFollows'
<1>0. /\ RequestOK /\ OneCall /\ SessionFollows /\ AnswerHolds
      /\ CapturesFollow /\ FlagFollows /\ ControllerTypeOK /\ DeviceOK
  BY DEF LearningInv, RequestOK, AnswerHolds
<1>1. UNCHANGED <<session, irActions, now, until>>
  BY DEF CallController, learningVars, Request
<1>2. Needs(c) \in Ops /\ (Needs(c) = "start" => ~Active)
  BY <1>0 DEF CallController, Needs, Ops, At, SessionFollows, StepHolds
<1>3. PICK answer \in Answers :
        /\ Handled(Needs(c), answer)
        /\ call' = [call EXCEPT ![c] = [op |-> Needs(c), answer |-> answer]]
  BY <1>0, <1>2, RequestHandled DEF CallController
<1>4. \A d \in Clients : d # c => call'[d] = NoCall
  BY <1>0, <1>3 DEF CallController, Request, OperationFree, ControllerTypeOK
<1>5. call'[c].op = Needs(c) /\ call'[c].answer = answer
  BY <1>0, <1>3 DEF ControllerTypeOK
<1>6. AnswerHolds'
  <2>1. ASSUME NEW d \in Clients
        PROVE  /\ call'[d].answer = "expired" => AnswersWith408
               /\ call'[d].answer = "captured" => device'.mode = "captured"
               /\ call'[d].answer \in {"idle", "timeout", "error"} => device'.mode # "learning"
               /\ call'[d].op = "start" /\ call'[d].answer = "ok" => device'.capture = 0
    <3>1. CASE d = c
      BY <3>1, <1>3, <1>5 DEF Handled
    <3>2. CASE d # c
      BY <3>2, <1>4 DEF NoCall
    <3>. QED  BY <3>1, <3>2
  <2>2. DeviceOK'
    BY <1>3 DEF Handled
  <2>. QED  BY <2>1, <2>2, <1>1 DEF AnswerHolds
<1>7. CapturesFollow' /\ FlagFollows'
  <2>1. CASE Needs(c) = "start"
    BY <2>1, <1>0, <1>1, <1>2, <1>3 DEF Handled, CapturesFollow, FlagFollows, Active
  <2>2. CASE Needs(c) # "start"
    BY <2>2, <1>0, <1>1, <1>3 DEF Handled, CapturesFollow, FlagFollows, Active
  <2>. QED  BY <2>1, <2>2
<1>. QED  BY <1>6, <1>7

LEMMA ReturnStep ==
    ASSUME LearningInv, NEW c \in Clients, Return(c)
    PROVE  AnswerHolds' /\ CapturesFollow' /\ FlagFollows'
<1>0. /\ RequestOK /\ OneCall /\ SessionFollows /\ AnswerHolds
      /\ CapturesFollow /\ FlagFollows
  BY DEF LearningInv
<1>1. /\ UNCHANGED <<now, device, irActions>> /\ call[c] # NoCall
      /\ call' = [call EXCEPT ![c] = NoCall]
      /\ Learned(call[c].op, call[c].answer)
  BY DEF Return, ReturnReplaced, ReturnStopped, ReturnStarted, ReturnPolled,
         ReturnCaptured, ReturnSent, Answered
<1>2. AnswerHolds'
  <2>1. \A d \in Clients : call'[d] \in {call[d], NoCall}
    BY <1>0, <1>1 DEF RequestOK, ControllerTypeOK
  <2>2. ASSUME NEW d \in Clients
        PROVE  /\ call'[d].answer = "expired" => AnswersWith408
               /\ call'[d].answer = "captured" => device.mode = "captured"
               /\ call'[d].answer \in {"idle", "timeout", "error"} => device.mode # "learning"
               /\ call'[d].op = "start" /\ call'[d].answer = "ok" =>
                    \A x \in irActions : x.capture # 0 => x.capture # device.capture
    BY <1>0, <2>1 DEF AnswerHolds, NoCall
  <2>. QED  BY <2>2, <1>0, <1>1 DEF AnswerHolds, DeviceOK
<1>3. ASSUME session' = NoSession, ~AnswersWith408 => until' = 0
      PROVE  CapturesFollow' /\ FlagFollows'
  BY <1>3, <1>0, <1>1 DEF CapturesFollow, FlagFollows, Active
<1>4. ASSUME ReturnReplaced(c) \/ ReturnStopped(c) PROVE CapturesFollow' /\ FlagFollows'
  <2>1. session' = NoSession /\ call[c].op = "stop"
    BY <1>0, <1>1, <1>4, CallSays DEF ReturnReplaced, ReturnStopped, At
  <2>2. until' = 0
    BY <1>1, <2>1 DEF Learned
  <2>. QED  BY <1>3, <2>1, <2>2
<1>5. ASSUME ReturnStarted(c) PROVE CapturesFollow' /\ FlagFollows'
  <2>1. call[c].op = "start" /\ ~Active
    BY <1>0, <1>1, <1>5, CallSays DEF ReturnStarted, SessionFollows, StepHolds
  <2>2. CASE call[c].answer = "ok"
    <3>1. session'.state = "learning" /\ session'.expires = now + LearnTime
      BY <2>2, <1>5 DEF ReturnStarted
    <3>2. until' = now + LearnTime
      BY <2>1, <2>2, <1>1 DEF Learned
    <3>3. \A x \in irActions : x.capture # 0 => x.capture # device.capture
      BY <2>1, <2>2, <1>0 DEF AnswerHolds
    <3>4. session' # NoSession
      BY <2>2, <1>5, <3>1 DEF ReturnStarted, NoSession
    <3>. QED
      BY <3>1, <3>2, <3>3, <3>4, <1>0, <1>1 DEF CapturesFollow, FlagFollows, Active
  <2>3. CASE call[c].answer # "ok"
    <3>1. UNCHANGED <<session, until>>
      BY <2>1, <2>3, <1>1, <1>5 DEF ReturnStarted, Learned
    <3>. QED  BY <3>1, <1>0, <1>1 DEF CapturesFollow, FlagFollows, Active
  <2>. QED  BY <2>2, <2>3
<1>6. ASSUME ReturnPolled(c) PROVE CapturesFollow' /\ FlagFollows'
  <2>1. /\ call[c].op = "status" /\ Active /\ session.state = "learning"
        /\ session \in Sessions
    BY <1>0, <1>1, <1>6, CallSays
       DEF ReturnPolled, SessionFollows, StepHolds, SessionOK, Active
  <2>2. ASSUME call[c].answer \in {"expired", "timeout", "idle"}, session' = NoSession
        PROVE  CapturesFollow' /\ FlagFollows'
    <3>1. ~AnswersWith408 => call[c].answer # "expired"
      BY <1>0 DEF AnswerHolds
    <3>2. ~AnswersWith408 => until' = 0
      BY <2>1, <2>2, <3>1, <1>1 DEF Learned
    <3>. QED  BY <1>3, <2>2, <3>2
  <2>3. ASSUME call[c].answer = "captured",
               session' = [session EXCEPT !.capture = device.capture, !.state = "captured"]
        PROVE  CapturesFollow' /\ FlagFollows'
    <3>1. until' = 0 /\ device.mode = "captured"
      BY <2>1, <2>3, <1>0, <1>1 DEF Learned, AnswerHolds
    <3>2. /\ session'.state = "captured" /\ session'.capture = device.capture
          /\ session'.id = session.id
      BY <2>1, <2>3 DEF Sessions
    <3>3. session' # NoSession
      BY <2>1, <3>2 DEF Sessions, NoSession, SessionIds
    <3>. QED
      BY <3>1, <3>2, <3>3, <2>1, <1>0, <1>1 DEF CapturesFollow, FlagFollows, Active
  <2>4. ASSUME UNCHANGED session, call[c].answer \in {"captured", "error"}
        PROVE  CapturesFollow' /\ FlagFollows'
    <3>1. until' = 0 /\ device.mode # "learning"
      BY <2>1, <2>4, <1>0, <1>1 DEF Learned, AnswerHolds
    <3>. QED  BY <2>1, <2>4, <3>1, <1>0, <1>1 DEF CapturesFollow, FlagFollows, Active
  <2>5. ASSUME UNCHANGED session, call[c].answer \in {"fails", "learning"}
        PROVE  CapturesFollow' /\ FlagFollows'
    <3>1. until' = until
      BY <2>1, <2>5, <1>1 DEF Learned
    <3>. QED  BY <2>5, <3>1, <1>0, <1>1 DEF CapturesFollow, FlagFollows, Active
  <2>. QED  BY <1>6, <2>2, <2>3, <2>4, <2>5 DEF ReturnPolled
<1>7. ASSUME ReturnCaptured(c) PROVE CapturesFollow' /\ FlagFollows'
  <2>1. /\ call[c].op = "stop" /\ UNCHANGED session
        /\ Active /\ session.state = "captured"
    BY <1>0, <1>1, <1>7, CallSays DEF ReturnCaptured, SessionFollows, StepHolds, At
  <2>2. until' = 0
    BY <2>1, <1>1 DEF Learned
  <2>. QED  BY <2>1, <2>2, <1>0, <1>1 DEF CapturesFollow, FlagFollows, Active
<1>8. ASSUME ReturnSent(c) PROVE CapturesFollow' /\ FlagFollows'
  <2>1. call[c].op = "send" /\ UNCHANGED session
    BY <1>0, <1>1, <1>8, CallSays DEF ReturnSent
  <2>2. until' = until
    BY <2>1, <1>1 DEF Learned
  <2>. QED  BY <2>1, <2>2, <1>0, <1>1 DEF CapturesFollow, FlagFollows, Active
<1>. QED  BY <1>2, <1>4, <1>5, <1>6, <1>7, <1>8 DEF Return

LEMMA StoreStep ==
    ASSUME LearningInv, NEW c \in Clients, StoreAction(c) \/ StoreFails(c)
    PROVE  AnswerHolds' /\ CapturesFollow' /\ FlagFollows'
<1>0. /\ RequestOK /\ HolderWorks /\ OneCall /\ RowsOK /\ AnswerHolds
      /\ CapturesFollow /\ FlagFollows
  BY DEF LearningInv
<1>1. /\ At(c, "store") /\ UNCHANGED <<now, device, until, call>>
      /\ irActions' \in {irActions, irActions \cup {Saved(c)}}
      /\ session' \in {session, NoSession}
  BY DEF StoreAction, StoreFails, controllerVars
<1>2. /\ Active /\ session.state = "captured" /\ irMu = c
      /\ session.capture = device.capture
  BY <1>0, <1>1, StoringHolds DEF CapturesFollow, LearningInv
<1>3. /\ Saved(c).capture = device.capture /\ Saved(c).session = session.id
      /\ device.capture =< device.last
  BY <1>0, <1>2 DEF Saved, AnswerHolds, DeviceOK
<1>4. AnswerHolds'
  <2>1. \A d \in Clients : call[d].op # "start"
    <3>1. ASSUME NEW d \in Clients, call[d].op = "start" PROVE FALSE
      <4>1. At(d, "start")
        BY <3>1, <1>0, CallSays DEF NoCall
      <4>2. irMu = d
        BY <4>1, <1>0, CallerHolds DEF At, Pcs
      <4>. QED  BY <4>1, <4>2, <1>1, <1>2 DEF At
    <3>. QED  BY <3>1
  <2>. QED  BY <2>1, <1>0, <1>1 DEF AnswerHolds, DeviceOK
<1>5. CapturesFollow'
  <2>. DEFINE z == Saved(c)
  <2>1. /\ z.capture = device.capture /\ z.session = session.id
        /\ device.capture =< device.last
    BY <1>3
  <2>2. \A x \in irActions' : x \in irActions \/ x = z
    BY <1>1
  <2>. HIDE DEF z
  <2>3. \A x \in irActions' :
          /\ x.capture =< device.last
          /\ x.capture # 0 /\ x.capture = device.capture => x.session = session.id
    BY <2>1, <2>2, <1>0, <1>2 DEF CapturesFollow
  <2>4. \A x, y \in irActions' :
          x.capture = y.capture /\ x.capture # 0 => x.session = y.session
    BY <2>1, <2>2, <1>0, <1>2 DEF CapturesFollow
  <2>. QED  BY <2>3, <2>4, <1>0, <1>1 DEF CapturesFollow, Active
<1>6. FlagFollows'
  BY <1>0, <1>1, <1>2 DEF FlagFollows, Active
<1>. QED  BY <1>4, <1>5, <1>6

LEMMA CreateStep ==
    ASSUME LearningInv, DirectCreate
    PROVE  AnswerHolds' /\ CapturesFollow' /\ FlagFollows'
<1>0. RequestOK /\ AnswerHolds /\ CapturesFollow /\ FlagFollows
  BY DEF LearningInv
<1>1. PICK a \in Appliances, n \in Names :
        irActions' = irActions \cup {[row |-> 0, appliance |-> a, name |-> n,
                                      session |-> 0, capture |-> 0]}
  BY DEF DirectCreate
<1>. DEFINE z == [row |-> 0, appliance |-> a, name |-> n, session |-> 0, capture |-> 0]
<1>2. z.capture = 0 /\ \A x \in irActions' : x \in irActions \/ x = z
  BY <1>1
<1>. HIDE DEF z
<1>3. UNCHANGED <<now, device, until, call, session>> /\ 0 =< device.last
  BY <1>0, ControllerConstants DEF DirectCreate, controllerVars, RequestOK, ControllerTypeOK
<1>4. AnswerHolds'
  BY <1>0, <1>2, <1>3 DEF AnswerHolds, DeviceOK
<1>5. CapturesFollow'
  BY <1>0, <1>2, <1>3 DEF CapturesFollow, Active
<1>6. FlagFollows'
  BY <1>0, <1>3 DEF FlagFollows, Active
<1>. QED  BY <1>4, <1>5, <1>6

LEMMA DeviceStep ==
    ASSUME LearningInv, RequestOK', Environment
    PROVE  AnswerHolds' /\ CapturesFollow' /\ FlagFollows'
<1>. DEFINE D == [mode : {"idle", "learning", "captured", "timeout"},
                  deadline : Nat, capture : 0 .. MaxCaptures,
                  usable : BOOLEAN, last : 0 .. MaxCaptures]
<1>0. /\ AnswerHolds /\ CapturesFollow /\ FlagFollows /\ device \in D
      /\ UNCHANGED <<session, irActions, until, call>>
  BY DEF LearningInv, RequestOK, ControllerTypeOK, Environment, learningVars, Controller,
         DeviceCaptures, DeviceTimesOut, DeviceGoesIdle, TimePasses
<1>1. ASSUME DeviceCaptures PROVE AnswerHolds' /\ CapturesFollow' /\ FlagFollows'
  <2>1. /\ device.mode = "learning" /\ device'.mode = "captured"
        /\ device'.capture = device.last + 1 /\ device'.last = device.last + 1
        /\ device.last \in Nat
    BY <1>0, <1>1, ControllerConstants DEF DeviceCaptures
  <2>2. \A x \in irActions : x.capture =< device.last /\ (x.capture \in Nat)
    BY <1>0 DEF CapturesFollow, LearningInv, RowsOK, Rows, Captures
  <2>3. \A x \in irActions : x.capture # device'.capture /\ x.capture =< device'.last
    BY <2>1, <2>2
  <2>4. AnswerHolds'
    BY <1>0, <2>1, <2>3 DEF AnswerHolds, DeviceOK
  <2>5. CapturesFollow'
    BY <1>0, <2>1, <2>3 DEF CapturesFollow, Active
  <2>6. FlagFollows'
    BY <1>0, <2>1 DEF FlagFollows, Active
  <2>. QED  BY <2>4, <2>5, <2>6
<1>2. ASSUME DeviceTimesOut \/ DeviceGoesIdle
      PROVE  AnswerHolds' /\ CapturesFollow' /\ FlagFollows'
  <2>1. /\ device'.capture = device.capture /\ device'.last = device.last
        /\ device.mode # "captured" /\ device'.mode \in {"timeout", "idle"}
    BY <1>0, <1>2 DEF DeviceTimesOut, DeviceGoesIdle
  <2>2. AnswerHolds'
    BY <1>0, <2>1 DEF AnswerHolds, DeviceOK
  <2>3. CapturesFollow' /\ FlagFollows'
    BY <1>0, <2>1 DEF CapturesFollow, FlagFollows, Active
  <2>. QED  BY <2>2, <2>3
<1>3. ASSUME TimePasses PROVE AnswerHolds' /\ CapturesFollow' /\ FlagFollows'
  BY <1>0, <1>3 DEF TimePasses, AnswerHolds, DeviceOK, CapturesFollow, FlagFollows, Active
<1>. QED  BY <1>1, <1>2, <1>3 DEF Environment, Controller

LEMMA AnswerStep ==
    LearningInv /\ RequestOK' /\ [Next]_vars => AnswerHolds' /\ CapturesFollow' /\ FlagFollows'
<1>. SUFFICES ASSUME LearningInv, RequestOK', [Next]_vars
              PROVE  AnswerHolds' /\ CapturesFollow' /\ FlagFollows'
  OBVIOUS
<1>1. ASSUME UNCHANGED <<now, device, until, call, session, irActions>>
      PROVE  AnswerHolds' /\ CapturesFollow' /\ FlagFollows'
  BY <1>1 DEF LearningInv, AnswerHolds, DeviceOK, CapturesFollow, FlagFollows, Active
<1>2. ASSUME NEW c \in Clients, Arrive(c) \/ Enter(c) \/ RefusedAsBusy(c)
      PROVE  UNCHANGED <<now, device, until, call, session, irActions>>
  BY <1>2 DEF Arrive, Enter, EnterStart, EnterStatus, EnterConfirm, EnterStop, Enters,
              RefusedAsBusy, controllerVars
<1>3. ASSUME UNCHANGED vars
      PROVE  UNCHANGED <<now, device, until, call, session, irActions>>
  BY <1>3 DEF vars, controllerVars, learningVars
<1>4. ASSUME Restart PROVE AnswerHolds' /\ CapturesFollow' /\ FlagFollows'
  <2>1. /\ session' = NoSession /\ until' = 0 /\ UNCHANGED <<device, irActions>>
        /\ \A c \in Clients : call'[c] = NoCall
    BY <1>4 DEF Restart
  <2>. QED
    BY <2>1 DEF LearningInv, AnswerHolds, DeviceOK, CapturesFollow, FlagFollows, Active,
                NoCall
<1>. QED
  BY <1>1, <1>2, <1>3, <1>4, CallStep, ReturnStep, StoreStep, CreateStep, DeviceStep
     DEF Next, Serve

-----------------------------------------------------------------------------
(* Results *)

\* The inductive invariant: irMu, the session, the one request at the controller,
\* the captures and the client's flag agree at every step of every request.
THEOREM LearningInvariant == Spec => []LearningInv
<1>1. Init => LearningInv
  BY RequestInit, HolderInit, RowsInit, AnswerInit DEF LearningInv
<1>2. LearningInv /\ [Next]_vars => LearningInv'
  <2>. SUFFICES ASSUME LearningInv, [Next]_vars PROVE LearningInv'
    OBVIOUS
  <2>1. RequestOK'
    BY RequestStep DEF LearningInv
  <2>2. HolderWorks' /\ OneCall'
    BY HolderStep DEF LearningInv
  <2>. QED  BY <2>1, <2>2, SessionStep, RowsStep, AnswerStep DEF LearningInv
<1>. QED  BY <1>1, <1>2, PTL DEF Spec

\* Every variable of the learning keeps its type; in particular a session is
\* complete whenever there is one, and its id is never one too many.
THEOREM LearningTypes == Spec => []LearningTypeOK
<1>1. LearningInv => LearningTypeOK
  <2>. SUFFICES ASSUME LearningInv PROVE LearningTypeOK
    OBVIOUS
  <2>1. lastSession \in SessionIds
    <3>1. Cardinality(Started) \in Nat
      BY ControllerConstants, FS_Subset, FS_CardinalityType DEF Started
    <3>. QED  BY <3>1, LearningConstants DEF LearningInv, RequestOK, SessionIds
  <2>. QED
    BY <2>1 DEF LearningInv, RequestOK, SessionFollows, SessionOK, RowsOK, LearningTypeOK,
                Sessions, Rows
<1>. QED  BY <1>1, LearningInvariant, PTL

\* irMu excludes: two requests are never both past their first look at the
\* session, so what one read of it stays true until its end
\* (service/ir.go:68, 108, 190, 248).
THEOREM OneRequestAtWork ==
    Spec => [](\A c, d \in Clients : Holding(c) /\ Holding(d) => c = d)
<1>1. LearningInv => \A c, d \in Clients : Holding(c) /\ Holding(d) => c = d
  BY DEF LearningInv, HolderWorks
<1>. QED  BY <1>1, LearningInvariant, PTL

\* The signal of a captured session is the controller's own last one, and no
\* capture becomes a button of two sessions (service/ir.go:68-78).
THEOREM CaptureStaysCurrent == Spec => []CaptureIsCurrent
<1>1. LearningInv => CaptureIsCurrent
  BY DEF LearningInv, SessionFollows, SessionOK, CapturesFollow, CaptureIsCurrent
<1>. QED  BY <1>1, LearningInvariant, PTL

\* While a session waits for its signal and the controller does learn, the
\* backend's own flag holds commands back (executor/ir_test.go:51).
THEOREM WaitingStaysFlagged == Spec => []WaitingIsFlagged
<1>1. LearningInv => WaitingIsFlagged
  <2>. SUFFICES ASSUME LearningInv, Active, session.state = "learning",
                       device.mode = "learning", ~Expired
                PROVE  LearningActive
    BY DEF WaitingIsFlagged
  <2>1. session.expires \in Nat /\ now \in Nat
    BY ControllerConstants
       DEF LearningInv, SessionFollows, SessionOK, Active, Sessions, RequestOK,
           ControllerTypeOK
  <2>. QED  BY <2>1 DEF LearningInv, FlagFollows, Expired, LearningActive
<1>. QED  BY <1>1, LearningInvariant, PTL

\* Confirmed buttons of an appliance have different names, however often a
\* confirmation is retried after an error (service/ir.go:212-216).
THEOREM NamesStayUnique == Spec => []ConfirmedNamesUnique
<1>1. LearningInv => ConfirmedNamesUnique
  BY DEF LearningInv, RowsOK
<1>. QED  BY <1>1, LearningInvariant, PTL

-----------------------------------------------------------------------------
(* Requests do not wait for each other *)

\* A status is never answered "ok", which is what the poll has no branch for.
StatusIsReported == \A c \in Clients : call[c].op = "status" => call[c].answer # "ok"

LEMMA StatusStep ==
    ASSUME LearningInv, StatusIsReported, [Next]_vars
    PROVE  StatusIsReported'
<1>0. call \in [Clients -> {NoCall} \cup [op : Ops, answer : Answers]]
      /\ device.mode \in {"idle", "learning", "captured", "timeout"}
  BY DEF LearningInv, RequestOK, ControllerTypeOK
<1>1. ASSUME NEW c \in Clients, CallController(c)  PROVE StatusIsReported'
  <2>1. \A a : DeviceHandles("status", a) => a # "ok"
    BY <1>0 DEF DeviceHandles, DeviceReports
  <2>2. PICK a \in Answers :
           /\ call' = [call EXCEPT ![c] = [op |-> Needs(c), answer |-> a]]
           /\ DeviceHandles(Needs(c), a) \/ a = "fails"
    BY <1>1 DEF CallController, Request
  <2>3. Needs(c) = "status" => a # "ok"
    BY <2>1, <2>2
  <2>. QED  BY <1>0, <2>2, <2>3 DEF StatusIsReported
<1>2. ASSUME NEW c \in Clients, Answered(c)  PROVE StatusIsReported'
  BY <1>0, <1>2 DEF Answered, StatusIsReported, NoCall
<1>3. CASE Restart
  BY <1>3 DEF Restart, StatusIsReported, NoCall
<1>4. CASE UNCHANGED call
  BY <1>4 DEF StatusIsReported
<1>5. ASSUME NEW c \in Clients,
             Arrive(c) \/ Enter(c) \/ RefusedAsBusy(c) \/ StoreAction(c) \/ StoreFails(c)
      PROVE  UNCHANGED call
  BY <1>5 DEF Arrive, Enter, EnterStart, EnterStatus, EnterConfirm, EnterStop, Enters,
     RefusedAsBusy, StoreAction, StoreFails, controllerVars
<1>6. ASSUME NEW c \in Clients, Return(c)  PROVE Answered(c)
  BY <1>6 DEF Return, ReturnReplaced, ReturnStopped, ReturnStarted, ReturnPolled,
     ReturnCaptured, ReturnSent
<1>7. CASE Environment \/ DirectCreate \/ UNCHANGED vars
  <2>1. UNCHANGED call
    BY <1>7 DEF Environment, Controller, DeviceCaptures, DeviceTimesOut, DeviceGoesIdle,
       TimePasses, DirectCreate, vars, controllerVars
  <2>. QED  BY <1>4, <2>1
<1>. QED  BY <1>1, <1>2, <1>3, <1>4, <1>5, <1>6, <1>7 DEF Next, Serve

\* If a call is under way, its client can take the answer; if irMu is held, its
\* holder can store or call; and if neither is, whoever waits can go on.
LEMMA SomebodyCan ==
    ASSUME LearningInv, StatusIsReported, NEW w \in Clients, req[w] # NoRequest
    PROVE  \E c \in Clients : CanServe(c)
<1>1. ASSUME NEW c \in Clients, call[c] # NoCall  PROVE CanServe(c)
  <2>1. call[c].op \in Ops /\ call[c].op = Needs(c)
    BY <1>1 DEF LearningInv, OneCall
  <2>2. At(c, "poll") => Needs(c) = "status"
    BY DEF Needs, At
  <2>. QED  BY <1>1, <2>1, <2>2 DEF CanServe, StatusIsReported, Ops
<1>2. ASSUME OperationFree, NEW c \in Clients, Holding(c)  PROVE CanServe(c)
  <2>1. req[c].pc \in {"replace", "start", "poll", "captured", "expire", "store", "stop"}
    BY <1>2 DEF Holding, Pcs
  <2>. QED  BY <1>2, <2>1 DEF CanServe, Needs, At
<1>3. ASSUME OperationFree, \A c \in Clients : ~Holding(c)  PROVE CanServe(w)
  <2>1. irMu = Nobody
    BY <1>3 DEF LearningInv, HolderWorks, RequestOK
  <2>2. req[w].pc = "wait"
    BY <1>3, RequestTyped DEF LearningInv, RequestsOf, Holding
  <2>. QED  BY <1>3, <2>1, <2>2 DEF CanServe, Needs, At
<1>. QED  BY <1>1, <1>2, <1>3 DEF OperationFree

\* Whenever there is a request, one finds what it waits for, for any number of
\* clients: irMu is held across calls that wait for operationMu, but never the other
\* way round (service/ir.go:68, 108, 190, 248, executor/ir.go:153-252).
THEOREM NoCircularWait ==
    Spec => []((\E c \in Clients : req[c] # NoRequest) => \E c \in Clients : CanServe(c))
<1>1. Init => StatusIsReported
  BY DEF Init, ControllerInit, StatusIsReported, NoCall
<1>2. LearningInv /\ StatusIsReported /\ [Next]_vars => StatusIsReported'
  BY StatusStep
<1>3. LearningInv /\ StatusIsReported =>
         ((\E c \in Clients : req[c] # NoRequest) => \E c \in Clients : CanServe(c))
  BY SomebodyCan
<1>. QED  BY <1>1, <1>2, <1>3, LearningInvariant, PTL DEF Spec

-----------------------------------------------------------------------------
(* Under a condition *)

\* With a controller that reports a timed out learning as a state, nothing keeps
\* commands and the next learning away once no session and no request is left;
\* with one that answers 408 this fails (run MCIRRetryAfter408).
THEOREM FreeWithState == ~AnswersWith408 => (Spec => []FreeWithoutSession)
<1>. SUFFICES ASSUME ~AnswersWith408 PROVE Spec => []FreeWithoutSession
  OBVIOUS
<1>1. LearningInv => FreeWithoutSession
  BY ControllerConstants
     DEF LearningInv, FlagFollows, FreeWithoutSession, LearningActive, RequestOK,
         ControllerTypeOK
<1>. QED  BY <1>1, LearningInvariant, PTL

\* Where buttons are only made by confirmations, a taken name is always refused:
\* POST /api/actions is the only way around the check (run MCIRTakenName).
THEOREM TakenRefused == ~DirectCreates => (Spec => TakenNameRefused)
<1>. SUFFICES ASSUME ~DirectCreates PROVE Spec => TakenNameRefused
  OBVIOUS
<1>. DEFINE Refused == \A x \in irActions' \ irActions :
                         x.session # 0 => ~NameTaken(x.appliance, x.name)
            OnlyConfirmed == \A x \in irActions : x.session # 0
<1>1. Init => OnlyConfirmed
  BY DEF Init
<1>2. LearningInv /\ OnlyConfirmed /\ [Next]_vars => OnlyConfirmed' /\ Refused
  <2>. SUFFICES ASSUME LearningInv, OnlyConfirmed, [Next]_vars
                PROVE  OnlyConfirmed' /\ Refused
    OBVIOUS
  <2>1. ASSUME UNCHANGED irActions PROVE OnlyConfirmed' /\ Refused
    BY <2>1
  <2>2. ASSUME NEW c \in Clients, StoreAction(c) \/ StoreFails(c)
        PROVE  OnlyConfirmed' /\ Refused
    <3>1. At(c, "store") /\ irActions' \in {irActions, irActions \cup {Saved(c)}}
      BY <2>2 DEF StoreAction, StoreFails
    <3>2. /\ Saved(c).session # 0
          /\ ~Confirmed(Saved(c).appliance, Saved(c).name)
      BY <3>1, StoringHolds DEF Saved, Sessions
    <3>3. ~NameTaken(Saved(c).appliance, Saved(c).name)
      BY <3>2 DEF Confirmed, NameTaken
    <3>. QED  BY <3>1, <3>2, <3>3
  <2>3. ASSUME NEW c \in Clients,
               Arrive(c) \/ Enter(c) \/ CallController(c) \/ RefusedAsBusy(c) \/ Return(c)
        PROVE  UNCHANGED irActions
    BY <2>3 DEF Arrive, Enter, EnterStart, EnterStatus, EnterConfirm, EnterStop, Enters,
                CallController, learningVars, RefusedAsBusy, Return, ReturnReplaced,
                ReturnStopped, ReturnStarted, ReturnPolled, ReturnCaptured, ReturnSent
  <2>4. ASSUME Environment \/ Restart \/ UNCHANGED vars PROVE UNCHANGED irActions
    BY <2>4 DEF Environment, Restart, vars, learningVars
  <2>. QED  BY <2>1, <2>2, <2>3, <2>4 DEF Next, Serve, DirectCreate
<1>3. Refused => [Refused]_vars
  OBVIOUS
<1>4. TakenNameRefused <=> [][Refused]_vars
  BY DEF TakenNameRefused
<1>. HIDE DEF Refused, OnlyConfirmed
<1>. QED
  BY <1>1, <1>2, <1>3, <1>4, LearningInvariant, PTL DEF Spec
=============================================================================
