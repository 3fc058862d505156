-------------------------- MODULE DetectionService --------------------------
(***************************************************************************)
(* The request handlers of the Go backend that end in a device command:    *)
(* POST /internal/detections (Service.ProcessDetection) and                *)
(* POST /api/actions/:id/execute (Service.ExecuteAction), running          *)
(* concurrently over one store, with the configuration requests of the UI  *)
(* beside them.  A handler is a goroutine that holds a copy of what it     *)
(* read: between two calls to the store any other request may run, the     *)
(* context may end (client gone, or the 10 s deadline) and the process may *)
(* die.                                                                    *)
(*                                                                         *)
(* The in-memory store ignores the context and never fails.  PostgreSQL    *)
(* refuses a call whose context has ended, and a call whose context ends   *)
(* while it commits may have committed although it returns an error; with  *)
(* DatabaseFails both also happen to a request whose context is live.      *)
(***************************************************************************)
EXTENDS DetectionStore

CONSTANTS
    Handlers,       \* goroutines that serve the two requests
    DatabaseFails,  \* TRUE: the database can fail under a live request
    MaxRestarts     \* bound: process deaths

ASSUME ServiceConstants ==
    /\ DatabaseFails \in BOOLEAN
    /\ MaxRestarts \in Nat

VARIABLES
    hs,         \* state of every handler
    clock,      \* wall clock
    published,  \* ids of the logs handed to the hub of this process
    restarts,   \* process deaths so far
    runs        \* history: device commands issued for an event by the
                \* executor, since the store lost its processed events

serviceVars == <<hs, clock, published, restarts, runs>>
vars == <<storeVars, serviceVars>>

Phases == {"idle", "claim", "lookup", "execute", "append", "publish", "reply"}
Results == {"none", "duplicate", "rejected", "cooling_down", "executed",
            "failed", "error"}

Handler == [phase : Phases, event : Events \cup {Manual},
            action : Actions \cup {NoAction}, now : Stamps, live : BOOLEAN,
            log : Nat, result : Results]

Idle == [phase |-> "idle", event |-> Manual, action |-> NoAction, now |-> 0,
         live |-> TRUE, log |-> 0, result |-> "none"]

ServiceTypeOK ==
    /\ hs \in [Handlers -> Handler]
    /\ clock \in Stamps
    /\ published \in SUBSET (Nat \ {0})
    /\ restarts \in Nat
    /\ runs \in [Events -> Nat]

ServiceInit ==
    /\ hs = [h \in Handlers |-> Idle]
    /\ clock = 0
    /\ published = {}
    /\ restarts = 0
    /\ runs = [e \in Events |-> 0]

At(h, p) == hs[h].phase = p

\* PostgreSQL calls take the request's context, the in-memory store ignores it.
StoreAnswers(h) == Durable => hs[h].live
\* Mutant of StoreFails: the in-memory store heeds the context too.
StoreFails_WithContext(h) == ~hs[h].live

StoreFails(h) == Durable /\ (DatabaseFails \/ ~hs[h].live)

Answer(h, r) ==
    hs' = [hs EXCEPT ![h].phase = "reply", ![h].result = r,
                     ![h].action = NoAction, ![h].log = 0]

-----------------------------------------------------------------------------
(* Arrival of a request *)

\* The time of the claim is read before the store is entered.
ReceiveDetection(h, e) ==
    /\ At(h, "idle")
    /\ hs' = [hs EXCEPT ![h] = [Idle EXCEPT !.phase = "claim", !.event = e,
                                            !.now = clock]]
    /\ UNCHANGED <<storeVars, clock, published, restarts, runs>>

ReceiveExecute(h, a) ==
    /\ At(h, "idle")
    /\ hs' = [hs EXCEPT ![h] = [Idle EXCEPT !.phase = "lookup", !.action = a]]
    /\ UNCHANGED <<storeVars, clock, published, restarts, runs>>

\* The client closes the connection, or the deadline of the request passes.
ContextEnds(h) ==
    /\ hs[h].phase \in {"claim", "lookup", "execute", "append"}
    /\ hs[h].live
    /\ hs' = [hs EXCEPT ![h].live = FALSE]
    /\ UNCHANGED <<storeVars, clock, published, restarts, runs>>

-----------------------------------------------------------------------------
(* ClaimDetection and what ProcessDetection does with its answer *)

ClaimAnswersDuplicate(h) ==
    /\ At(h, "claim") /\ StoreAnswers(h)
    /\ ClaimDuplicate(hs[h].event)
    /\ Answer(h, "duplicate")
    /\ UNCHANGED <<clock, published, restarts, runs>>

\* The claim has stored its log; the handler still has to publish it.
ClaimAnswersRejected(h) ==
    /\ At(h, "claim") /\ StoreAnswers(h)
    /\ ClaimRejected(hs[h].event)
    /\ hs' = [hs EXCEPT ![h].phase = "publish", ![h].log = nextLog,
                        ![h].result = "rejected"]
    /\ UNCHANGED <<clock, published, restarts, runs>>

\* Mutant of ClaimAnswersCooling: the decision is overlooked and the command
\* goes out.
ClaimAnswersCooling_Overlooked(h, b) ==
    /\ At(h, "claim") /\ StoreAnswers(h)
    /\ ClaimCooling(hs[h].event, hs[h].now, b)
    /\ hs' = [hs EXCEPT ![h].phase = "execute", ![h].action = b.action]
    /\ UNCHANGED <<clock, published, restarts, runs>>

ClaimAnswersCooling(h, b) ==
    /\ At(h, "claim") /\ StoreAnswers(h)
    /\ ClaimCooling(hs[h].event, hs[h].now, b)
    /\ hs' = [hs EXCEPT ![h].phase = "publish", ![h].log = nextLog,
                        ![h].result = "cooling_down"]
    /\ UNCHANGED <<clock, published, restarts, runs>>

ClaimAnswersGranted(h, b) ==
    /\ At(h, "claim") /\ StoreAnswers(h)
    /\ ClaimGranted(hs[h].event, hs[h].now, b)
    /\ hs' = [hs EXCEPT ![h].phase = "execute", ![h].action = b.action]
    /\ UNCHANGED <<clock, published, restarts, runs>>

\* The transaction fails and is rolled back: the event stays unprocessed.
ClaimFails(h) ==
    /\ At(h, "claim") /\ StoreFails(h)
    /\ Answer(h, "error")
    /\ UNCHANGED <<storeVars, clock, published, restarts, runs>>

\* The transaction commits but the handler sees an error from Commit.
ClaimCommitUnknown(h) ==
    /\ At(h, "claim") /\ StoreFails(h)
    /\ \/ ClaimRejected(hs[h].event)
       \/ \E b \in bindings : \/ ClaimCooling(hs[h].event, hs[h].now, b)
                              \/ ClaimGranted(hs[h].event, hs[h].now, b)
    /\ Answer(h, "error")
    /\ UNCHANGED <<clock, published, restarts, runs>>

-----------------------------------------------------------------------------
(* ExecuteAction reads the action, without claim or cooldown *)

LookupFinds(h) ==
    /\ At(h, "lookup") /\ StoreAnswers(h)
    /\ hs[h].action \in actions
    /\ hs' = [hs EXCEPT ![h].phase = "execute"]
    /\ UNCHANGED <<storeVars, clock, published, restarts, runs>>

LookupFails(h) ==
    /\ At(h, "lookup")
    /\ hs[h].action \notin actions \/ StoreFails(h)
    /\ Answer(h, "error")
    /\ UNCHANGED <<storeVars, clock, published, restarts, runs>>

-----------------------------------------------------------------------------
(* The device command, its record and its announcement *)

\* The executor is called once.  It may report a failure for a command the
\* device carried out (lost answer, ended context).
Execute(h) ==
    /\ At(h, "execute")
    /\ \E r \in {"executed", "failed"} :
          hs' = [hs EXCEPT ![h].phase = "append", ![h].result = r]
    /\ runs' = IF hs[h].event = Manual THEN runs
               ELSE [runs EXCEPT ![hs[h].event] = @ + 1]
    /\ UNCHANGED <<storeVars, clock, published, restarts>>

AppendResult(h) ==
    /\ At(h, "append")
    /\ AppendLog(hs[h].event, hs[h].action,
                 IF hs[h].result = "executed" THEN "SUCCESS" ELSE "FAILED")

RecordResult(h) ==
    /\ StoreAnswers(h)
    /\ AppendResult(h)
    /\ hs' = [hs EXCEPT ![h].phase = "publish", ![h].log = nextLog]
    /\ UNCHANGED <<clock, published, restarts, runs>>

\* Mutant of RecordFails: the whole request is tried again.
RecordFails_TriesAgain(h) ==
    /\ At(h, "append") /\ StoreFails(h)
    /\ hs' = [hs EXCEPT ![h].phase = "execute"]
    /\ UNCHANGED <<storeVars, clock, published, restarts, runs>>

RecordFails(h) ==
    /\ At(h, "append") /\ StoreFails(h)
    /\ Answer(h, "error")
    /\ UNCHANGED <<storeVars, clock, published, restarts, runs>>

\* The log is stored but the handler sees an error, and publishes nothing.
RecordCommitUnknown(h) ==
    /\ StoreFails(h)
    /\ AppendResult(h)
    /\ Answer(h, "error")
    /\ UNCHANGED <<clock, published, restarts, runs>>

PublishLog(h) ==
    /\ At(h, "publish")
    /\ published' = published \cup {hs[h].log}
    /\ Answer(h, hs[h].result)
    /\ UNCHANGED <<storeVars, clock, restarts, runs>>

Reply(h) ==
    /\ At(h, "reply")
    /\ hs' = [hs EXCEPT ![h] = Idle]
    /\ UNCHANGED <<storeVars, clock, published, restarts, runs>>

-----------------------------------------------------------------------------
(* The environment *)

ConfigureStore == Configure /\ UNCHANGED serviceVars

Tick ==
    /\ clock < MaxStamp
    /\ clock' = clock + 1
    /\ UNCHANGED <<storeVars, hs, published, restarts, runs>>

\* The process dies at any point and a new one opens the store.
Restart ==
    /\ restarts < MaxRestarts
    /\ restarts' = restarts + 1
    /\ hs' = [h \in Handlers |-> Idle]
    /\ published' = {}
    /\ Reopen
    /\ runs' = IF Durable THEN runs ELSE [e \in Events |-> 0]
    /\ UNCHANGED clock

Claim(h) ==
    \/ ClaimAnswersDuplicate(h)
    \/ ClaimAnswersRejected(h)
    \/ \E b \in bindings : ClaimAnswersCooling(h, b) \/ ClaimAnswersGranted(h, b)
    \/ ClaimFails(h)
    \/ ClaimCommitUnknown(h)

\* What a handler does once it has its request, up to its answer.
Serve(h) ==
    \/ Claim(h)
    \/ LookupFinds(h)
    \/ LookupFails(h)
    \/ Execute(h)
    \/ RecordResult(h)
    \/ RecordFails(h)
    \/ RecordCommitUnknown(h)
    \/ PublishLog(h)

Backend ==
    \/ \E h \in Handlers : Serve(h) \/ ContextEnds(h)
    \/ ConfigureStore
    \/ Tick
    \/ Restart

Next ==
    \/ \E h \in Handlers, e \in Events : ReceiveDetection(h, e)
    \/ \E h \in Handlers, a \in Actions : ReceiveExecute(h, a)
    \/ \E h \in Handlers : Reply(h)
    \/ Backend

Init == StoreInit /\ ServiceInit

Spec == Init /\ [][Next]_vars
=============================================================================
