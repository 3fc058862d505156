------------------------ MODULE DetectionProperties -------------------------
(* What the detection pipeline of DetectionService promises.               *)
EXTENDS DetectionService

TypeOK == StoreTypeOK /\ ServiceTypeOK

Working == {"execute", "append"}

Logged(e) == \E l \in logs : l.event = e
InFlight(e) == \E h \in Handlers : hs[h].phase \in Working /\ hs[h].event = e

\* However often an event is sent, by however many concurrent requests, the
\* executor is called at most once for it (backend/README.md:17).
ExecutedAtMostOnce == \A e \in Events : runs[e] <= 1

\* An event has at most one log, whether the claim wrote it or the handler.
OneLogPerEvent ==
    \A l, k \in logs : l.event = k.event /\ l.event # Manual => l = k

\* The log of an event tells what happened: a success was executed, an event
\* that was held off or rejected was not.
LogsTellTheTruth ==
    \A l \in logs : l.event # Manual =>
        /\ l.status = "SUCCESS" => runs[l.event] = 1
        /\ l.status = "COOLING_DOWN" => runs[l.event] = 0
        /\ l.action = NoAction => runs[l.event] = 0

\* The hub never announces a log that GET /api/logs does not know.
PublishedIsStored == published \subseteq {l.id : l \in logs}

\* Every processed event has its log, or a handler that will write it.
OutcomeRecorded == \A e \in processed : Logged(e) \/ InFlight(e)

\* Every stored log was announced, or a handler is about to announce it
\* (docs/backend-api-specification.md:568).  The in-memory store keeps this; over
\* PostgreSQL it fails when a call that commits reports an error.
StoredIsPublished ==
    \A l \in logs :
        \/ l.id \in published
        \/ \E h \in Handlers : At(h, "publish") /\ hs[h].log = l.id

-----------------------------------------------------------------------------
(* The inductive invariant behind these properties *)

\* What a handler that claims, looks up, executes or records has in its hands.
HandlersHold ==
    \A h \in Handlers :
        /\ At(h, "claim") => hs[h].event \in Events
        /\ At(h, "lookup") => hs[h].event = Manual
        /\ hs[h].phase \in Working \cup {"lookup"} => hs[h].action \in Actions
        /\ At(h, "publish") => \E l \in logs : l.id = hs[h].log

\* A granted event is in the hands of one handler, and its command has been
\* issued exactly when that handler has moved on to recording it.
HoldersAreExclusive ==
    \A h \in Handlers : hs[h].phase \in Working /\ hs[h].event # Manual =>
        /\ hs[h].event \in processed
        /\ ~Logged(hs[h].event)
        /\ runs[hs[h].event] = IF At(h, "execute") THEN 0 ELSE 1
        /\ \A g \in Handlers :
              hs[g].phase \in Working /\ hs[g].event = hs[h].event => g = h

\* Nothing was done for an event that was never claimed.
UnclaimedIsUntouched == \A e \in Events \ processed : runs[e] = 0 /\ ~Logged(e)

ServiceInv ==
    /\ StoreInv
    /\ ServiceTypeOK
    /\ HandlersHold
    /\ HoldersAreExclusive
    /\ UnclaimedIsUntouched
    /\ ExecutedAtMostOnce
    /\ OneLogPerEvent
    /\ LogsTellTheTruth
    /\ PublishedIsStored
    /\ ~Durable => OutcomeRecorded /\ StoredIsPublished

-----------------------------------------------------------------------------
(* Refinement *)

\* Where an event is in its life, read off the store and the handlers.
LifeOf(e) ==
    CASE e \notin processed -> "unseen"
      [] \E l \in logs : l.event = e /\ (l.status = "COOLING_DOWN" \/ l.action = NoAction) -> "held"
      [] \E l \in logs : l.event = e /\ l.status # "COOLING_DOWN" /\ l.action # NoAction -> "recorded"
      [] OTHER -> IF \E h \in Handlers : At(h, "execute") /\ hs[h].event = e THEN "granted"
                  ELSE IF \E h \in Handlers : At(h, "append") /\ hs[h].event = e THEN "issued"
                  ELSE "lost"

Contract == INSTANCE DetectionContract WITH life <- [e \in Events |-> LifeOf(e)]
=============================================================================
