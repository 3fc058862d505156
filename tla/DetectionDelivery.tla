------------------------- MODULE DetectionDelivery --------------------------
(***************************************************************************)
(* A recognition worker delivering its detections to the Go backend:       *)
(* GoApiClient.send (recognition/.../go_api_client.py) over the handlers   *)
(* of DetectionService.                                                    *)
(*                                                                         *)
(* A worker sends one event at a time and blocks until it is delivered or  *)
(* abandoned.  An attempt ends with an answer, or without one: connection  *)
(* refused or reset, or the 3 s client timeout.  The handler of an attempt *)
(* the worker gave up goes on by itself; the server ends its context when  *)
(* it notices the closed connection.  The client timeout is shorter than   *)
(* the 10 s deadline of the handler, so a context never ends while its     *)
(* client still waits.  Manual executions are left to DetectionService, and *)
(* so is an answer 4xx, which a worker's well-formed events do not get.    *)
(***************************************************************************)
EXTENDS DetectionProperties

CONSTANTS
    Workers,   \* recognition workers, one per camera
    Retries,   \* delivery_retries: attempts after the first
    Nobody     \* no handler

ASSUME DeliveryConstants ==
    /\ Retries \in Nat
    /\ Nobody \notin Handlers

VARIABLES
    worker,  \* what every worker does
    fate     \* what its worker knows of an event

deliveryVars == <<worker, fate>>
allVars == <<vars, deliveryVars>>

Watching == [phase |-> "watching", event |-> Manual, attempt |-> 0, via |-> Nobody]

DeliveryTypeOK ==
    /\ worker \in [Workers -> [phase : {"watching", "attempt", "waiting"},
                               event : Events \cup {Manual},
                               attempt : 0 .. Retries,
                               via : Handlers \cup {Nobody}]]
    /\ fate \in [Events -> {"new", "sending", "delivered", "abandoned"}]

DeliveryInit ==
    /\ Init
    /\ worker = [w \in Workers |-> Watching]
    /\ fate = [e \in Events |-> "new"]

Awaited(h) == \E w \in Workers : worker[w].via = h

\* An event has a fresh id and is sent by the worker that recognised it.
Detect(w, e) ==
    /\ worker[w].phase = "watching"
    /\ fate[e] = "new"
    /\ worker' = [worker EXCEPT ![w] = [Watching EXCEPT !.phase = "attempt", !.event = e]]
    /\ fate' = [fate EXCEPT ![e] = "sending"]
    /\ UNCHANGED vars

Connect(w, h) ==
    /\ worker[w].phase = "attempt"
    /\ ReceiveDetection(h, worker[w].event)
    /\ worker' = [worker EXCEPT ![w].phase = "waiting", ![w].via = h]
    /\ UNCHANGED fate

\* Mutants of AttemptFails: one attempt too many; no last attempt.
AttemptFails_OffByOne(w) ==
    IF worker[w].attempt > Retries
    THEN /\ worker' = [worker EXCEPT ![w] = Watching]
         /\ fate' = [fate EXCEPT ![worker[w].event] = "abandoned"]
    ELSE /\ worker' = [worker EXCEPT ![w].phase = "attempt", ![w].via = Nobody,
                                     ![w].attempt = @ + 1]
         /\ UNCHANGED fate

AttemptFails_Forever(w) ==
    /\ worker' = [worker EXCEPT ![w].phase = "attempt", ![w].via = Nobody]
    /\ UNCHANGED fate

\* A failed attempt is followed by a pause and another one while retries last.
AttemptFails(w) ==
    IF worker[w].attempt >= Retries
    THEN /\ worker' = [worker EXCEPT ![w] = Watching]
         /\ fate' = [fate EXCEPT ![worker[w].event] = "abandoned"]
    ELSE /\ worker' = [worker EXCEPT ![w].phase = "attempt", ![w].via = Nobody,
                                     ![w].attempt = @ + 1]
         /\ UNCHANGED fate

ConnectFails(w) ==
    /\ worker[w].phase = "attempt"
    /\ AttemptFails(w)
    /\ UNCHANGED vars

\* Mutant of StopsWaiting: the handler dies with the connection.
StopsWaiting_EndsHandler(w) ==
    /\ worker[w].phase = "waiting" /\ worker[w].via # Nobody
    /\ AttemptFails(w)
    /\ hs' = [hs EXCEPT ![worker[w].via] = Idle]
    /\ UNCHANGED <<storeVars, clock, published, restarts, runs>>

StopsWaiting(w) ==
    /\ worker[w].phase = "waiting"
    /\ AttemptFails(w)
    /\ UNCHANGED vars

\* Mutant of GetsAnswer: any answer counts as a delivery.
GetsAnswer_AnyStatus(w) ==
    LET h == worker[w].via
    IN  /\ worker[w].phase = "waiting" /\ h # Nobody
        /\ At(h, "reply")
        /\ Reply(h)
        /\ worker' = [worker EXCEPT ![w] = Watching]
        /\ fate' = [fate EXCEPT ![worker[w].event] = "delivered"]

\* Every result of ProcessDetection is a 200; an error is a 5xx.
GetsAnswer(w) ==
    LET h == worker[w].via
    IN  /\ worker[w].phase = "waiting" /\ h # Nobody
        /\ At(h, "reply")
        /\ Reply(h)
        /\ IF hs[h].result = "error"
           THEN AttemptFails(w)
           ELSE /\ worker' = [worker EXCEPT ![w] = Watching]
                /\ fate' = [fate EXCEPT ![worker[w].event] = "delivered"]

DropAnswer(h) ==
    /\ ~Awaited(h)
    /\ Reply(h)
    /\ UNCHANGED deliveryVars

BackendRestarts ==
    /\ Restart
    /\ worker' = [w \in Workers |-> [worker[w] EXCEPT !.via = Nobody]]
    /\ UNCHANGED fate

Deliver(w) ==
    \/ \E h \in Handlers : Connect(w, h)
    \/ ConnectFails(w)
    \/ StopsWaiting(w)
    \/ GetsAnswer(w)

Work(h) ==
    \/ Serve(h) /\ UNCHANGED deliveryVars
    \/ DropAnswer(h)

DeliveryNext ==
    \/ \E w \in Workers, e \in Events : Detect(w, e)
    \/ \E w \in Workers : Deliver(w)
    \/ \E h \in Handlers : Work(h)
    \/ \E h \in Handlers : ~Awaited(h) /\ ContextEnds(h) /\ UNCHANGED deliveryVars
    \/ (ConfigureStore \/ Tick) /\ UNCHANGED deliveryVars
    \/ BackendRestarts

DeliverySpec == DeliveryInit /\ [][DeliveryNext]_allVars

\* Handlers are scheduled and bounded by their deadline; a worker's attempt is
\* bounded by its timeout and its pauses by the backoff.
DeliveryFairSpec ==
    /\ DeliverySpec
    /\ \A w \in Workers : WF_allVars(Deliver(w))
    /\ \A h \in Handlers : WF_allVars(Work(h))

-----------------------------------------------------------------------------
(* Properties *)

\* What the worker takes for delivered was decided by a durable store: no
\* answer but an error leaves an event unprocessed, retries included.
DeliveredIsDecided ==
    Durable => \A e \in Events : fate[e] = "delivered" => e \in processed

\* The result of a command issued for a delivered event is in the logs once no
\* handler works on it (docs/backend-api-specification.md:420,
\* docs/mvp-specification.md step 9 of the execution flow).
IssuedIsRecorded ==
    \A e \in Events :
        fate[e] = "delivered" /\ runs[e] > 0 => Logged(e) \/ InFlight(e)

\* The worker is released: the number of attempts and the time of each are
\* bounded, whatever the backend does (docs/mvp-specification.md:207).
SendsEnd == \A w \in Workers :
    worker[w].phase # "watching" ~> worker[w].phase = "watching"

\* The deliveries of the workers are requests DetectionService allows for.
ImplementsService == Spec
=============================================================================
