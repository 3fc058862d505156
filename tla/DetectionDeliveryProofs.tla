---------------------- MODULE DetectionDeliveryProofs -----------------------
(***************************************************************************)
(* The deliveries of the workers, for any number of workers, handlers,     *)
(* events and retries, with either store, and through restarts of the      *)
(* backend.                                                                *)
(***************************************************************************)
EXTENDS DetectionDelivery, DetectionServiceProofs

\* A worker that sends has an event to send.
SendersHaveEvents == \A w \in Workers :
    worker[w].phase # "watching" => worker[w].event \in Events

\* Only a waiting worker has a handler, and that one serves the worker's own
\* event until it has answered.
AwaitsItsOwn == \A w \in Workers, h \in Handlers :
    worker[w].via = h => /\ worker[w].phase = "waiting"
                         /\ hs[h].event = worker[w].event
                         /\ ~At(h, "idle")

\* The answer of a handler goes to one worker.
AwaitedByOne == \A v, w \in Workers :
    worker[v].via = worker[w].via /\ worker[v].via # Nobody => v = w

\* An event is sent by one worker, as long as that worker does not know its
\* fate.
SentByOne ==
    /\ \A w \in Workers :
          worker[w].phase # "watching" => fate[worker[w].event] = "sending"
    /\ \A v, w \in Workers :
          /\ worker[v].phase # "watching"
          /\ worker[w].phase # "watching"
          /\ worker[v].event = worker[w].event
          => v = w

\* A handler past its claim serves a processed event, unless it answers an
\* error.  (An answer "error" may follow a claim that was committed.)
PastClaim(h) ==
    \/ hs[h].phase \in {"execute", "append", "publish"}
    \/ At(h, "reply") /\ hs[h].result # "error"
AnswersAreDecided == \A h \in Handlers :
    PastClaim(h) /\ hs[h].event # Manual => hs[h].event \in processed

WorkersInv ==
    /\ DeliveryTypeOK
    /\ SendersHaveEvents
    /\ AwaitsItsOwn
    /\ AwaitedByOne
    /\ SentByOne
    /\ DeliveredIsDecided

\* The inductive invariant of the delivery.
DeliveryInv == ServiceInv /\ AnswersAreDecided /\ WorkersInv

-----------------------------------------------------------------------------
(* What the backend does to its handlers *)

\* A handler that serves stays with its event and does not become idle.
LEMMA Serve_Stays ==
  ASSUME ServiceInv, NEW h \in Handlers, Serve(h)
  PROVE  /\ \E p \in Phases \ {"idle"} : Moves(h, p)
         /\ hs'[h].event = hs[h].event
         /\ ~At(h, "idle")
<1>1. ASSUME NEW r \in Results, Answer(h, r)
      PROVE  Moves(h, "reply") /\ hs'[h].event = hs[h].event
  BY <1>1, Answer_Moves, Types DEF Answer, Handler
<1>2. ASSUME NEW r \in Results,
             hs' = [hs EXCEPT ![h].phase = "publish", ![h].log = nextLog, ![h].result = r]
      PROVE  Moves(h, "publish") /\ hs'[h].event = hs[h].event
  BY <1>2, Publishing_Moves, Types DEF Handler
<1>3. hs[h].result \in Results
  BY Types DEF Handler
<1>4. ASSUME Claim(h)  PROVE /\ \E p \in Phases \ {"idle"} : Moves(h, p)
                             /\ hs'[h].event = hs[h].event
                             /\ At(h, "claim")
  <2>1. ASSUME NEW b \in bindings, ClaimAnswersGranted(h, b)
        PROVE  Moves(h, "execute") /\ hs'[h].event = hs[h].event
    BY <2>1, Granted_Moves
  <2>. QED  BY <1>1, <1>2, <1>4, <2>1
            DEF Claim, ClaimAnswersDuplicate, ClaimAnswersRejected, ClaimAnswersCooling,
                ClaimAnswersGranted, ClaimFails, ClaimCommitUnknown, Results, Phases
<1>5. ASSUME RecordResult(h)
      PROVE  Moves(h, "publish") /\ hs'[h].event = hs[h].event
  BY <1>5, RecordResult_Moves, Types DEF RecordResult, Handler
<1>6. ASSUME LookupFails(h) \/ RecordFails(h) \/ RecordCommitUnknown(h) \/ PublishLog(h)
      PROVE  Moves(h, "reply") /\ hs'[h].event = hs[h].event
  BY <1>1, <1>3, <1>6
     DEF LookupFails, RecordFails, RecordCommitUnknown, PublishLog, Results
<1>7. ~At(h, "idle")
  BY <1>4 DEF Serve, LookupFinds, LookupFails, Execute, RecordResult, AppendResult,
              RecordFails, RecordCommitUnknown, PublishLog, At
<1>. QED  BY <1>4, <1>5, <1>6, <1>7, LookupFinds_Moves, Execute_Moves DEF Serve, Phases

\* An event that was processed stays processed, unless the memory of the
\* process is all there is.
LEMMA Processed_Grows ==
  ASSUME ServiceInv, [Next]_vars, Durable  PROVE processed \subseteq processed'
<1>1. [StoreNext]_storeVars
  BY Step_Store
<1>. QED  BY <1>1
          DEF StoreNext, storeVars, Configure, CreateAction, DeleteAction, RebindMotion,
              BindMotion, DeleteBinding, ClaimDuplicate, ClaimRejected, ClaimCooling,
              ClaimGranted, MarkProcessed, AppendLog, Reopen

\* Only a claim that marks its event lets a handler past it.
LEMMA Serve_Decided ==
  ASSUME ServiceInv, AnswersAreDecided, NEW h \in Handlers, Serve(h)
  PROVE  AnswersAreDecided'
<1>1. PICK p \in Phases \ {"idle"} : Moves(h, p)
  BY Serve_Stays
<1>2. hs'[h].event = hs[h].event
  BY Serve_Stays
<1>3. processed \subseteq processed'
  BY DEF Serve, Claim, ClaimAnswersDuplicate, ClaimAnswersRejected, ClaimAnswersCooling,
         ClaimAnswersGranted, ClaimFails, ClaimCommitUnknown, ClaimDuplicate,
         ClaimRejected, ClaimCooling, ClaimGranted, MarkProcessed, LookupFinds,
         LookupFails, Execute, RecordResult, AppendResult, AppendLog, RecordFails,
         RecordCommitUnknown, PublishLog, storeVars
<1>4. SUFFICES PastClaim(h)' /\ hs[h].event # Manual => hs[h].event \in processed'
  BY <1>1, <1>2, <1>3 DEF AnswersAreDecided, PastClaim, Moves, At
<1>5. ASSUME NEW r \in Results, Answer(h, r)  PROVE hs'[h].result = r
  BY <1>5, Types DEF Answer, Handler
<1>6. ASSUME \/ ClaimFails(h) \/ ClaimCommitUnknown(h)
             \/ LookupFails(h) \/ RecordFails(h) \/ RecordCommitUnknown(h)
      PROVE  hs'[h].result = "error" /\ hs'[h].phase = "reply"
  BY <1>5, <1>6, Answer_Moves
     DEF ClaimFails, ClaimCommitUnknown, LookupFails, RecordFails, RecordCommitUnknown,
         Results, Moves
<1>7. ASSUME \/ ClaimAnswersDuplicate(h)
             \/ ClaimAnswersRejected(h)
             \/ \E b \in bindings : ClaimAnswersCooling(h, b) \/ ClaimAnswersGranted(h, b)
      PROVE  hs[h].event \in processed'
  BY <1>7 DEF ClaimAnswersDuplicate, ClaimAnswersRejected, ClaimAnswersCooling,
              ClaimAnswersGranted, ClaimDuplicate, ClaimRejected, ClaimCooling,
              ClaimGranted, MarkProcessed, storeVars
<1>8. ASSUME LookupFinds(h)  PROVE hs[h].event = Manual
  BY <1>8 DEF LookupFinds, ServiceInv, HandlersHold
<1>9. ASSUME Execute(h) \/ RecordResult(h) \/ PublishLog(h)  PROVE PastClaim(h)
  BY <1>9 DEF Execute, RecordResult, AppendResult, PublishLog, PastClaim, At
<1>. QED  BY <1>3, <1>6, <1>7, <1>8, <1>9
          DEF Serve, Claim, PastClaim, At, AnswersAreDecided

LEMMA Step_Decided ==
  ASSUME ServiceInv, AnswersAreDecided, [Next]_vars
  PROVE  AnswersAreDecided'
<1>1. ASSUME NEW h \in Handlers,
             \/ \E e \in Events : ReceiveDetection(h, e)
             \/ \E a \in Actions : ReceiveExecute(h, a)
             \/ Reply(h)
      PROVE  AnswersAreDecided'
  <2>1. \E p \in {"claim", "lookup", "idle"} : Moves(h, p)
    BY <1>1, ReceiveDetection_Moves, ReceiveExecute_Moves, Reply_Moves
  <2>2. UNCHANGED processed
    BY <1>1 DEF ReceiveDetection, ReceiveExecute, Reply, storeVars
  <2>. QED  BY <2>1, <2>2 DEF AnswersAreDecided, PastClaim, Moves, At
<1>2. ASSUME NEW h \in Handlers, ContextEnds(h)  PROVE AnswersAreDecided'
  <2>1. Moves(h, hs[h].phase) /\ hs'[h].event = hs[h].event /\ UNCHANGED processed
    BY <1>2, ContextEnds_Moves DEF ContextEnds, storeVars
  <2>2. hs'[h].result = hs[h].result
    BY <1>2, Types DEF ContextEnds, Handler
  <2>. QED  BY <2>1, <2>2 DEF AnswersAreDecided, PastClaim, Moves, At
<1>3. ASSUME ConfigureStore \/ Tick \/ UNCHANGED vars  PROVE AnswersAreDecided'
  <2>1. UNCHANGED <<processed, hs>>
    BY <1>3 DEF ConfigureStore, serviceVars, Configure, CreateAction, DeleteAction,
                RebindMotion, BindMotion, DeleteBinding, Tick, vars, storeVars
  <2>. QED  BY <2>1 DEF AnswersAreDecided, PastClaim, At
<1>4. ASSUME Restart  PROVE AnswersAreDecided'
  <2>1. \A h \in Handlers : hs'[h].phase = "idle"
    BY <1>4 DEF Restart, Idle
  <2>. QED  BY <2>1 DEF AnswersAreDecided, PastClaim, At
<1>. QED  BY <1>1, <1>2, <1>3, <1>4, Serve_Decided DEF Next, Backend

-----------------------------------------------------------------------------
(* What a step does to the workers *)

\* The workers stand still: their handlers must stay at work for them.
LEMMA Workers_Still ==
  ASSUME WorkersInv, UNCHANGED deliveryVars,
         Durable => processed \subseteq processed',
         \A h \in Handlers : Awaited(h) =>
            hs'[h].event = hs[h].event /\ ~At(h, "idle")'
  PROVE  WorkersInv'
<1>1. UNCHANGED <<worker, fate>>
  BY DEF deliveryVars
<1>2. DeliveryTypeOK' /\ SendersHaveEvents' /\ AwaitedByOne' /\ SentByOne'
  BY <1>1 DEF WorkersInv, DeliveryTypeOK, SendersHaveEvents, AwaitedByOne, SentByOne
<1>3. AwaitsItsOwn'
  BY <1>1 DEF WorkersInv, AwaitsItsOwn, Awaited
<1>4. DeliveredIsDecided'
  BY <1>1 DEF WorkersInv, DeliveredIsDecided
<1>. QED  BY <1>2, <1>3, <1>4 DEF WorkersInv

\* One worker takes the state s, with no handler or with one nobody awaits.
LEMMA Worker_Moves ==
  ASSUME WorkersInv, NEW w \in Workers,
         NEW s \in [phase : {"watching", "attempt", "waiting"},
                    event : Events \cup {Manual}, attempt : 0 .. Retries,
                    via : Handlers \cup {Nobody}],
         worker' = [worker EXCEPT ![w] = s],
         fate' \in [Events -> {"new", "sending", "delivered", "abandoned"}],
         s.phase # "watching" =>
            /\ s.event \in Events
            /\ fate'[s.event] = "sending"
            /\ \/ worker[w].phase # "watching" /\ worker[w].event = s.event
               \/ fate[s.event] = "new",
         \A v \in Workers \ {w} :
            worker[v].phase # "watching" =>
               fate'[worker[v].event] = fate[worker[v].event],
         s.via \in Handlers =>
            /\ ~Awaited(s.via) /\ s.phase = "waiting"
            /\ hs'[s.via].event = s.event /\ ~At(s.via, "idle")',
         \A h \in Handlers \ {worker[w].via, s.via} : hs'[h] = hs[h],
         Durable => /\ processed \subseteq processed'
                    /\ \A e \in Events : fate'[e] = "delivered" =>
                          fate[e] = "delivered" \/ e \in processed'
  PROVE  WorkersInv'
<1>0. /\ worker \in [Workers -> [phase : {"watching", "attempt", "waiting"},
                                 event : Events \cup {Manual}, attempt : 0 .. Retries,
                                 via : Handlers \cup {Nobody}]]
      /\ Nobody \notin Handlers
  BY DeliveryConstants DEF WorkersInv, DeliveryTypeOK
<1>1. /\ worker'[w] = s
      /\ \A v \in Workers \ {w} : worker'[v] = worker[v]
      /\ s.via \in Handlers \cup {Nobody}
  BY <1>0
<1>2. DeliveryTypeOK'
  BY <1>0 DEF DeliveryTypeOK
<1>3. SendersHaveEvents'
  BY <1>1 DEF WorkersInv, SendersHaveEvents
<1>4. AwaitedByOne'
  <2>1. \A v \in Workers \ {w} : worker[v].via = s.via => s.via = Nobody
    BY <1>1 DEF Awaited
  <2>. QED  BY <1>1, <2>1 DEF WorkersInv, AwaitedByOne
<1>5. AwaitsItsOwn'
  <2>1. ASSUME NEW v \in Workers \ {w}, NEW h \in Handlers, worker[v].via = h
        PROVE  hs'[h] = hs[h]
    <3>1. h # worker[w].via
      BY <1>0, <2>1 DEF WorkersInv, AwaitedByOne
    <3>2. h # s.via
      BY <2>1 DEF Awaited
    <3>. QED  BY <3>1, <3>2
  <2>. QED  BY <1>0, <1>1, <2>1 DEF WorkersInv, AwaitsItsOwn, At
<1>6. SentByOne'
  <2>1. ASSUME NEW v \in Workers \ {w}, worker[v].phase # "watching"
        PROVE  /\ fate'[worker[v].event] = "sending"
               /\ s.phase # "watching" => worker[v].event # s.event
    BY <2>1 DEF WorkersInv, SentByOne
  <2>. QED  BY <1>1, <2>1 DEF WorkersInv, SentByOne
<1>7. DeliveredIsDecided'
  BY DEF WorkersInv, DeliveredIsDecided
<1>. QED  BY <1>2, <1>3, <1>4, <1>5, <1>6, <1>7 DEF WorkersInv

\* A failed attempt is tried again or given up; its handler, if any, may have
\* gone on.
LEMMA AttemptFails_Inv ==
  ASSUME WorkersInv, NEW w \in Workers, worker[w].phase # "watching", AttemptFails(w),
         \A h \in Handlers \ {worker[w].via} : hs'[h] = hs[h],
         Durable => processed \subseteq processed'
  PROVE  WorkersInv'
<1>1. /\ worker \in [Workers -> [phase : {"watching", "attempt", "waiting"},
                                 event : Events \cup {Manual}, attempt : 0 .. Retries,
                                 via : Handlers \cup {Nobody}]]
      /\ fate \in [Events -> {"new", "sending", "delivered", "abandoned"}]
      /\ Nobody \notin Handlers /\ Retries \in Nat
  BY DeliveryConstants DEF WorkersInv, DeliveryTypeOK
<1>2. worker[w].event \in Events /\ fate[worker[w].event] = "sending"
  BY DEF WorkersInv, SendersHaveEvents, SentByOne
<1>3. \A v \in Workers \ {w} : worker[v].phase # "watching" =>
         worker[v].event \in Events /\ worker[v].event # worker[w].event
  BY DEF WorkersInv, SendersHaveEvents, SentByOne
<1>4. CASE worker[w].attempt >= Retries
  <2>1. /\ worker' = [worker EXCEPT ![w] = Watching]
        /\ fate' = [fate EXCEPT ![worker[w].event] = "abandoned"]
    BY <1>4 DEF AttemptFails
  <2>2. /\ Watching \in [phase : {"watching", "attempt", "waiting"},
                         event : Events \cup {Manual}, attempt : 0 .. Retries,
                         via : Handlers \cup {Nobody}]
        /\ Watching.phase = "watching" /\ Watching.via = Nobody
    BY <1>1 DEF Watching
  <2>. HIDE DEF Watching
  <2>. QED  BY <1>1, <1>2, <1>3, <2>1, <2>2, Worker_Moves
<1>5. CASE ~(worker[w].attempt >= Retries)
  <2>. DEFINE s == [worker[w] EXCEPT !.phase = "attempt", !.via = Nobody,
                                     !.attempt = @ + 1]
  <2>1. UNCHANGED fate /\ worker' = [worker EXCEPT ![w] = s]
    BY <1>1, <1>5 DEF AttemptFails
  <2>2. /\ s \in [phase : {"watching", "attempt", "waiting"},
                  event : Events \cup {Manual}, attempt : 0 .. Retries,
                  via : Handlers \cup {Nobody}]
        /\ s.phase = "attempt" /\ s.via = Nobody /\ s.event = worker[w].event
    <3>. PICK n : n = worker[w].attempt + 1
      OBVIOUS
    <3>1. n \in 0 .. Retries
      BY <1>1, <1>5
    <3>2. s = [worker[w] EXCEPT !.phase = "attempt", !.via = Nobody, !.attempt = n]
      OBVIOUS
    <3>. HIDE DEF s
    <3>. QED  BY <1>1, <3>1, <3>2
  <2>. HIDE DEF s
  <2>. QED  BY <1>1, <1>2, <1>3, <2>1, <2>2, Worker_Moves
<1>. QED  BY <1>4, <1>5

LEMMA Detect_Inv ==
  ASSUME WorkersInv, NEW w \in Workers, NEW e \in Events, Detect(w, e)
  PROVE  WorkersInv'
<1>. DEFINE s == [Watching EXCEPT !.phase = "attempt", !.event = e]
<1>1. /\ worker' = [worker EXCEPT ![w] = s] /\ fate' = [fate EXCEPT ![e] = "sending"]
      /\ fate[e] = "new" /\ UNCHANGED <<hs, processed>>
  BY DEF Detect, vars, storeVars, serviceVars
<1>2. /\ s \in [phase : {"watching", "attempt", "waiting"},
                event : Events \cup {Manual}, attempt : 0 .. Retries,
                via : Handlers \cup {Nobody}]
      /\ s.phase = "attempt" /\ s.via = Nobody /\ s.event = e
      /\ Nobody \notin Handlers
  <2>1. /\ Watching \in [phase : {"watching", "attempt", "waiting"},
                         event : Events \cup {Manual}, attempt : 0 .. Retries,
                         via : Handlers \cup {Nobody}]
        /\ Watching.via = Nobody /\ Nobody \notin Handlers
    BY DeliveryConstants DEF Watching
  <2>. QED  BY <2>1
<1>3. fate \in [Events -> {"new", "sending", "delivered", "abandoned"}]
  BY DEF WorkersInv, DeliveryTypeOK
<1>4. \A v \in Workers : worker[v].phase # "watching" =>
         worker[v].event \in Events /\ worker[v].event # e
  BY <1>1 DEF WorkersInv, SendersHaveEvents, SentByOne
<1>. HIDE DEF s
<1>. QED  BY <1>1, <1>2, <1>3, <1>4, Worker_Moves

LEMMA Connect_Inv ==
  ASSUME ServiceInv, WorkersInv, NEW w \in Workers, NEW h \in Handlers, Connect(w, h)
  PROVE  WorkersInv'
<1>. DEFINE s == [worker[w] EXCEPT !.phase = "waiting", !.via = h]
<1>1. /\ worker \in [Workers -> [phase : {"watching", "attempt", "waiting"},
                                 event : Events \cup {Manual}, attempt : 0 .. Retries,
                                 via : Handlers \cup {Nobody}]]
      /\ fate \in [Events -> {"new", "sending", "delivered", "abandoned"}]
      /\ Nobody \notin Handlers
  BY DeliveryConstants DEF WorkersInv, DeliveryTypeOK
<1>2. /\ worker[w].phase = "attempt" /\ ReceiveDetection(h, worker[w].event)
      /\ UNCHANGED <<fate, processed>> /\ At(h, "idle")
  BY DEF Connect, ReceiveDetection, storeVars
<1>3. worker[w].event \in Events /\ fate[worker[w].event] = "sending"
  BY <1>2 DEF WorkersInv, SendersHaveEvents, SentByOne
<1>4. Moves(h, "claim") /\ hs'[h].event = worker[w].event
  BY <1>2, <1>3, ReceiveDetection_Moves
<1>5. ~Awaited(h)
  BY <1>2 DEF WorkersInv, AwaitsItsOwn, Awaited
<1>6. worker' = [worker EXCEPT ![w] = s]
  BY <1>1 DEF Connect
<1>7. /\ s \in [phase : {"watching", "attempt", "waiting"},
                event : Events \cup {Manual}, attempt : 0 .. Retries,
                via : Handlers \cup {Nobody}]
      /\ s.phase = "waiting" /\ s.via = h /\ s.event = worker[w].event
  BY <1>1
<1>. HIDE DEF s
<1>. QED  BY <1>1, <1>2, <1>3, <1>4, <1>5, <1>6, <1>7, Worker_Moves DEF Moves, At

LEMMA GetsAnswer_Inv ==
  ASSUME ServiceInv, AnswersAreDecided, WorkersInv, NEW w \in Workers, GetsAnswer(w)
  PROVE  WorkersInv'
<1>1. PICK h \in Handlers : h = worker[w].via
  BY DEF GetsAnswer, WorkersInv, DeliveryTypeOK
<1>2. worker[w].phase = "waiting" /\ At(h, "reply") /\ Reply(h)
  BY <1>1 DEF GetsAnswer
<1>3. Moves(h, "idle") /\ UNCHANGED processed
  BY <1>2, Reply_Moves DEF Reply, storeVars
<1>4. CASE hs[h].result = "error"
  <2>1. AttemptFails(w)
    BY <1>1, <1>4 DEF GetsAnswer
  <2>. QED  BY <1>1, <1>2, <1>3, <2>1, AttemptFails_Inv DEF Moves
<1>5. CASE hs[h].result # "error"
  <2>1. /\ worker' = [worker EXCEPT ![w] = Watching]
        /\ fate' = [fate EXCEPT ![worker[w].event] = "delivered"]
    BY <1>1, <1>5 DEF GetsAnswer
  <2>2. /\ Watching \in [phase : {"watching", "attempt", "waiting"},
                         event : Events \cup {Manual}, attempt : 0 .. Retries,
                         via : Handlers \cup {Nobody}]
        /\ Watching.phase = "watching" /\ Watching.via = Nobody
        /\ Nobody \notin Handlers
    BY DeliveryConstants DEF Watching
  <2>3. fate \in [Events -> {"new", "sending", "delivered", "abandoned"}]
    BY DEF WorkersInv, DeliveryTypeOK
  <2>4. \A v \in Workers \ {w} : worker[v].phase # "watching" =>
           worker[v].event \in Events /\ worker[v].event # worker[w].event
    BY <1>2 DEF WorkersInv, SendersHaveEvents, SentByOne
  <2>5. worker[w].event \in Events /\ hs[h].event = worker[w].event
    BY <1>1, <1>2 DEF WorkersInv, SendersHaveEvents, AwaitsItsOwn
  <2>6. worker[w].event \in processed
    BY <1>2, <1>5, <2>5, StoreConstants DEF AnswersAreDecided, PastClaim
  <2>. HIDE DEF Watching
  <2>. QED  BY <1>1, <1>3, <2>1, <2>2, <2>3, <2>4, <2>5, <2>6, Worker_Moves DEF Moves
<1>. QED  BY <1>4, <1>5

LEMMA BackendRestarts_Inv ==
  ASSUME WorkersInv, BackendRestarts, Durable => processed \subseteq processed'
  PROVE  WorkersInv'
<1>1. /\ UNCHANGED fate
      /\ worker' = [w \in Workers |-> [worker[w] EXCEPT !.via = Nobody]]
  BY DEF BackendRestarts
<1>2. /\ worker \in [Workers -> [phase : {"watching", "attempt", "waiting"},
                                 event : Events \cup {Manual}, attempt : 0 .. Retries,
                                 via : Handlers \cup {Nobody}]]
      /\ fate \in [Events -> {"new", "sending", "delivered", "abandoned"}]
      /\ Nobody \notin Handlers
  BY DeliveryConstants DEF WorkersInv, DeliveryTypeOK
<1>3. \A w \in Workers : /\ worker'[w].phase = worker[w].phase
                         /\ worker'[w].event = worker[w].event
                         /\ worker'[w].attempt = worker[w].attempt
                         /\ worker'[w].via = Nobody
  BY <1>1, <1>2
<1>4. DeliveryTypeOK'
  BY <1>1, <1>2 DEF DeliveryTypeOK
<1>5. SendersHaveEvents' /\ AwaitsItsOwn' /\ AwaitedByOne' /\ SentByOne'
  BY <1>1, <1>2, <1>3
     DEF WorkersInv, SendersHaveEvents, AwaitsItsOwn, AwaitedByOne, SentByOne
<1>6. DeliveredIsDecided'
  BY <1>1 DEF WorkersInv, DeliveredIsDecided
<1>. QED  BY <1>4, <1>5, <1>6 DEF WorkersInv

-----------------------------------------------------------------------------
(* Every step of the delivery *)

\* Seen from the backend, it is a step of the service or no step.
LEMMA Step_Service ==
  ASSUME WorkersInv, [DeliveryNext]_allVars
  PROVE  [Next]_vars
<1>1. ASSUME NEW w \in Workers, Deliver(w)  PROVE [Next]_vars
  <2>1. ASSUME NEW h \in Handlers, Connect(w, h)  PROVE Next
    <3>1. worker[w].event \in Events /\ ReceiveDetection(h, worker[w].event)
      BY <2>1 DEF Connect, WorkersInv, SendersHaveEvents
    <3>. QED  BY <3>1 DEF Next
  <2>2. ASSUME GetsAnswer(w)  PROVE Next
    <3>1. worker[w].via \in Handlers /\ Reply(worker[w].via)
      BY <2>2 DEF GetsAnswer, WorkersInv, DeliveryTypeOK
    <3>. QED  BY <3>1 DEF Next
  <2>. QED  BY <1>1, <2>1, <2>2 DEF Deliver, ConnectFails, StopsWaiting
<1>2. ASSUME NEW h \in Handlers, Work(h)  PROVE [Next]_vars
  BY <1>2 DEF Work, DropAnswer, Next, Backend
<1>3. ASSUME NEW h \in Handlers, ContextEnds(h)  PROVE [Next]_vars
  BY <1>3 DEF Next, Backend
<1>4. ASSUME ConfigureStore \/ Tick \/ BackendRestarts  PROVE [Next]_vars
  BY <1>4 DEF BackendRestarts, Next, Backend
<1>5. ASSUME NEW w \in Workers, NEW e \in Events, Detect(w, e)  PROVE UNCHANGED vars
  BY <1>5 DEF Detect
<1>6. ASSUME UNCHANGED allVars  PROVE UNCHANGED vars
  BY <1>6 DEF allVars
<1>. QED  BY <1>1, <1>2, <1>3, <1>4, <1>5, <1>6 DEF DeliveryNext

LEMMA Step_Workers ==
  ASSUME DeliveryInv, [DeliveryNext]_allVars
  PROVE  WorkersInv'
<1>. USE DEF DeliveryInv
<1>1. [Next]_vars
  BY Step_Service
<1>2. Durable => processed \subseteq processed'
  BY <1>1, Processed_Grows
<1>3. ASSUME NEW w \in Workers, Deliver(w)  PROVE WorkersInv'
  <2>1. ASSUME ConnectFails(w) \/ StopsWaiting(w)  PROVE WorkersInv'
    <3>1. UNCHANGED hs /\ AttemptFails(w) /\ worker[w].phase # "watching"
      BY <2>1 DEF ConnectFails, StopsWaiting, vars, serviceVars
    <3>. QED  BY <1>2, <3>1, AttemptFails_Inv
  <2>. QED  BY <1>3, <2>1, Connect_Inv, GetsAnswer_Inv DEF Deliver
<1>4. ASSUME NEW h \in Handlers, Work(h)  PROVE WorkersInv'
  <2>1. UNCHANGED deliveryVars
    BY <1>4 DEF Work, DropAnswer
  <2>2. \A g \in Handlers : Awaited(g) => ~At(g, "idle")
    BY DEF WorkersInv, AwaitsItsOwn, Awaited
  <2>3. CASE Serve(h)
    BY <1>2, <2>1, <2>2, <2>3, Serve_Stays, Workers_Still DEF Moves, At
  <2>4. CASE DropAnswer(h)
    BY <1>2, <2>1, <2>2, <2>4, Reply_Moves, Workers_Still DEF DropAnswer, Moves, At
  <2>. QED  BY <1>4, <2>3, <2>4 DEF Work
<1>5. ASSUME NEW h \in Handlers, ContextEnds(h), UNCHANGED deliveryVars
      PROVE  WorkersInv'
  <2>1. \A g \in Handlers : Awaited(g) => ~At(g, "idle")
    BY DEF WorkersInv, AwaitsItsOwn, Awaited
  <2>. QED  BY <1>2, <1>5, <2>1, ContextEnds_Moves, Workers_Still DEF Moves, At
<1>6. ASSUME UNCHANGED <<hs, deliveryVars>>  PROVE WorkersInv'
  <2>1. \A g \in Handlers : Awaited(g) => ~At(g, "idle")
    BY DEF WorkersInv, AwaitsItsOwn, Awaited
  <2>. QED  BY <1>2, <1>6, <2>1, Workers_Still DEF At
<1>7. ASSUME ((ConfigureStore \/ Tick) /\ UNCHANGED deliveryVars) \/ UNCHANGED allVars
      PROVE  UNCHANGED <<hs, deliveryVars>>
  BY <1>7 DEF ConfigureStore, Tick, serviceVars, allVars, vars
<1>. QED  BY <1>2, <1>3, <1>4, <1>5, <1>6, <1>7, Detect_Inv, BackendRestarts_Inv
          DEF DeliveryNext

LEMMA DeliveryInit_Inv == DeliveryInit => DeliveryInv
<1>. SUFFICES ASSUME DeliveryInit  PROVE DeliveryInv
  OBVIOUS
<1>1. ServiceInv
  BY ServiceInit_Inv DEF DeliveryInit
<1>2. AnswersAreDecided
  BY DEF DeliveryInit, Init, ServiceInit, Idle, AnswersAreDecided, PastClaim, At
<1>3. WorkersInv
  BY DeliveryConstants
     DEF DeliveryInit, Watching, WorkersInv, DeliveryTypeOK, SendersHaveEvents,
         AwaitsItsOwn, AwaitedByOne, SentByOne, DeliveredIsDecided
<1>. QED  BY <1>1, <1>2, <1>3 DEF DeliveryInv

LEMMA DeliveryStep_Inv ==
  ASSUME DeliveryInv, [DeliveryNext]_allVars
  PROVE  DeliveryInv'
BY Step_Service, Step_Inv, Step_Decided, Step_Workers DEF DeliveryInv

-----------------------------------------------------------------------------
(* Theorems *)

\* The inductive invariant of the delivery: whatever answers, timeouts, resets
\* and restarts the attempts meet, a waiting worker waits for a handler of its
\* own event, and a handler that will not answer an error has it processed.
THEOREM DeliveryInvariant == DeliverySpec => []DeliveryInv
<1>1. DeliveryInv /\ [DeliveryNext]_allVars => DeliveryInv'
  BY DeliveryStep_Inv
<1>. QED  BY <1>1, DeliveryInit_Inv, PTL DEF DeliverySpec

\* Every variable of the workers keeps its type: no attempt after the last.
THEOREM DeliveryTyping == DeliverySpec => []DeliveryTypeOK
<1>1. DeliveryInv => DeliveryTypeOK
  BY DEF DeliveryInv, WorkersInv
<1>. QED  BY <1>1, DeliveryInvariant, PTL

\* What a worker takes for delivered the durable store has decided, however
\* many attempts it took and whatever became of the handlers of the earlier.
THEOREM DeliveredDecided == DeliverySpec => []DeliveredIsDecided
<1>1. DeliveryInv => DeliveredIsDecided
  BY DEF DeliveryInv, WorkersInv
<1>. QED  BY <1>1, DeliveryInvariant, PTL

\* The backend as its workers use it is the backend of DetectionService: each
\* step of a delivery is a step of the service or leaves it alone.  So what is
\* proved of the service holds under any number of retrying workers.
THEOREM DeliveryUsesService == DeliverySpec => ImplementsService
<1>1. DeliveryInit => Init
  BY DEF DeliveryInit
<1>2. DeliveryInv /\ [DeliveryNext]_allVars => [Next]_vars
  BY Step_Service DEF DeliveryInv
<1>. QED  BY <1>1, <1>2, DeliveryInvariant, PTL DEF DeliverySpec, ImplementsService, Spec

\* Retries never repeat a command: an event that is sent again and again by its
\* worker is executed at most once (backend/README.md:17).
THEOREM RetriesAreSafe == DeliverySpec => []ExecutedAtMostOnce
BY DeliveryUsesService, AtMostOnce, PTL DEF ImplementsService
=============================================================================
