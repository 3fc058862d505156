# TLA+ verification of the gesture-to-appliance system

Cameras watch a person, a Python recognition worker per camera turns gestures
into detection events, a Go backend claims each event, runs the action bound to
the motion on a device (Tuya plug or infrared controller) and logs the outcome,
and a React front end configures bindings, learns infrared buttons and shows
the logs as they happen. This directory holds TLA+ models of that system, the
TLC runs that check them, and TLAPS proofs about the core.

Run a check with `tlc -config MCDetectionService.cfg MCDetectionService` (every
`.cfg` starts with the name of its run in the table below) and a proof with
`tlapm DetectionServiceProofs.tla`.

## 1. Inventory

| component | state | operations | interacts with | what makes it correct |
|---|---|---|---|---|
| backend store (`backend/internal/store`) | actions, bindings, cooldown stamps, processed event ids, logs | create/delete action, bind, unbind, claim, append log, list | called by every handler; in-memory (mutex) or PostgreSQL | one binding per motion, bindings resolve, cooldown spacing, logs kept |
| detection service (`service.go`) | a goroutine per request, nothing shared but the store | `ProcessDetection`, `ExecuteAction` | store, executor, log hub | a command at most once per event, one truthful log per event |
| delivery (`go_api_client.py`, `worker.py`) | one event in flight per worker, attempt counter | `send` with retries and timeouts | POST /internal/detections | the worker is released; what counts as delivered was decided |
| infrared learning (`service/ir.go`) | one session for the whole backend, `irMu` | start, status, confirm, stop, test | infrared client, store | a capture belongs to its session, becomes one action, nothing stays blocked |
| infrared client (`executor/ir.go`) | `operationMu`, learning flag and its deadline | start, status, stop, send, test | ESP32 over HTTP | the flag neither ends early nor stays |
| log hub and stream (`log_hub.go`, `handler.go`) | subscribers with bounded channels, closed flag | subscribe, publish, close, unsubscribe | service publishes, SSE handlers drain | never waits, never panics, no silent gap |
| front end log list (`useLogs.ts`, `logs.ts`) | query cache, promise chain of updates, EventSource | connect, merge, fetch, poll | GET /api/logs and /api/logs/stream | the list ends up as the store has it |
| Tuya executor | none (token cache) | execute, state | Tuya cloud | pure remote I/O |
| HTTP layer, configuration, migrations | none | validation, routing | everything in the backend | - |
| frame sources (`recognition/.../stream`) | reader thread with its backoff and capture, stop event, status, newest frame | start, read, reconnect, stop, status | worker loop, monitor, collector | one capture at a time, an honest status, a stop that ends the reader |
| gesture rules and engine (`rules.py`, `engine.py`) | hold, latch, baseline and cooldown of each rule, time of the last frame | update per frame, reset on a gap | worker loop | one detection per gesture, poses held, cooldown kept |
| template engine (`temporal.py`, `temporal_engine.py`) | window of samples, pending confirmations, time of the last detection | update per frame: sample, normalise, align, vote, confirm | worker loop, monitor | evidence of one stretch, a detection confirmed and a cooldown apart, an exact alignment |
| observability (`latest_writer.py`, `metrics.py`) | pending task, thread; counters | start, submit, stop; observe, finish | monitor, worker loop | newest task wins, no write after the stop, counts add up |
| detection monitor (`monitor_detections.py`) | last sequence, report, stop flag | poll, infer, update, report, shut down | frame source, writer, metrics, signals | a true report, an end in every case |
| delimited collection (`collect_delimited_landmarks.py`) | phase, segment, palm gate, output and status files | one iteration per frame | frame source, signals | every segment once and in order, one palm one delimiter |
| camera firmware (`micon/src/main.cpp`) | latest frame, client slots, watchdog | camera task, stream handler | frame sources | slots released, watchdog fires when and only when frames stop |
| infrared dialog (`IRLearnActionModal.tsx`) | phase, poll timer, session | start, poll, save, cancel | infrared learning | no abandoned session |

The hard behaviours are in `PROJECT.json` under `hazards`, each at its line.
The ones that carry the system are: two requests with one event id, a worker's
retry that overtakes the handler of its own earlier attempt, an ended request
context between a device command and its log, a commit that reports failure, a
process that dies between any two of these steps, three clocks that disagree
about a learning session, a log list fed by two channels out of order, evidence
of a gesture that spans a gap in the frames, and a camera that is lost while its
reader is being stopped.

## 2. Modules

```
DetectionStore <- DetectionService <- DetectionProperties <- DetectionDelivery
                                          |  (instance) DetectionContract
DetectionProperties <- MCDetectionService
DetectionProperties <- DetectionServiceProofs <- DetectionDeliveryProofs
MCDetectionService, DetectionServiceProofs <- MCDetectionServiceProofs
IRController <- IRLearning <- IRLearningProofs
LogHub <- LogView <- LogViewProofs
GestureRules <- GestureEngine <- GestureEngineProofs
TemporalClassifier <- TemporalEngine <- MCTemporalEngine
TemporalEngine <- TemporalEngineProofs
FrameSource, LatestTaskWriter <- DetectionMonitor
DetectionMonitor, LandmarkCollector <- MCCameraPrograms
DetectionMonitor, LandmarkCollector <- CameraProgramsProofs
```
(`A <- B`: B extends A.) The `MC*` modules give the constants values, bounds and
symmetry; a `*Proofs` module also extends the component it is about.

**DetectionStore** is the store as its callers see it: one atomic action per
operation, the granularity of `memory.go`, where each operation holds the mutex
throughout. `CreateBinding` is two actions, `RebindMotion` and `BindMotion`, for
its two returns; `ClaimDetection` is four (`ClaimDuplicate`, `ClaimRejected`,
`ClaimCooling`, `ClaimGranted`). `MotionOf` folds the look-ups of camera and
motion code, `Reopen` is what a new process finds. `grants` is a history
variable for the cooldown properties. With `Durable` TRUE the same module
stands for PostgreSQL at the granularity of a transaction.

**DetectionService** runs `ProcessDetection` and `ExecuteAction` as handlers with
a program counter: `claim`, (`lookup`,) `execute`, `append`, `publish`, `reply`.
Every call to the store is one step, so anything can happen between two calls:
other requests, the end of the context (`ContextEnds`), a crash (`Restart`).
`StoreFails` says when a call can fail: never in memory, which ignores the
context; with PostgreSQL when the context has ended, and at any time with
`DatabaseFails`. `ClaimCommitUnknown` is a transaction that committed although
`Commit` returned an error, `RecordCommitUnknown` an insert of a log that did.
`runs` counts the commands issued for an event.

**MCDetectionService** runs both kinds of store: a behaviour chooses one at the
start (`kind`), and what only the in-memory store promises
(`MemoryKeepsOutcomes`) is stated of those behaviours, through an instance of
the properties with `Durable` FALSE.

**DetectionProperties** states what this promises and the invariant behind it.
**DetectionContract** is the abstract specification: the life of one event id
(unseen, held, granted, issued, recorded or lost) without handlers, store or
clock. `LifeOf` is the refinement mapping.

**DetectionDelivery** puts workers with their attempts in front of the handlers.
Its steps are steps of DetectionService (`ImplementsService`).

**IRController** is the client (`operationMu`, learning flag) and, as an external
device, the ESP32 with its own deadline. A call is two steps: the request takes
effect at the device or is lost; later its answer returns or is lost.
**IRLearning** is the session logic above it, one action for each stretch of a
request between two calls; `irMu` is held from a request's first look at the
session to its end. Sends do not take `irMu` and meet the others at the
controller (a test signal is sent under the same guards and is not told apart).
All sessions have the same timeout. `row` in a stored action tells two inserts
of the same capture apart.

**LogHub** is the hub of one process and the stream handlers: `Publish` offers a
log to every channel and closes the full ones. A request stores its log first
(`AppendLog`) and publishes it in a later step; one that PostgreSQL tells of an
error although it stored the log never does (`AppendUnreported`). `panicked` is set
where a closed channel would be closed again or sent to. **LogView** is the hook: the
promise chain (`updates`, `updating`), the query (`fetch`, and `failed` for how the
last fetch ended) and the EventSource. What the query library does is taken from how
the hook relies on it: an invalidation cancels a fetch under way and fetches anew if
there is a list, and waits for the fetch under way if there is none yet
(`FirstFetch`); a cancelled fetch lets the promise chain go on at once or with the
new one; a failed fetch is tried again or given up. The 30 s refetch (`Poll`) is always
possible; the browser runs it only while the page is in the foreground, so nothing is
assumed of when it comes. `unread` is a history variable: the logs a first list under
way was read too early for and the stream was connected too late for.

**GestureRules** holds the state machines of the eleven fixed rules as nine kinds
(left and right hand are one rule; the right palm rotation confirms its candidate
with a second frame). A frame carries the position along the gesture's axis, the
shape of the hand and one flag for the geometric conditions that only hold a
detection back. **GestureEngine** feeds frames with any time stamps to one rule
and resets it after a gap or when the clock went back. Rules share nothing but
the frames, so one rule at a time is no restriction. `seen` is an observer of the
same frames: what moved and what was held since the last detection. It decides
on its own what a gap is; a frame that does not show the raised hand is one in which it is
lowered, as it is for the rule. One branch of `ThumbDownLatched` is the code's own
defence (rules.py:1538); `EngineTypeOK` shows that it is never taken.

**TemporalClassifier** is the pure part of the template engine: resampling, the
warping distance (`Alignment`, row by row, as a recursive function) and the vote of
the nearest samples. Of a frame it keeps the shoulders, one wrist and one hand on a
single axis of whole numbers. **TemporalEngine** is `update`: the guards before a
frame becomes a sample, its normalisation, smoothing and the filling of a missed
hand, the window, the classification and the confirmation. What an observer of the same frames knows
(`stretch`, `handAt`) says from which frames a sample may come, and what the caller was
told (`heard`) when a motion was last detected, apart from the engine's own record
(`emitted`).

**FrameSource** is the reader thread of an MJPEG stream or a webcam, cut at every
point where another thread can act, with what the program's thread calls.
`open` holds the captures that hold the camera, `sequence` the number of the newest
frame. **LatestTaskWriter** is the thread behind `LatestTaskWriter.submit`, one action
for each section under its lock. **DetectionMonitor** is the program that composes
them: its loop, its metrics, its report file and the order in which it ends.

**LandmarkCollector** is the other program: the palm gate and the phases of a
segment. Times are ages and remaining times, because the loop only ever compares
them. **MCCameraPrograms** is the disjoint union of the two programs: a behaviour is
one of the monitor or one of the collector, and they share nothing.

## 3. Runs

| run | module | what it shows | distinct states |
|---|---|---|---|
| MCDetectionService | MCDetectionService | service beside every configuration of actions and bindings, over the in-memory store, where nothing is lost while the process lives, and over a failing PostgreSQL with a crash: bindings, stamps, spacing and logs hold, a command is issued once, and both stores implement DetectionContract. 2 handlers, 2 events of one motion, 2 bindings, cooldown 2, clock 0..2, 1 restart | 560 k |
| MCDetectionDelivery | MCDetectionDelivery | one event, three attempts over three handlers that outlive their attempts, with a crash; implements DetectionService; the worker is always released (liveness) | 72 k |
| MCDeliveryUnrecorded | MCDetectionDelivery | *violation*: a command whose outcome is never logged | - |
| MCIRLearning | MCIRLearning | sessions of two appliances, lost answers, expiry, retried confirmations, direct creations, a restart; no deadlock on the two mutexes | 550 k |
| MCIRRetryAfter408 | MCIRLearning | *violation*: after a 408 the learning flag stays | - |
| MCIRTakenName | MCIRLearning | *violation*: a taken name is stored again | - |
| MCLogView | MCLogView | the stream carries a prefix of what was published, no channel is closed twice, a quiet list lacks nothing that was announced to it, and it converges (liveness), with a full buffer, a log stored under an error, a break, a shutdown, a failed fetch and a restart | 192 k |
| MCGestureEngine | GestureEngine | nine kinds of rules under every sequence of frames: guards are kept, one movement is one detection, poses are held | 91 k |
| MCHeldPose | GestureEngine | *violation*: a hand that stays raised over a gap is detected again | - |
| MCTemporalEngine | MCTemporalEngine | the template engine over frames with gaps, lost persons and clocks that go back; the row-by-row distance is the best alignment | 38 k |
| MCOutvoted | MCTemporalEngine | *violation*: a motion is selected although its nearest sample is beyond its threshold | - |
| MCCameraPrograms | MCCameraPrograms | the monitor with its reader, writer and signal, and the collector: one capture, honest status and report, an end in every case (liveness), segments in order | 532 k |

Bounds and why they are enough. Two events that select the same motion, and two
handlers, are what a race for an event id or a cooldown needs; a request takes its
stamp from the clock when it arrives, so a claim can reach the store after one that
is stamped later. Two binding ids let a motion get a second binding if anything
could give it one; the clock passes through the whole cooldown and to its end. An
event that resolves to nothing is rejected like one whose motion has no binding; the
proofs cover it, and any number of motions. `MaxLogs` lets every event and one manual
execution be logged; a request is accepted only while every busy handler could
still store its log, so no handler is ever held up by the bound. One restart
puts a crash between any two steps. `Retries` 2 gives three attempts, each with a
handler that may still be running when the next one is sent; the delivery run
has one event because the races between two are those of MCDetectionService,
whose steps it refines. Two clients and two sessions give the races for `irMu`
and a capture that outlives its session; the clock runs past a deadline.
`Buffer` 1 and two logs fill the channel and overflow it, and two logs stored in
one order can be published in the other. `MaxBreaks`, `MaxFailures` and
`MaxRestarts` 1 put one broken connection, one failed fetch and one new process
anywhere, and `MaxUnreported` 1 lets either log, or none, be the one stored under an
error. `Streams` are the server's slots for one browser: with one, a new
connection waits until the handler of the one before has ended.

Gestures: positions 0..3 with `Threshold` 2 and `Margin` 1 tell a movement, its
overshoot and its return apart; `MinFrames` 2 needs a run of frames. Frames are
stamped 0..4 in any order and `Gap` is 1, so every limit can be kept, reached and
passed with and without a gap, and behaviours are unbounded in length.

Templates: two motions of two samples, beside one that a rule recognises and one
that is switched off, are what the filter and the vote tell apart; the disagreement
takes a motion with a single sample. A window of three samples fills and slides.
`MaxTime` 5 with `Gap` 2 puts gaps, confirmations and cooldowns before, at and after
their limits; the clock may go back.

Cameras: `MaxFrames` 2 and `MaxBurst` 2 overwrite a frame unread, inside a chunk or
between two; `MaxReconnects` 2 with a backoff of 2 to 3 reaches the limit of the
wait, and after a stop a call may still fail. Two motions of two samples take the
step to the next sample, to the next motion and to the end; durations of 2 tell a
moment from enough, and `MaxRecords` 2 gives a segment none, one or several records.

Deadlock is checked in every run but MCCameraPrograms: both programs end, and a
source whose frames are used up waits for its signal. Symmetry is used in runs
without liveness only, over model values the specification treats alike.

### Fairness

*Delivery* (`DeliveryFairSpec`): weak fairness for each handler and each worker. Go
schedules runnable goroutines, each call a handler makes is bounded by its
deadline of 10 s, each attempt by the client's timeout and each pause by the
backoff. Requests, configuration, the clock, failures and crashes get none.

*Log view* (`FairSpec`): weak fairness for publishing, for handlers, for the
browser's reconnect, event and fetch steps, and for the end of a process whose
hub was closed. Storing logs, breaks, failures and crashes get none, and neither
does polling: `ViewConverges` asks for the list to converge by the events alone in every
behaviour in which no fetch fails, no log is stored under a reported error and no
connection comes between the read of the first list and its arrival. In all others it
assumes, as the antecedent of the property, weak fairness of `Poll`: a page that
comes to the foreground again and again polls.

*Monitor* (`MonitorFairness`, in `MCFairness`): weak fairness for the loop, the
reader and the writer. The threads are scheduled, and every call that blocks
returns: the stream has a timeout, a webcam answers or is released by `stop`, a
file is written or refused. (The program itself does not rely on that: it joins the reader
for two seconds and then ends, as the reader is a daemon thread.) Signals and failures get none. That a reader which
`stop` no longer waits for still ends is part of `StopEndsEverything`.

*Infrared*: none. `SomeRequestMoves` is an invariant: whenever a request is in
progress, one of them can take a step, so `irMu` and `operationMu` never leave
everyone waiting.

### Disagreements between documents and code

Five runs end in a violation, each of a statement in the repository's documents;
`PROJECT.json` quotes them under `findings`.

1. *MCDeliveryUnrecorded*: the result of a command is stored with the context of
   the request. The worker's 3 s timeout closes the connection and ends it;
   PostgreSQL then refuses the log, and the retry is told "duplicate". In memory
   this cannot happen (`MemoryKeepsOutcomes`, proved as `MemoryKeeps`).
2. *MCIRRetryAfter408*: a 408 drops the session but returns before the learning
   flag is cleared, so the controller looks busy until the local deadline.
3. *MCIRTakenName*: the name check of a confirmation is not atomic with direct
   creations. Two confirmations cannot do this to each other
   (`ConfirmedNamesUnique`).
4. *MCOutvoted*: recognition/README.md:92-94 says that a classification whose nearest
   distance to the selected motion exceeds the motion's threshold is `UNKNOWN`. The
   vote picks the motion among the nearest samples, and its threshold is then
   compared with the distance of the nearest sample of all, which may belong to
   another motion (temporal.py:1028-1033).
5. *MCHeldPose*: mvp-specification.md:119 and 211 and recognition/README.md:151-152 want a
   held pose detected once until it is left. A capture gap resets the rules (engine.py:33)
   and with them the latch of a raised hand, which is then detected again after the cooldown.
   Within frames that follow each other the latch holds, and the other rules need their
   movement again after a gap too (`OneMovementOneDetection`, proved as
   `MovementsCountOnce`).

Two more have no run of their own; the models have the behaviour, and the passing
properties say exactly what it can cost.

* useLogs.ts:41 wants the logs reconciled after each connection. When `connected` arrives
  during the first load, the invalidation joins the fetch under way, which may have read
  the store before a log that was published ahead of the subscription. The list lacks that
  log until the next event or poll: the `unread` of `QuietListIsCurrent` and the
  antecedent of `ViewConverges`. Once there is a list, each connection does reconcile.
* backend-api-specification.md:568-569 promises a `log` event when a log is stored. A
  request that PostgreSQL tells of an error after it has stored the log returns before it
  publishes (service.go:85-87, 107-110): `unreported` in the log view, and in the service
  the reason why `StoredIsPublished` is part of `MemoryKeepsOutcomes` only.

Not a finding but a remark: a finger snap keeps no time of its last detection through a gap
(rules.py, `reset`), so `DuplicateGuard` asks for its guard only of detections without one
between them, while recognition/README.md:121 speaks of 1.50 s without qualification.

## 4. Proofs

Every theorem holds for all values of the constants that the named assumptions allow, not
only for those of the runs. Each component has an inductive invariant from which its
properties follow. `PROJECT.json` lists the theorems with the property each one states.

### Detection path

`DetectionServiceProofs` (the store, then the service over it), `MCDetectionServiceProofs`
and `DetectionDeliveryProofs`, under `StoreConstants`, `ServiceConstants` and
`DeliveryConstants`: any sets of events, motions, actions, bindings, handlers and workers,
any cooldown, any number of retries, either store.

* `StoreInvariant`. Spacing alone is not inductive: a claim is compared with the
  binding's stamp, not with earlier grants, so the invariant adds that the stamp is
  at least every grant's (`StampIsLatest`), that an id names one binding
  (`OneBindingPerId`) and that grants are for processed events. `StoreConfiguration`,
  `StoreCooldown` and `StoreTyping` follow. `StoreKeepsLogs` and `StoreCooling` are
  action properties: the second needs that a binding with a stamp has a grant.
* `ServiceUsesStore`: each step of the service is a step of the store or leaves it
  alone, so the store's theorems hold of the service.
* `ServiceInvariant`. At-most-once rests on `HoldersAreExclusive` (a granted event is
  in the hands of one handler, with its command issued exactly when that handler has
  moved on to recording and with no log yet) and `UnclaimedIsUntouched`. `AtMostOnce`,
  `LogsAreSound`, `AnnouncedIsStored` and, for the in-memory store,
  `MemoryLosesNothing` follow.
* `PipelineKeepsContract`: the service implements `DetectionContract` under the mapping
  `LifeOf`. The proof takes each action of a handler to a step in the life of its own
  event and shows that the lives of all others stay (`OneMoves`); a restart over a durable
  store loses every event that was granted or issued and not recorded, several at once, and
  one that takes the store along forgets all of them.
* `MCDetectionServiceProofs` states the two properties that are about the choice of a
  store, over the specification the run checks: `MemoryKeeps` and `StoresKeepContract`.
  The in-memory store is an instance of the service with `Durable` FALSE, so the lemmas of
  `DetectionServiceProofs` are instantiated in the same way (`Volatile`) and cover its
  steps; what is proved here is that the two instances are the same formulas
  (`SameSteps`, `SameInvariant`, `SameContract`) and that the choice is never changed.
* `DeliveryInvariant` adds to the service's invariant that a worker waits for one
  handler, which serves its own event and no other worker (`AwaitsItsOwn`,
  `AwaitedByOne`), that an event is sent by one worker (`SentByOne`), and that a handler
  past its claim serves a processed event (`AnswersAreDecided`); without the last,
  `DeliveredDecided` is not inductive, because the answer is given steps after the
  claim. `DeliveryUsesService` is the refinement, and `RetriesAreSafe` carries
  `AtMostOnce` over to it.

### Infrared path

`IRLearningProofs`, under `ControllerConstants` and `LearningConstants`: any finite set of
clients, any number of sessions, captures and restarts. The number of sessions is bounded
over requests that have not been served yet, so the proof counts clients: that is why
they are finite. `LearningInv` starts from the mutex: whoever is past its first look at
the session holds `irMu` (`HolderWorks`), and only the holder has a call under way
(`OneCall`). So what a request found still holds when it acts (`StepHolds`, which the code
relies on and never checks again), and what the controller answered is still true when the
answer arrives (`AnswerHolds`). On these rest `CaptureStaysCurrent`,
`WaitingStaysFlagged` and `NamesStayUnique`. `FreeWithState` is stated for
`~AnswersWith408`, and `TakenRefused` for `~DirectCreates`: the runs MCIRRetryAfter408 and
MCIRTakenName show that each fails otherwise, and in which way. Retried confirmations
keep their name check under `irMu`, so `NamesStayUnique` needs no such condition.

`NoCircularWait` is the part of `SomeRequestMoves` that is about states: whenever there is a
request, some request finds what it waits for (`CanServe`): a free `irMu`, a free
controller, or its answer. The order of the two mutexes carries it: a call is made by the
holder of `irMu` or by a send, which takes no `irMu`, and a call always has a branch for its
answer, for which the invariant adds that a status is never answered "ok"
(`StatusIsReported`). That `CanServe` makes a step possible is about ENABLED and is checked
by the run.

### Log path

`LogViewProofs`, under `HubConstants` and `ViewConstants`: any buffer, limit and number of
logs, streams, breaks and restarts. `NoGaps` compares the concatenation of what was sent and
what waits in the channel with a stretch of the feed; its inductive form (`CarriesFeed`)
gives the place of each log in the feed, so that moving one from the channel to the
connection changes no place (`HeadMoves`). A stream the hub still has is level with the
feed, one it has cut off may lag behind. `FetchNeverOlder` needs that an answer under way is
not older than the list (`AnswerIsNotOlder`): an update that arrives meanwhile cancels it.
`ViewTypes` includes that the merge keeps a log at most once and that the hub's open channels
are those of its subscribers, so that none is closed twice or sent to when closed.
`QuietListIsCurrent` is the safety half of the convergence: of a list that has its stream,
whose last fetch did not fail and to which nothing is on its way, it says which logs can be
missing. Its inductive form (`CurrentInv`) speaks of the two lists there can be, the one on
the page when no fetch is under way and the one an answer under way carries: while the hub
has the stream, each either will be fetched again, because a `connected` that finds a loaded
list is on its way (`Refetches`), or lacks only logs that are coming (`Coming`: with the request
that stored them, in the channel, on the connection or in the promise chain) or that were
stored under a reported error (`unreported`) or read too early for (`unread`). That is
`NothingLost`. Each step moves a log one place on, or takes the stream away; the next
connection invalidates a list that is loaded, or joins the first fetch, and then what that
has missed is `unread`.

### Recognition

* `GestureEngineProofs`, under `RuleConstants` and `EngineConstants`: all nine kinds of
  rules, any thresholds, times and gap. `EngineInv` relates the rule to the observer, per
  kind: the baseline, gate or armed position that the rule measures a movement by was seen
  by the observer since the last detection (`Covers`), and the rule's last detection is the
  observer's, also where a reset after a gap forgets everything else. The three properties
  are about the frame just handled, which the observer has not yet turned into its next
  observation, hence `After`. `DetectionsGuarded`, `MovementsCountOnce` and `PosesAreHeld`
  follow.
* `CameraProgramsProofs`, under `SourceConstants` and `MonitorConstants`: both kinds of
  source, any backoff, number of frames and failures. `MonitorInv` says where the reader may
  hold a capture (`OpenIsHeld`: a stream only while it is read, a device until the wait after
  a failure is over), that no error is shown while images come, and, of the program, that
  it starts the source once and joins it only after the stop event is set. `CountsInv` says
  when a frame is in hand and uncounted (`FramesCounted`), that frames were received before
  a connection counts as lost (`FirstConnection`), and that what was written, what is
  being written and what waits are in the order of their frames (`TasksAscend`).
* The same module, under `CollectorConstants`: any number of motions and samples
  and any durations. `SegmentsInOrder` is not inductive: the step that measures a segment
  must know that the segment of the stage is the one after the last measured one.
  `StageFollows` says so: before the target phase the stage is one ahead of what was
  measured, from then on it is level. The index of a segment is a product, so the three
  facts about it (it starts at 1, an advance adds 1, the last one is
  `MotionTotal * Samples`) are lemmas of their own. `PalmsCountedOnce` compares the gate
  with an observer who sees the same frames. The gate is reset with the phase and may have
  forgotten a palm the observer still sees; but a palm it has seen, the observer has seen
  for as long and missed for as long (`GateFollows`), so a palm that counts was held and a
  release that counts was one, and a palm that was counted has to be lowered before
  the next one is waited for (`LoweredFollows`).
* `TemporalEngineProofs`, under `ClassifierConstants` and `EngineConstants`: any finite set
  of samples of any length, any thresholds, window, stride, confirmations, times and shots.
  The five properties of the run, in three layers.
  - *The warping* (`Best`). That a path's cost is its sum and that the table's cells are
    numbers are inductions over recursive functions, and so is optimality: every cell holds
    the cost of the cheapest path to it and the length of one that has it (`AlignmentBest`,
    by rows and within a row by columns). A path to a cell is a path to one of its three
    predecessors and one cell more, and one costs what the other does and the cell's own
    distance; `Cheapest` takes the least, whichever way ties go.
  - *The vote* (`ClassifyNames`). The order of the samples is total (`SamplesValid`: names
    are unique), so a finite set of them has a nearest one, which votes; and of the motions
    with the most votes, those with the least sum of distances have one with the least code,
    which beats every other. A classification therefore names a motion of the templates or
    none, and its distances are numbers: without that, neither `emitted` nor the cooldown
    has a type.
  - *The engine* (`EngineInvariant`). The properties are not inductive. `Holds` relates
    what the engine keeps to what an observer of the frames saw: the window has as many frames
    as the uninterrupted stretch, up to `History`; the hand that fills gaps was seen when
    the observer last saw one, as long as it is used (`HandHolds`); and `n` pending
    confirmations stand for `History + (n - 1) * Stride` frames of the stretch and those
    since the last inference (`Waited`), as the frame counter is not cleared with the
    window. A near-exact match is the one way around it. For `Spaced` the invariant says
    that the engine's record of detections is what the caller was told (`heard = emitted`)
    through every clearing of the sequence. It was checked by TLC on the
    constants of MCTemporalEngine before it was proved.

### Only model-checked

Liveness (`SendsEnd`, `ViewConverges`, `StopEndsEverything`) needs fairness, which takes
ENABLED, and the second half of `SomeRequestMoves` is about ENABLED itself: neither is
within reach of the prover. Every other property of a passing run is proved.

The library's induction theorems take an operator as a parameter, which the provers cannot
instantiate. Where a proof needs induction (the warping table, sums over finite sets), it
takes the set of the numbers that have the property: a set of naturals that is not empty has
a least element (`Smallest`, from `NatLessThanWellFounded`), so one that holds 0 and every
successor is `Nat` (`Inductive`), and a function defined by recursion exists
(`Recursion`). Folds over finite sets (`Total`) come with an equation that way.

## 5. What is not modelled

The state inside a PostgreSQL transaction (row locks, statement snapshots). The
geometry of gestures (which landmarks make a position or a shape), the reading of
the template asset, and the numpy batch that computes the same table as its
fallback. Decoding, cropping and encoding of images, display rates and latencies,
and the factory that picks a source. MediaPipe. The firmware, the infrared dialog
and the other front end pages. Tuya's protocol, configuration, migrations, the
guided collector and the offline scripts. Payloads, names and messages are abstract
values. Strict request validation is assumed: enumerated requests are well-formed.

The order of two events' commands (go_api_client.py:68) is a behaviour of the models
that no document speaks against, and has no property. `learningUntil` and `ExpiresAt`
come from one reading of the clock in the model and from two, moments apart, in the code.
A failing write of the collector's status file, which would end that program, is left
out. Which of several best paths the warping takes (the order of ties) is as in the code,
but no property tells one best path from another.

## 6. Plan

The modules above cover the detection path, the infrared path, the log path and
the recognition worker's own state. What is left, most important first:

1. **PostgresClaim**: the statements of the claim transaction with row locks and
   statement snapshots, refining DetectionStore except where re-evaluation after a
   lock wait differs. Run: two claims, a rebind and a delete.
2. **IRDialog**: the dialog over IRLearning, with answers to requests of an earlier
   phase. Property: a closed dialog leaves no session once its requests are answered.
3. **MiconCamera**: camera task, frame lock, client slots and watchdog with
   32-bit time.
4. The guided collector and the segmentation of its recordings, which share the
   phases and the output file of LandmarkCollector.
5. An abstract specification of the template engine: a detection is a window of one
   stretch that matches a motion, the cooldown apart. The proved invariant has the
   mapping it needs.
