---------------------------- MODULE TemporalEngine ----------------------------
(***************************************************************************)
(* The engine that recognises registered motions in a sliding window       *)
(* (recognition/.../gestures/temporal_engine.py) with the preprocessing of *)
(* temporal.py before TemporalClassifier: normalisation around the         *)
(* shoulders, smoothing, and filling of short gaps of the hand detector.   *)
(*                                                                         *)
(* MediaPipe finds all points of a hand or none, so one point stands for   *)
(* the hand.  A landmark of a shot is None when it is absent or its        *)
(* visibility is below the limit.                                          *)
(*                                                                         *)
(* stretch, handAt and heard are history variables: the frames an observer *)
(* saw sampled and when it last saw the hand, since the last interruption, *)
(* and when it was last told of each motion.                               *)
(***************************************************************************)
EXTENDS TemporalClassifier

CONSTANTS
    Shots,           \* what the camera may see: [left, right, wrist, hand]
    MaxTime,         \* bound: capture times
    Unit,            \* a shoulder width in normalised coordinates
    MinWidth,        \* minimum_shoulder_width
    Alpha, AlphaOf,  \* ema_alpha is Alpha / AlphaOf
    FillTime,        \* max_gap_seconds of the hand
    FillWeight, FillLeast, \* initial_weight and minimum_weight of a filled hand
    Interval,        \* 1 / target_fps
    Window,          \* window_frames
    MinWindow,       \* minimum_window_frames
    Stride,          \* inference_stride_frames
    Confirmations,   \* confirmation_count
    Cooldown,        \* cooldown_seconds
    Gap              \* reset_after_gap_seconds

Optional(S) == S \cup {None}

ASSUME EngineConstants ==
    /\ Shots \subseteq [left : Optional(Int), right : Optional(Int),
                       wrist : Optional(Int), hand : Optional(Int)]
    /\ {Unit, MinWidth, AlphaOf, FillTime, FillLeast, Interval, MinWindow, Window, Stride,
        Confirmations, Gap} \subseteq Nat \ {0}
    /\ {MaxTime, Cooldown} \subseteq Nat
    /\ Alpha \in 1 .. AlphaOf
    /\ FillWeight \in FillLeast .. FullWeight
    /\ MinWindow <= Window

VARIABLES
    lastAt,     \* captured_at of the last frame
    sampled,    \* frames sampled since the counter started, modulo Stride
    sequence,   \* what _clear_sequence clears
    emitted,    \* when each motion was last detected, for the cooldown
    detected,   \* the detection the last frame gave
    stretch,
    handAt,
    heard

vars == <<lastAt, sampled, sequence, emitted, detected, stretch, handAt, heard>>

Times == 0 .. MaxTime

\* The window holds the longest registered sample.
History == Max({Window} \cup {Len(t.frames) : t \in Templates})

\* What a detection without a near-exact match takes: a window's worth of frames
\* and a stride for every further confirmation.
Enough == History + (Confirmations - 1) * Stride

NotPending == [motion |-> None, count |-> 0]

\* When a frame was last sampled, what the moving average goes on from, the hand
\* a gap is filled with, the newest frames, the motion that waits for
\* confirmation, and the last classification.
Fresh == [sampledAt |-> None, smooth |-> None, recovery |-> None, window |-> <<>>,
          pending |-> NotPending, last |-> None]

Init ==
    /\ lastAt = None
    /\ sampled = 0
    /\ sequence = Fresh
    /\ emitted = [m \in Motions |-> None]
    /\ detected = None
    /\ stretch = 0
    /\ handAt = None
    /\ heard = [m \in Motions |-> None]

-----------------------------------------------------------------------------
(* Preprocessing *)

Usable(shot) ==
    shot.left # None /\ shot.right # None /\ Apart(shot.left, shot.right) >= MinWidth

\* The shoulders' middle is the origin, their distance the unit.
Normalised(shot, x) ==
    IF x = None THEN None
    ELSE ((2 * x - shot.left - shot.right) * Unit) \div (2 * Apart(shot.left, shot.right))

Observed(x) == IF x = None THEN 0 ELSE FullWeight

\* Smoothing starts over with every landmark that was missing.
Average(previous, x) ==
    IF x = None \/ previous = None THEN x
    ELSE (Alpha * x + (AlphaOf - Alpha) * previous) \div AlphaOf

Smoothed(smooth, shot) ==
    LET point == [wrist |-> Normalised(shot, shot.wrist), hand |-> Normalised(shot, shot.hand)]
    IN IF smooth = None THEN point ELSE [p \in Features |-> Average(smooth[p], point[p])]

\* A hand that was seen before, r, fills in for one that is missing.
Fills(r, point, at) == point.hand = None /\ r # None /\ at - r.at \in 0 .. FillTime

\* It goes along with the wrist and weighs less by the time.
Moved(r, point) ==
    r.hand + IF point.wrist = None \/ r.wrist = None THEN 0 ELSE point.wrist - r.wrist

Faded(r, at) ==
    Most(FillLeast, FillWeight - ((FillWeight - FillLeast) * (at - r.at)) \div FillTime)

Filled(r, point, at) ==
    [point |-> IF Fills(r, point, at) THEN [point EXCEPT !.hand = Moved(r, point)] ELSE point,
     weight |-> [wrist |-> Observed(point.wrist),
                 hand |-> IF Fills(r, point, at) THEN Faded(r, at) ELSE Observed(point.hand)]]

Recovery(r, point, at) ==
    IF point.hand # None THEN [hand |-> point.hand, wrist |-> point.wrist, at |-> at]
    ELSE IF Fills(r, point, at) THEN r ELSE None

\* Mutant of Slide: the window has no limit.
Slide_Unlimited(window, f) == Append(window, f)

Slide(window, f) ==
    IF Len(window) < History THEN Append(window, f) ELSE Append(Tail(window), f)

Taken(s, shot, at) ==
    LET point == Smoothed(s.smooth, shot)
    IN [s EXCEPT !.sampledAt = at,
                 !.smooth = point,
                 !.recovery = Recovery(s.recovery, point, at),
                 !.window = Slide(s.window, Filled(s.recovery, point, at))]

-----------------------------------------------------------------------------
(* Confirmation *)

\* A near-exact match counts at once where a window may be shorter than usual.
Strong(r) == r.near /\ MinWindow < Window

\* What an observer knows after a frame: a capture gap, or a clock that went back,
\* ends the stretch, a sampled frame goes on with it or begins one.
Continued(at, x, none) == IF lastAt # None /\ at - lastAt \notin 0 .. Gap THEN none ELSE x

Observe(shot, at) ==
    /\ stretch' = Least(Continued(at, stretch, 0) + 1, Enough)
    /\ handAt' = IF shot.hand # None THEN at ELSE Continued(at, handAt, None)

Forget == stretch' = 0 /\ handAt' = None

\* Mutant of NoDetection: a capture gap resets the engine, cooldowns and all.
NoDetection_Resets ==
    /\ detected' = None
    /\ emitted' = [m \in Motions |-> Continued(lastAt', emitted[m], None)]
    /\ UNCHANGED heard

NoDetection ==
    /\ detected' = None
    /\ UNCHANGED <<emitted, heard>>

Pending(s, r) ==
    [motion |-> r.motion,
     count |-> IF Strong(r) THEN Confirmations
               ELSE IF r.motion = s.pending.motion THEN s.pending.count + 1 ELSE 1]

Rested(m, at) == emitted[m] # None => at - emitted[m] >= Cooldown

\* A result of nothing, or one that is not confirmed yet.
Waits(s, n, r, shot, at) ==
    /\ r.motion # None => Pending(s, r).count < Confirmations
    /\ sequence' = [s EXCEPT !.pending = IF r.motion = None THEN NotPending ELSE Pending(s, r)]
    /\ sampled' = n
    /\ Observe(shot, at)
    /\ NoDetection

\* A repetition ends the sequence but not the count of its frames.
HoldsOff(s, n, r) ==
    /\ r.motion # None /\ Pending(s, r).count >= Confirmations
    /\ ~Rested(r.motion, lastAt')
    /\ sequence' = Fresh
    /\ sampled' = n
    /\ Forget
    /\ NoDetection

Detects(s, r) ==
    /\ r.motion # None /\ Pending(s, r).count >= Confirmations
    /\ Rested(r.motion, lastAt')
    /\ sequence' = Fresh
    /\ sampled' = 0
    /\ emitted' = [emitted EXCEPT ![r.motion] = lastAt']
    /\ detected' = [motion |-> r.motion, near |-> r.near, own |-> r.own,
                    after |-> Least(Continued(lastAt', stretch, 0) + 1, Enough)]
    /\ heard' = [heard EXCEPT ![r.motion] = lastAt']
    /\ Forget

\* The motion a classification names waits, is held off or is detected; a strong
\* match never waits.
Confirm(s, n, r, shot, at) ==
    \/ Waits(s, n, r, shot, at)
    \/ HoldsOff(s, n, r)
    \/ Detects(s, r)

-----------------------------------------------------------------------------
(* Frames *)

\* Mutant of Interrupted: only a late frame interrupts.
Interrupted_Late(at) == lastAt # None /\ at - lastAt > Gap

Interrupted(at) == lastAt # None /\ (at < lastAt \/ at - lastAt > Gap)

Begun(at) == IF Interrupted(at) THEN Fresh ELSE sequence
Counted(at) == IF Interrupted(at) THEN 0 ELSE sampled

Due(at) == Begun(at).sampledAt # None => at - Begun(at).sampledAt >= Interval

\* A frame between two samples changes nothing but the time.
Skip(at) ==
    /\ ~Due(at)
    /\ sequence' = Begun(at)
    /\ sampled' = Counted(at)
    /\ stretch' = Continued(at, stretch, 0)
    /\ handAt' = Continued(at, handAt, None)
    /\ NoDetection

Reject(shot, at) ==
    /\ Due(at) /\ ~Usable(shot)
    /\ sequence' = Fresh
    /\ sampled' = 0
    /\ Forget
    /\ NoDetection

Inference(n) == (n - MinWindow) % Stride = 0

\* Too short a window.
Collect(s, n, shot, at) ==
    /\ Len(s.window) < MinWindow
    /\ sequence' = s
    /\ sampled' = n
    /\ Observe(shot, at)
    /\ NoDetection

\* Mutant of Warm: a prefix counts.
Warm_Never(s, r) == FALSE

Warm(s, r) == Len(s.window) < History /\ ~Strong(r)

Infer(s, n, shot, at) ==
    /\ Len(s.window) >= MinWindow
    /\ Inference(n)
    /\ LET r == Classify(s.window)
           t == [s EXCEPT !.last = r]
       IN \/ /\ Warm(s, r)
             /\ sequence' = [t EXCEPT !.pending = NotPending]
             /\ sampled' = n
             /\ Observe(shot, at)
             /\ NoDetection
          \/ ~Warm(s, r) /\ Confirm(t, n, r, shot, at)

\* Between two inferences only a near-exact match counts, and only after a
\* promising result.
Promising(s) ==
    MinWindow < Window /\ s.last # None /\ s.last.motion # None /\ s.last.sure

Refine(s, n, shot, at) ==
    /\ Len(s.window) >= MinWindow
    /\ ~Inference(n)
    /\ LET r == IF Promising(s) THEN Classify(s.window) ELSE Unknown
       IN \/ /\ ~r.near
             /\ sequence' = s
             /\ sampled' = n
             /\ Observe(shot, at)
             /\ NoDetection
          \/ r.near /\ (HoldsOff([s EXCEPT !.last = r], n, r) \/ Detects([s EXCEPT !.last = r], r))

Sample(shot, at) ==
    /\ Due(at) /\ Usable(shot)
    /\ LET s == Taken(Begun(at), shot, at)
           n == (Counted(at) + 1) % Stride
       IN Collect(s, n, shot, at) \/ Infer(s, n, shot, at) \/ Refine(s, n, shot, at)

Frame(shot, at) ==
    /\ lastAt' = at
    /\ Skip(at) \/ Reject(shot, at) \/ Sample(shot, at)

Next == \E shot \in Shots, at \in Times : Frame(shot, at)

Spec == Init /\ [][Next]_vars

-----------------------------------------------------------------------------
(* Properties *)

EngineTypeOK ==
    /\ lastAt \in Optional(Times)
    /\ sampled \in 0 .. Stride - 1
    /\ LET s == sequence
       IN /\ Len(s.window) <= History /\ s.window \in Seq(Frames)
          /\ s.pending.motion = None <=> s.pending.count = 0
          /\ s.pending.count < Confirmations
          /\ s.window = <<>> => s = Fresh
          /\ s.window # <<>> => s.sampledAt \in Times /\ s.smooth \in Points
    /\ emitted \in [Motions -> Optional(Times)]
    /\ detected = None \/ detected.motion \in Motions

\* What a window is compared by was seen in one stretch: no capture gap, no frame
\* without shoulders and no detection lies in it, and a filled hand was seen in
\* that stretch and not long ago (temporal_engine.py:150-151, 293-297,
\* temporal.py:288-292).
EvidenceIsOneStretch ==
    LET window == sequence.window
    IN /\ Len(window) = Least(stretch, History)
       /\ window # <<>> /\ Observed(window[Len(window)].point.hand) > window[Len(window)].weight.hand =>
             handAt # None /\ sequence.sampledAt - handAt \in 0 .. FillTime

\* A motion is detected from a whole window, confirmed as often as configured,
\* or from a near-exact match: never from a prefix (temporal_engine.py:33-36).
DetectionIsConfirmed ==
    detected # None => detected.after = Enough \/ (detected.near /\ MinWindow < Window)

\* The caller is told of two detections of one motion only a cooldown apart, whatever
\* capture gaps, lost persons, other motions and clocks that go back lie between
\* them: what clears the sequence does not clear the cooldowns
\* (temporal_engine.py:240-245, 290-298).
DetectionsSpaced ==
    [][\A m \in Motions :
          detected' # None /\ detected'.motion = m /\ heard[m] # None =>
              lastAt' - heard[m] >= Cooldown]_vars

\* The cells of the table, and the sequences of them that go from the first to the
\* last, each one step on in the rows, in the columns or in both.
Cells == (1 .. Compared) \X (1 .. Compared)

IsPath(p) ==
    /\ p[1] = <<1, 1>> /\ p[Len(p)] = <<Compared, Compared>>
    /\ \A k \in 1 .. Len(p) - 1 :
          <<p[k + 1][1] - p[k][1], p[k + 1][2] - p[k][2]>> \in {<<1, 0>>, <<0, 1>>, <<1, 1>>}

WarpingPaths == UNION {{p \in [1 .. n -> Cells] : IsPath(p)} : n \in 1 .. 2 * Compared - 1}

\* What the first cells of a path cost.
PathCosts(local, p) ==
    LET costs[k \in DOMAIN p] ==
            local[p[k][1]][p[k][2]] + IF k = 1 THEN 0 ELSE costs[k - 1]
    IN costs

\* The table ends with the cost of the best warping path and the length of one
\* (temporal.py:1192-1271).
AlignmentIsBest ==
    sequence.last # None =>
        \A t \in Templates :
            LET local == Local(Resample(sequence.window), Resample(t.frames))
                a == Alignment(local)
                cost(p) == PathCosts(local, p)[Len(p)]
            IN /\ \A p \in WarpingPaths : cost(p) >= a.cost
               /\ \E p \in WarpingPaths : cost(p) = a.cost /\ Len(p) = a.length

\* A motion whose own nearest sample lies beyond its threshold is not recognised
\* (recognition/README.md:92-94).
SelectedIsWithin == detected # None => detected.own <= Thresholds[detected.motion]
=============================================================================
