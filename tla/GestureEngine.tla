---------------------------- MODULE GestureEngine ----------------------------
(***************************************************************************)
(* The engine that feeds the frames of one camera to its rules             *)
(* (recognition/.../gestures/engine.py), with one of its rules.  Frames    *)
(* carry wall clock times: they come late when the worker was busy sending *)
(* or the camera hung, and can be older than the frame before.             *)
(*                                                                         *)
(* seen is a history variable: what an observer of the same frames knows   *)
(* about the rule's motion since its last detection.                       *)
(***************************************************************************)
EXTENDS GestureRules

CONSTANT Gap   \* reset_after_gap_seconds

ASSUME EngineConstants == Gap \in Nat \ {0}

VARIABLES
    lastAt,    \* time of the last frame
    seen

vars == <<motion, rule, detected, lastAt, seen>>

\* Nothing seen: no detection yet, no position, no pose.
Unseen == [detection |-> None, reset |-> FALSE, lowest |-> None, travel |-> 0,
           since |-> None, frames |-> 0, stableAt |-> None]

Init ==
    /\ motion \in Motions
    /\ rule = RuleInit
    /\ detected = FALSE
    /\ lastAt = None
    /\ seen = Unseen

\* Mutant: a clock that went back is not a gap.
Interrupted_Forward(f) == lastAt # None /\ f.at - lastAt > Gap

Interrupted(f) == lastAt # None /\ (f.at < lastAt \/ f.at - lastAt > Gap)

-----------------------------------------------------------------------------
(* The observer *)

\* Where the frame shows the gesture's movement, None if it does not.
Place(f) ==
    CASE motion = "raised" -> IF f.up THEN Threshold ELSE 0
      [] motion = "snap" ->
            IF f.shape = "released" THEN Threshold ELSE IF f.shape = "ready" THEN 0 ELSE None
      [] OTHER -> f.pos

Posed(f) ==
    \/ motion = "raised" /\ f.up
    \/ motion = "thumbUp" /\ f.pos # None /\ f.shape = "thumb"
    \/ motion = "thumbDown" /\ f.pos # None /\ f.shape = "thumb"

\* Movement since the last detection: the furthest a place lay beyond an
\* earlier one.
Moved(s, f) ==
    LET p == Place(f)
        lowest == IF s.lowest = None THEN p ELSE Lower(s.lowest, p)
    IN IF p = None THEN s
       ELSE [s EXCEPT !.lowest = lowest, !.travel = Higher(@, p - lowest)]

\* How long and for how many frames in a row the pose is held.
Held(s, f) ==
    LET frames == Longer(s.frames)
    IN IF ~Posed(f) THEN [s EXCEPT !.since = None, !.frames = 0]
       ELSE [s EXCEPT !.since = IF @ = None THEN f.at ELSE @, !.frames = frames,
                      !.stableAt = IF frames = MinFrames THEN f.at ELSE @]

\* Whether the frame follows the last one within Gap, on the observer's own clock.
Follows(f) == lastAt # None => f.at - lastAt \in 0 .. Gap

\* The observation a frame continues: a detection starts a new one, a gap ends
\* every pose.
Continued(f) ==
    LET s == IF detected
             THEN [seen EXCEPT !.detection = lastAt, !.reset = FALSE, !.lowest = None,
                               !.travel = 0]
             ELSE seen
    IN IF Follows(f) THEN s
       ELSE [s EXCEPT !.reset = TRUE, !.since = None, !.frames = 0, !.stableAt = None]

-----------------------------------------------------------------------------
Frame(f) ==
    /\ Update(IF Interrupted(f) THEN Reset(rule) ELSE rule, f)
    /\ lastAt' = f.at
    /\ seen' = Held(Moved(Continued(f), f), f)
    /\ UNCHANGED motion

Next == \E at \in Times : \E f \in Frames[motion][at] : Frame(f)

Spec == Init /\ [][Next]_vars

-----------------------------------------------------------------------------
(* Properties *)

RuleTypeOK ==
    CASE motion = "raised" ->
            rule \in [since : Optional(Times), latched : BOOLEAN, last : Optional(Times)]
      [] motion = "swipe" ->
            rule \in [start : Optional(Positions), from : Optional(Times),
                      latched : BOOLEAN, peak : Positions]
      [] motion = "snap" ->
            rule \in [armed : Optional(Times), latched : BOOLEAN, last : Optional(Times)]
      [] motion = "thumbUp" ->
            rule \in [base : Optional(Positions), run : 0 .. MinFrames, latched : BOOLEAN,
                      peak : Positions, last : Optional(Times)]
      [] motion = "thumbDown" ->
            rule \in [base : Optional(Positions), gate : Optional(Positions),
                      seen : Optional(Times), run : 0 .. MinFrames, latched : BOOLEAN,
                      last : Optional(Times)]
      [] motion = "clap" ->
            rule \in [armed : BOOLEAN, latched : BOOLEAN, previous : Optional(Positions)]
      [] motion = "fist" -> rule \in [start : Optional(Positions), latched : BOOLEAN]
      [] OTHER ->
            rule \in [base : Optional(Positions), latched : BOOLEAN,
                      hand : Optional(Times), last : Optional(Times),
                      from : Optional(Times), pending : BOOLEAN]

\* A latch never outlives what the rule measures its release by: the baseline of
\* a swipe or thumb, the gate of a thumb held down (rules.py:1538), the angle and
\* the last sight of a rotating hand, and a latched rotation has no candidate.
EngineTypeOK ==
    /\ motion \in Motions
    /\ RuleTypeOK
    /\ detected \in BOOLEAN
    /\ lastAt \in Optional(Times)
    /\ rule.latched =>
         CASE motion = "swipe" -> rule.start # None
           [] motion = "thumbUp" -> rule.base # None
           [] motion = "thumbDown" -> rule.gate # None
           [] motion \in {"rotate", "rotateConfirmed"} ->
                 rule.base # None /\ rule.hand # None /\ ~rule.pending
           [] OTHER -> TRUE

Guard ==
    CASE motion \in {"raised", "thumbUp", "thumbDown"} -> Cooldown
      [] motion \in {"rotate", "rotateConfirmed"} -> RotateCooldown
      [] motion = "snap" -> SnapGuard
      [] OTHER -> 0

\* Two detections of a raised hand, a thumb or a rotation are a cooldown apart,
\* across capture gaps and clocks that go back; two snaps are as long as no gap
\* made the rule start over (recognition/README.md:121, 139, 151).
DuplicateGuard ==
    /\ detected /\ seen.detection # None
    /\ Guard > 0 /\ ~(motion = "snap" /\ seen.reset)
    =>
        lastAt - seen.detection >= Guard

\* One movement is one detection: since the detection before, the gesture's
\* whole movement was seen again, be it across capture gaps.  A hand that stays
\* raised is detected once as long as its frames follow without a gap; what it
\* does at a gap is HeldPoseFiresOnce (recognition/README.md:151).
OneMovementOneDetection ==
    /\ detected /\ motion # "raised" => seen.travel >= Threshold
    /\ detected /\ motion = "raised" /\ seen.detection # None /\ ~seen.reset =>
          seen.travel >= Threshold

\* A hand that stays raised is not detected a second time before a frame shows it
\* otherwise (docs/mvp-specification.md:119, recognition/README.md:151).  It is: a
\* capture gap resets the rules (engine.py:33), and the latch with them.
HeldPoseFiresOnce ==
    detected /\ motion = "raised" /\ seen.detection # None => seen.travel >= Threshold

\* A static pose counts only if it was held: in every frame of a stretch without
\* gaps, for as long, or for as many frames, as the rule asks
\* (docs/mvp-specification.md:116).
PoseIsSteady ==
    detected =>
        /\ motion = "raised" => seen.since # None /\ lastAt - seen.since >= Hold
        /\ motion = "thumbUp" => seen.frames = MinFrames
        /\ motion = "thumbDown" =>
              seen.stableAt # None /\ lastAt - seen.stableAt \in 0 .. GateTime
=============================================================================
