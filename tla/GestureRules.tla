---------------------------- MODULE GestureRules ----------------------------
(***************************************************************************)
(* The fixed gesture rules of a recognition worker                         *)
(* (recognition/src/gesture_recognition/gestures/rules.py).  Rules share   *)
(* nothing but the frames, so the module follows one rule, of the kind     *)
(* motion: left and right hand are the same rule, and of the two palm      *)
(* rotations the right one confirms a candidate with a second frame.       *)
(*                                                                         *)
(* A frame carries what its rule reads: the position of the wrist, palm or *)
(* both wrists on the axis of the gesture, counted in its direction, the   *)
(* shape the hand makes, and whether the frame satisfies the geometric     *)
(* conditions that only hold a gesture back (good).  The geometry behind   *)
(* these is abstracted, and so is the confidence of a detection.           *)
(***************************************************************************)
EXTENDS Integers

CONSTANTS
    None,
    MaxTime,      \* bound: time stamps of frames
    Reach,        \* bound: positions are 0 .. Reach
    Threshold,    \* movement that makes a gesture
    Margin,       \* movement back that ends one
    MinFrames,    \* frames in a row a thumb pose has to be seen in
    Hold,         \* hold_seconds of a raised hand
    Cooldown,     \* cooldown_seconds of raised hands and thumbs
    SwipeTime,    \* maximum_event_elapsed_seconds of a swipe
    SnapTime,     \* maximum_transition_seconds of a snap
    SnapGuard,    \* minimum_detection_interval_seconds of a snap
    GateTime,     \* pose_gate_seconds of thumbs down
    RotateMin, RotateMax, RotateCooldown,
    Missing       \* maximum_missing_seconds of a rotating hand

ASSUME RuleConstants ==
    /\ {MaxTime, Reach, Threshold, Margin, MinFrames, Hold, Cooldown, SwipeTime,
        SnapTime, SnapGuard, GateTime, RotateMin, RotateMax, RotateCooldown,
        Missing} \subseteq Nat
    /\ 0 < Margin /\ Margin < Threshold /\ 0 < MinFrames
    /\ None \notin Int

VARIABLES
    motion,    \* kind of the rule
    rule,      \* its state
    detected   \* the frame just handled gave a detection

Motions == {"raised", "swipe", "snap", "thumbUp", "thumbDown", "clap", "fist",
            "rotate", "rotateConfirmed"}

Times == 0 .. MaxTime
Positions == 0 .. Reach
Optional(S) == S \cup {None}

Higher(m, n) == IF m > n THEN m ELSE n
Lower(m, n) == IF m < n THEN m ELSE n

-----------------------------------------------------------------------------
(* Frames *)

FramesOf(m, at) ==
    CASE m = "raised" -> [at : {at}, up : BOOLEAN]
      [] m = "snap" ->
            [at : {at}, shape : {"none", "ready", "released", "other"}, good : BOOLEAN]
      [] m \in {"swipe", "clap"} ->
            [at : {at}, pos : Optional(Positions), good : BOOLEAN]
      [] m = "thumbUp" ->
            [at : {at}, pos : Optional(Positions), good : BOOLEAN,
             shape : {"thumb", "palm", "other"}]
      [] m = "thumbDown" ->
            [at : {at}, pos : Optional(Positions), good : BOOLEAN,
             shape : {"thumb", "thumbUp", "palm", "other", "otherSwipes"}]
      [] m = "fist" ->
            [at : {at}, pos : Optional(Positions), good : BOOLEAN,
             shape : SUBSET {"open", "fist"}]
      [] OTHER ->
            [at : {at}, pos : Optional(Positions), good : BOOLEAN, hand : BOOLEAN,
             agrees : BOOLEAN, switched : BOOLEAN]

\* One frame stands for all that differ in what no rule reads: the rest of a
\* frame without a position, conditions the shape makes irrelevant.
Plain(m, f) ==
    /\ f.good
    /\ m \in {"thumbUp", "thumbDown"} => f.shape = "other"
    /\ m = "fist" => f.shape = {}
    /\ m \in {"rotate", "rotateConfirmed"} => f.agrees /\ ~f.switched

Frames == [m \in Motions |-> [at \in Times |->
    {f \in FramesOf(m, at) :
        CASE m = "raised" -> TRUE
          [] m = "snap" -> f.shape # "released" => f.good
          [] OTHER ->
                /\ f.pos = None => Plain(m, f)
                /\ m = "thumbDown" /\ f.shape # "thumb" => f.good
                /\ m = "rotate" => ~f.switched
                /\ m \in {"rotate", "rotateConfirmed"} /\ ~f.hand => f.pos = None}]]

\* Less than d passed since time t; also when the clock went back behind t.
Recent(f, t, d) == t # None /\ f.at - t < d
Stale(f, t, d) == t # None /\ f.at - t > d

Keep(s) == rule' = s /\ detected' = FALSE
Emit(s) == rule' = s /\ detected' = TRUE

-----------------------------------------------------------------------------
(* A hand held above the shoulder *)

RaisedInit == [since |-> None, latched |-> FALSE, last |-> None]

\* Mutant: the cooldown is forgotten too.
RaisedReset_ForgetsLast(s) == RaisedInit

RaisedReset(s) == [RaisedInit EXCEPT !.last = s.last]

Raised(s, f) ==
    \/ ~f.up /\ Keep(RaisedReset(s))
    \/ f.up /\ s.latched /\ Keep(s)
    \/ /\ f.up /\ ~s.latched
       /\ \/ s.since = None /\ Keep([s EXCEPT !.since = f.at])
          \/ /\ s.since # None
             /\ Recent(f, s.since, Hold) \/ Recent(f, s.last, Cooldown)
             /\ Keep(s)
          \/ /\ s.since # None
             /\ ~Recent(f, s.since, Hold) /\ ~Recent(f, s.last, Cooldown)
             /\ Emit([s EXCEPT !.latched = TRUE, !.last = f.at])

-----------------------------------------------------------------------------
(* A wrist that moves sideways from the chest *)

SwipeInit == [start |-> None, from |-> None, latched |-> FALSE, peak |-> 0]

\* The frame becomes the baseline if its wrist is at the chest (good).
Baseline(f) ==
    IF f.good THEN [SwipeInit EXCEPT !.start = f.pos, !.from = f.at] ELSE SwipeInit

\* Latched until the wrist comes back by Margin from its farthest.
SwipeLatched(s, f) ==
    LET movement == f.pos - s.start
        peak == Higher(s.peak, movement)
    IN IF movement <= peak - Margin
       THEN Keep(Baseline(f))
       ELSE Keep([s EXCEPT !.peak = peak])

\* Mutant: the rule does not latch.
SwipeOpen_NoLatch(s, f) ==
    LET movement == f.pos - s.start
    IN \/ movement < 0 /\ Keep([s EXCEPT !.start = f.pos, !.from = f.at])
       \/ /\ 0 <= movement
          /\ movement < Threshold \/ Stale(f, s.from, SwipeTime)
          /\ Keep(s)
       \/ /\ movement >= Threshold /\ ~Stale(f, s.from, SwipeTime)
          /\ Emit(s)

\* A wrist that moves back behind the baseline starts over from where it is.
\* A movement that took too long stays where it is, neither fired nor latched.
SwipeOpen(s, f) ==
    LET movement == f.pos - s.start
    IN \/ movement < 0 /\ Keep([s EXCEPT !.start = f.pos, !.from = f.at])
       \/ /\ 0 <= movement
          /\ movement < Threshold \/ Stale(f, s.from, SwipeTime)
          /\ Keep(s)
       \/ /\ movement >= Threshold /\ ~Stale(f, s.from, SwipeTime)
          /\ Emit([s EXCEPT !.latched = TRUE, !.peak = movement])

Swipe(s, f) ==
    \/ f.pos = None /\ Keep(s)
    \/ f.pos # None /\ s.start = None /\ Keep(Baseline(f))
    \/ f.pos # None /\ s.start # None /\ s.latched /\ SwipeLatched(s, f)
    \/ f.pos # None /\ s.start # None /\ ~s.latched /\ SwipeOpen(s, f)

-----------------------------------------------------------------------------
(* A finger snap: curled fingers, then a released index finger *)

SnapInit == [armed |-> None, latched |-> FALSE, last |-> None]

Disarmed(s) == [s EXCEPT !.armed = None]

\* good: the wrist moved far enough since the preparation.
SnapReleased(s, f) ==
    LET tooLate == f.at < s.armed \/ Stale(f, s.armed, SnapTime)
    IN \/ (tooLate \/ ~f.good) /\ Keep(Disarmed(s))
       \/ /\ ~tooLate /\ f.good /\ Recent(f, s.last, SnapGuard)
          /\ Keep([Disarmed(s) EXCEPT !.latched = TRUE])
       \/ /\ ~tooLate /\ f.good /\ ~Recent(f, s.last, SnapGuard)
          /\ Emit([armed |-> None, latched |-> TRUE, last |-> f.at])

Snap(s, f) ==
    \/ f.shape = "none" /\ Keep(s)
    \/ /\ s.latched /\ f.shape # "none"
       /\ IF f.shape = "released" THEN Keep(s)
          ELSE Keep([s EXCEPT !.latched = FALSE,
                              !.armed = IF f.shape = "ready" THEN f.at ELSE None])
    \/ /\ ~s.latched /\ f.shape = "ready"
       /\ Keep([s EXCEPT !.armed = IF @ = None THEN f.at ELSE @])
    \/ ~s.latched /\ s.armed # None /\ f.shape = "released" /\ SnapReleased(s, f)
    \/ /\ ~s.latched
       /\ f.shape = "other" \/ (f.shape = "released" /\ s.armed = None)
       /\ Keep(s)

-----------------------------------------------------------------------------
(* A thumb held up that moves up *)

ThumbUpInit == [base |-> None, run |-> 0, latched |-> FALSE, peak |-> 0, last |-> None]
ThumbUpReset(s) == [ThumbUpInit EXCEPT !.last = s.last]

\* The run of pose frames is counted up to MinFrames.
Longer(run) == Lower(run + 1, MinFrames)

\* Latched until an open palm, or the same thumb back by Margin.
ThumbUpLatched(s, f) ==
    LET movement == f.pos - s.base
        peak == Higher(s.peak, movement)
    IN \/ f.shape = "palm" /\ Keep(ThumbUpReset(s))
       \/ f.shape = "other" /\ Keep([s EXCEPT !.peak = peak])
       \/ /\ f.shape = "thumb"
          /\ IF movement <= peak - Margin
             THEN Keep([s EXCEPT !.base = f.pos, !.run = Longer(0), !.latched = FALSE,
                                 !.peak = 0])
             ELSE Keep([s EXCEPT !.peak = peak])

\* good: the wrist is still below the region of a raised hand.
ThumbUpOpen(s, f) ==
    LET movement == f.pos - s.base
        fires == movement >= Threshold /\ f.good /\ s.run + 1 >= MinFrames
    IN \/ f.shape # "thumb" /\ Keep([s EXCEPT !.run = 0])
       \/ f.shape = "thumb" /\ ~fires /\ Keep([s EXCEPT !.run = Longer(@)])
       \/ /\ f.shape = "thumb" /\ fires /\ Recent(f, s.last, Cooldown)
          /\ Keep([s EXCEPT !.run = Longer(@), !.latched = TRUE, !.peak = movement])
       \/ /\ f.shape = "thumb" /\ fires /\ ~Recent(f, s.last, Cooldown)
          /\ Emit([s EXCEPT !.run = Longer(@), !.latched = TRUE, !.peak = movement,
                            !.last = f.at])

\* The lowest position seen is the baseline.
Based(s, f) == [s EXCEPT !.base = IF @ = None THEN f.pos ELSE Lower(@, f.pos)]

ThumbUp(s, f) ==
    \/ f.pos = None /\ Keep(ThumbUpReset(s))
    \/ f.pos # None /\ s.latched /\ ThumbUpLatched(Based(s, f), f)
    \/ f.pos # None /\ ~s.latched /\ ThumbUpOpen(Based(s, f), f)

-----------------------------------------------------------------------------
(* A thumb held down, then a wrist that moves down *)

ThumbDownInit == [base |-> None, gate |-> None, seen |-> None, run |-> 0,
                  latched |-> FALSE, last |-> None]
ThumbDownReset(s) == [ThumbDownInit EXCEPT !.last = s.last]

\* Enough pose frames in a row open the gate, any other frame ends the run.
Gated(s, f) ==
    IF f.shape # "thumb" THEN [s EXCEPT !.run = 0]
    ELSE LET run == Longer(s.run)
         IN IF run < MinFrames THEN [s EXCEPT !.run = run]
            ELSE [s EXCEPT !.run = run, !.seen = f.at, !.gate = s.base]

\* good: the wrist has not fallen below the chest; asked of a pose frame only.
ThumbDownFires(s, f) ==
    LET held == (f.shape = "thumb" /\ ~f.good) \/ Recent(f, s.last, Cooldown)
    IN \/ held /\ Keep([s EXCEPT !.latched = TRUE])
       \/ ~held /\ Emit([s EXCEPT !.latched = TRUE, !.last = f.at])

\* Mutant: a gate is used up by the movement it let through.
ThumbDownOpen_UsesGateUp(s, f) ==
    LET expired == f.at < s.seen \/ Stale(f, s.seen, GateTime)
    IN \/ s.gate = None /\ Keep(s)
       \/ s.gate # None /\ expired /\ Keep([s EXCEPT !.gate = None, !.seen = None])
       \/ /\ s.gate # None /\ ~expired
          /\ IF f.pos - s.gate < Threshold THEN Keep(s)
             ELSE ThumbDownFires([s EXCEPT !.gate = None, !.seen = None], f)

ThumbDownOpen(s, f) ==
    LET expired == f.at < s.seen \/ Stale(f, s.seen, GateTime)
    IN \/ s.gate = None /\ Keep(s)
       \/ s.gate # None /\ expired /\ Keep([s EXCEPT !.gate = None, !.seen = None])
       \/ /\ s.gate # None /\ ~expired
          /\ IF f.pos - s.gate < Threshold THEN Keep(s) ELSE ThumbDownFires(s, f)

\* Once latched only an open palm ends the gesture.  The first branch is the
\* defensive one of the code: EngineTypeOK says that it is never taken.
ThumbDownLatched(s, f) ==
    \/ s.gate = None /\ Keep([s EXCEPT !.latched = FALSE])
    \/ s.gate # None /\ Keep(IF f.shape = "palm" THEN ThumbDownReset(s) ELSE s)

\* A swipe of the other hand, a lost wrist or a thumb held up start over.
ThumbDown(s, f) ==
    LET startsOver == f.pos = None \/ f.shape \in {"thumbUp", "otherSwipes"}
    IN \/ startsOver /\ Keep(ThumbDownReset(s))
       \/ ~startsOver /\ s.latched /\ ThumbDownLatched(Based(s, f), f)
       \/ ~startsOver /\ ~s.latched /\ ThumbDownOpen(Gated(Based(s, f), f), f)

-----------------------------------------------------------------------------
(* Both wrists from apart to contact *)

ClapInit == [armed |-> FALSE, latched |-> FALSE, previous |-> None]

\* Position 0 is apart, Threshold and beyond is contact; good: both wrists meet
\* at the centre of the shoulders.
Clap(s, f) ==
    LET t == [s EXCEPT !.previous = f.pos]
        contact == /\ s.armed /\ ~s.latched
                   /\ f.pos >= Threshold /\ f.good
                   /\ s.previous # None /\ f.pos - s.previous >= Margin
    IN \/ f.pos = None /\ Keep(s)
       \/ f.pos = 0 /\ Keep([t EXCEPT !.armed = TRUE, !.latched = FALSE])
       \/ f.pos \in Positions \ {0} /\ ~contact /\ Keep(t)
       \/ f.pos \in Positions \ {0} /\ contact /\ Emit([t EXCEPT !.latched = TRUE])

-----------------------------------------------------------------------------
(* An open hand that becomes a fist while it goes down *)

FistInit == [start |-> None, latched |-> FALSE]

\* A half closed hand passes for both; good: not below the chest.
Fist(s, f) ==
    LET fires == f.pos - s.start >= Threshold /\ f.good
        open == "open" \in f.shape
        fist == "fist" \in f.shape
    IN \/ f.pos = None /\ Keep(s)
       \/ f.pos # None /\ s.latched /\ Keep(IF fist THEN s ELSE FistInit)
       \/ f.pos # None /\ ~s.latched /\ open /\ Keep([s EXCEPT !.start = f.pos])
       \/ /\ f.pos # None /\ ~s.latched /\ ~open
          /\ \/ (s.start = None \/ ~fist) /\ Keep(s)
             \/ /\ s.start # None /\ fist
                /\ IF fires THEN Emit([s EXCEPT !.latched = TRUE]) ELSE Keep(s)

-----------------------------------------------------------------------------
(* A palm that rotates *)

RotateInit == [base |-> None, latched |-> FALSE, hand |-> None, last |-> None,
               from |-> None, pending |-> FALSE]
RotateReset(s) == [RotateInit EXCEPT !.last = s.last]

Settled(s) == [s EXCEPT !.pending = FALSE, !.latched = TRUE]
Confirmed(s, f) == Emit([Settled(s) EXCEPT !.last = f.at])

\* A candidate is emitted even if the hand is lost for a moment.
RotateUnseen(s, f) ==
    \/ Stale(f, s.hand, Missing) /\ Keep(RotateReset(s))
    \/ ~Stale(f, s.hand, Missing) /\ s.pending /\ Confirmed(s, f)
    \/ ~Stale(f, s.hand, Missing) /\ ~s.pending /\ Keep(s)

\* The second frame drops a candidate that turned back, or whose hand changed
\* its label (switched) while it turned on.
RotateConfirms(s, f, turned) ==
    IF turned < 0 \/ ~f.agrees \/ (f.switched /\ turned >= Threshold)
    THEN Keep(Settled(s)) ELSE Confirmed(s, f)

RotateLatched(s, f, turned) ==
    IF turned \in -Margin .. Margin
    THEN Keep([s EXCEPT !.base = f.pos, !.from = f.at, !.latched = FALSE])
    ELSE Keep(s)

\* agrees: the second palm axis turned with the first; good: path, angles and
\* displacement are in the recorded envelope.
RotateOpen(s, f, turned) ==
    LET tooLate == Stale(f, s.from, RotateMax)
        refused == tooLate \/ ~f.good \/ Recent(f, s.last, RotateCooldown)
        waits == turned < Threshold \/ ~f.agrees \/ Recent(f, s.from, RotateMin)
    IN \/ waits /\ Keep(s)
       \/ ~waits /\ refused /\ Keep(Settled(s))
       \/ /\ ~waits /\ ~refused
          /\ IF motion = "rotateConfirmed" THEN Keep([s EXCEPT !.pending = TRUE])
             ELSE Confirmed(s, f)

RotateTurned(s, f) ==
    LET turned == f.pos - s.base
    IN \/ s.base = None /\ Keep([s EXCEPT !.base = f.pos, !.from = f.at])
       \/ s.base # None /\ s.pending /\ RotateConfirms(s, f, turned)
       \/ s.base # None /\ ~s.pending /\ s.latched /\ RotateLatched(s, f, turned)
       \/ s.base # None /\ ~s.pending /\ ~s.latched /\ RotateOpen(s, f, turned)

\* A hand whose palm axes cannot be told (no position) is as good as unseen,
\* except that a long absence has been noticed.
Rotate(s, f) ==
    LET t == IF Stale(f, s.hand, Missing) THEN RotateReset(s) ELSE s
    IN \/ ~f.hand /\ RotateUnseen(s, f)
       \/ f.hand /\ f.pos = None /\ Keep(t)
       \/ f.hand /\ f.pos # None /\ RotateTurned([t EXCEPT !.hand = f.at], f)

-----------------------------------------------------------------------------
(* Any rule *)

RuleInit ==
    CASE motion = "raised" -> RaisedInit
      [] motion = "swipe" -> SwipeInit
      [] motion = "snap" -> SnapInit
      [] motion = "thumbUp" -> ThumbUpInit
      [] motion = "thumbDown" -> ThumbDownInit
      [] motion = "clap" -> ClapInit
      [] motion = "fist" -> FistInit
      [] OTHER -> RotateInit

\* Raised hands, thumbs and rotations keep the time of their last detection.
Reset(s) ==
    IF motion \in {"swipe", "snap", "clap", "fist"} THEN RuleInit
    ELSE [RuleInit EXCEPT !.last = s.last]

Update(s, f) ==
    \/ motion = "raised" /\ Raised(s, f)
    \/ motion = "swipe" /\ Swipe(s, f)
    \/ motion = "snap" /\ Snap(s, f)
    \/ motion = "thumbUp" /\ ThumbUp(s, f)
    \/ motion = "thumbDown" /\ ThumbDown(s, f)
    \/ motion = "clap" /\ Clap(s, f)
    \/ motion = "fist" /\ Fist(s, f)
    \/ motion \in {"rotate", "rotateConfirmed"} /\ Rotate(s, f)
=============================================================================
