------------------------- MODULE GestureEngineProofs -------------------------
(* The detections of GestureEngine, for every kind of rule, any thresholds,  *)
(* times and gap, and any sequence of frames.                                *)
(*                                                                           *)
(* The invariant relates a rule to the observer: what the rule measures a    *)
(* movement by was seen by the observer since the last detection, and what   *)
(* it remembers of the last detection is what the observer remembers.        *)
EXTENDS GestureEngine, TLAPS

Observations ==
    [detection : Optional(Times), reset : BOOLEAN, lowest : Optional(Nat), travel : Nat,
     since : Optional(Times), frames : 0 .. MinFrames, stableAt : Optional(Times)]

\* What the observer goes on from at time t: a detection starts a new observation.
After(s, d, t) ==
    IF d THEN [s EXCEPT !.detection = t, !.reset = FALSE, !.lowest = None, !.travel = 0]
    ELSE s

\* After a gap every pose starts anew.
Broken(s) == [s EXCEPT !.reset = TRUE, !.since = None, !.frames = 0, !.stableAt = None]

\* The observer saw a place as low as p.
Covers(s, p) == p # None => s.lowest # None /\ s.lowest <= p

-----------------------------------------------------------------------------
(* What a rule in state r and an observer in state s agree on at time t *)

RaisedAgrees(r, s) ==
    /\ r.last = s.detection
    /\ r.since = s.since
    /\ r.latched => r.since # None
    /\ s.detection = None \/ s.reset \/ r.latched \/ s.lowest = 0

SwipeAgrees(r, s) ==
    /\ r.latched => r.start # None
    /\ ~r.latched => Covers(s, r.start)

SnapAgrees(r, s) ==
    /\ ~s.reset => r.last = s.detection
    /\ r.armed # None => s.lowest = 0

ThumbUpAgrees(r, s) ==
    /\ r.last = s.detection
    /\ r.latched => r.base # None
    /\ ~r.latched => Covers(s, r.base) /\ r.run <= s.frames

ThumbDownAgrees(r, s, t) ==
    /\ r.last = s.detection
    /\ r.latched => r.gate # None
    /\ ~r.latched => /\ Covers(s, r.base) /\ Covers(s, r.gate)
                     /\ r.run <= s.frames
                     /\ r.gate # None => /\ r.seen # None /\ s.stableAt # None
                                         /\ r.seen <= s.stableAt /\ s.stableAt <= t

ClapAgrees(r, s) == r.armed /\ ~r.latched => s.lowest = 0

FistAgrees(r, s) == ~r.latched => Covers(s, r.start)

RotateAgrees(r, s, t) ==
    /\ r.last = s.detection
    /\ r.latched => r.base # None /\ r.hand # None /\ ~r.pending
    /\ ~r.latched => Covers(s, r.base)
    /\ r.pending => /\ r.base # None /\ r.hand # None
                    /\ s.travel >= Threshold
                    /\ r.last # None => t - r.last >= RotateCooldown

Agrees(r, s, t) ==
    CASE motion = "raised" -> RaisedAgrees(r, s)
      [] motion = "swipe" -> SwipeAgrees(r, s)
      [] motion = "snap" -> SnapAgrees(r, s)
      [] motion = "thumbUp" -> ThumbUpAgrees(r, s)
      [] motion = "thumbDown" -> ThumbDownAgrees(r, s, t)
      [] motion = "clap" -> ClapAgrees(r, s)
      [] motion = "fist" -> FistAgrees(r, s)
      [] OTHER -> RotateAgrees(r, s, t)

RaisedRules == [since : Optional(Times), latched : BOOLEAN, last : Optional(Times)]
SwipeRules == [start : Optional(Positions), from : Optional(Times), latched : BOOLEAN,
               peak : Positions]
SnapRules == [armed : Optional(Times), latched : BOOLEAN, last : Optional(Times)]
ThumbUpRules == [base : Optional(Positions), run : 0 .. MinFrames, latched : BOOLEAN,
                 peak : Positions, last : Optional(Times)]
ThumbDownRules == [base : Optional(Positions), gate : Optional(Positions),
                   seen : Optional(Times), run : 0 .. MinFrames, latched : BOOLEAN,
                   last : Optional(Times)]
ClapRules == [armed : BOOLEAN, latched : BOOLEAN, previous : Optional(Positions)]
FistRules == [start : Optional(Positions), latched : BOOLEAN]
RotateRules == [base : Optional(Positions), latched : BOOLEAN, hand : Optional(Times),
                last : Optional(Times), from : Optional(Times), pending : BOOLEAN]

RulesOf ==
    CASE motion = "raised" -> RaisedRules
      [] motion = "swipe" -> SwipeRules
      [] motion = "snap" -> SnapRules
      [] motion = "thumbUp" -> ThumbUpRules
      [] motion = "thumbDown" -> ThumbDownRules
      [] motion = "clap" -> ClapRules
      [] motion = "fist" -> FistRules
      [] OTHER -> RotateRules

EngineInv ==
    /\ motion \in Motions
    /\ rule \in RulesOf
    /\ detected \in BOOLEAN
    /\ lastAt \in Optional(Times)
    /\ seen \in Observations
    /\ lastAt = None => rule = RuleInit /\ seen = Unseen /\ ~detected
    /\ Agrees(rule, After(seen, detected, lastAt), lastAt)

-----------------------------------------------------------------------------
(* The observer *)

\* What the observer knows after a frame.
Observes(c, f, s) ==
    /\ s \in Observations
    /\ s.detection = c.detection /\ s.reset = c.reset
    /\ Place(f) = None => s.lowest = c.lowest /\ s.travel = c.travel
    /\ Place(f) # None => /\ s.lowest \in Nat /\ s.lowest <= Place(f)
                          /\ c.lowest # None => s.lowest <= c.lowest
                          /\ s.travel >= c.travel /\ s.travel >= Place(f) - s.lowest
    /\ Posed(f) => /\ s.since = IF c.since = None THEN f.at ELSE c.since
                   /\ s.frames = Longer(c.frames)
                   /\ s.stableAt = IF s.frames = MinFrames THEN f.at ELSE c.stableAt
    /\ ~Posed(f) => s.since = None /\ s.frames = 0 /\ s.stableAt = c.stableAt

LEMMA Bounds ==
    /\ None \notin Int
    /\ MaxTime \in Nat /\ Reach \in Nat /\ Threshold \in Nat /\ Margin \in Nat
    /\ MinFrames \in Nat /\ Hold \in Nat /\ Cooldown \in Nat /\ SwipeTime \in Nat
    /\ SnapTime \in Nat /\ SnapGuard \in Nat /\ GateTime \in Nat /\ RotateMin \in Nat
    /\ RotateMax \in Nat /\ RotateCooldown \in Nat /\ Missing \in Nat
    /\ Gap \in Nat /\ 0 < Margin /\ Margin < Threshold /\ 0 < MinFrames
    /\ Times \subseteq Nat /\ Positions \subseteq Nat
  BY RuleConstants, EngineConstants DEF Times, Positions

LEMMA NoneApart ==
    /\ \A t \in Times : t # None /\ t \in Nat
    /\ \A p \in Positions : p # None /\ p \in Nat
    /\ None # 0 /\ None \notin Nat
<1>1. None \notin Nat
  BY Bounds
<1>. QED  BY <1>1, Bounds DEF Times, Positions

LEMMA MovedObserves ==
    ASSUME NEW c \in Observations, NEW f, Place(f) \in Optional(Nat)
    PROVE  LET m == Moved(c, f)
           IN /\ m \in Observations
              /\ m.detection = c.detection /\ m.reset = c.reset
              /\ m.since = c.since /\ m.frames = c.frames /\ m.stableAt = c.stableAt
              /\ Place(f) = None => m.lowest = c.lowest /\ m.travel = c.travel
              /\ Place(f) # None => /\ m.lowest \in Nat /\ m.lowest <= Place(f)
                                    /\ c.lowest # None => m.lowest <= c.lowest
                                    /\ m.travel >= c.travel
                                    /\ m.travel >= Place(f) - m.lowest
<1>. DEFINE p == Place(f)
            lowest == IF c.lowest = None THEN p ELSE Lower(c.lowest, p)
            travel == Higher(c.travel, p - lowest)
<1>1. CASE p = None
  BY <1>1 DEF Moved
<1>2. CASE p # None
  <2>1. /\ lowest \in Nat /\ lowest <= p
        /\ c.lowest # None => lowest <= c.lowest
        /\ travel \in Nat /\ travel >= c.travel /\ travel >= p - lowest
    BY <1>2, Bounds DEF Observations, Optional, Lower, Higher
  <2>2. Moved(c, f) = [c EXCEPT !.lowest = lowest, !.travel = travel]
    BY <1>2 DEF Moved
  <2>. HIDE DEF lowest, travel
  <2>3. /\ Moved(c, f) \in Observations
        /\ Moved(c, f).lowest = lowest /\ Moved(c, f).travel = travel
        /\ Moved(c, f).detection = c.detection /\ Moved(c, f).reset = c.reset
        /\ Moved(c, f).since = c.since /\ Moved(c, f).frames = c.frames
        /\ Moved(c, f).stableAt = c.stableAt
    <3>1. lowest \in Nat /\ travel \in Nat
      BY <2>1
    <3>2. lowest \in Optional(Nat)
      BY <3>1 DEF Optional
    <3>. QED  BY <2>2, <3>1, <3>2 DEF Observations
  <2>. DEFINE m == Moved(c, f)
  <2>. HIDE DEF m, p
  <2>4. /\ m.lowest \in Nat /\ m.lowest <= p
        /\ c.lowest # None => m.lowest <= c.lowest
        /\ m.travel >= c.travel /\ m.travel >= p - m.lowest
    BY <2>1, <2>3 DEF m
  <2>. QED  BY <1>2, <2>3, <2>4 DEF m, p
<1>. QED  BY <1>1, <1>2

LEMMA HeldObserves ==
    ASSUME NEW c \in Observations, NEW f, f.at \in Times
    PROVE  LET h == Held(c, f)
           IN /\ h \in Observations
              /\ h.detection = c.detection /\ h.reset = c.reset
              /\ h.lowest = c.lowest /\ h.travel = c.travel
              /\ Posed(f) => /\ h.since = IF c.since = None THEN f.at ELSE c.since
                             /\ h.frames = Longer(c.frames)
                             /\ h.stableAt = IF h.frames = MinFrames THEN f.at ELSE c.stableAt
              /\ ~Posed(f) => h.since = None /\ h.frames = 0 /\ h.stableAt = c.stableAt
<1>. DEFINE since == IF c.since = None THEN f.at ELSE c.since
            stableAt == IF Longer(c.frames) = MinFrames THEN f.at ELSE c.stableAt
<1>1. CASE Posed(f)
  <2>1. /\ since \in Optional(Times) /\ stableAt \in Optional(Times)
        /\ Longer(c.frames) \in 0 .. MinFrames
    BY Bounds DEF Observations, Optional, Longer, Lower
  <2>2. Held(c, f) = [c EXCEPT !.since = since, !.frames = Longer(c.frames),
                               !.stableAt = stableAt]
    BY <1>1 DEF Held
  <2>. HIDE DEF since, stableAt
  <2>3. /\ Held(c, f) \in Observations
        /\ Held(c, f).detection = c.detection /\ Held(c, f).reset = c.reset
        /\ Held(c, f).lowest = c.lowest /\ Held(c, f).travel = c.travel
        /\ Held(c, f).since = since /\ Held(c, f).frames = Longer(c.frames)
        /\ Held(c, f).stableAt = stableAt
    BY <2>1, <2>2 DEF Observations
  <2>. QED  BY <1>1, <2>3 DEF since, stableAt
<1>2. CASE ~Posed(f)
  <2>1. Held(c, f) = [c EXCEPT !.since = None, !.frames = 0]
    BY <1>2 DEF Held
  <2>2. None \in Optional(Times) /\ 0 \in 0 .. MinFrames
    BY Bounds DEF Optional
  <2>3. /\ Held(c, f) \in Observations
        /\ Held(c, f).detection = c.detection /\ Held(c, f).reset = c.reset
        /\ Held(c, f).lowest = c.lowest /\ Held(c, f).travel = c.travel
        /\ Held(c, f).since = None /\ Held(c, f).frames = 0
        /\ Held(c, f).stableAt = c.stableAt
    BY <2>1, <2>2 DEF Observations
  <2>. QED  BY <1>2, <2>3
<1>. QED  BY <1>1, <1>2

LEMMA ObserverKnows ==
    ASSUME NEW c \in Observations, NEW f, f.at \in Times, Place(f) \in Optional(Nat)
    PROVE  Observes(c, f, Held(Moved(c, f), f))
<1>. DEFINE m == Moved(c, f)
<1>1. /\ m \in Observations
      /\ m.detection = c.detection /\ m.reset = c.reset
      /\ m.since = c.since /\ m.frames = c.frames /\ m.stableAt = c.stableAt
      /\ Place(f) = None => m.lowest = c.lowest /\ m.travel = c.travel
      /\ Place(f) # None => /\ m.lowest \in Nat /\ m.lowest <= Place(f)
                            /\ c.lowest # None => m.lowest <= c.lowest
                            /\ m.travel >= c.travel
                            /\ m.travel >= Place(f) - m.lowest
  BY MovedObserves
<1>. HIDE DEF m
<1>. DEFINE h == Held(m, f)
<1>2. /\ h \in Observations
      /\ h.detection = m.detection /\ h.reset = m.reset
      /\ h.lowest = m.lowest /\ h.travel = m.travel
      /\ Posed(f) => /\ h.since = IF m.since = None THEN f.at ELSE m.since
                     /\ h.frames = Longer(m.frames)
                     /\ h.stableAt = IF h.frames = MinFrames THEN f.at ELSE m.stableAt
      /\ ~Posed(f) => h.since = None /\ h.frames = 0 /\ h.stableAt = m.stableAt
  BY <1>1, HeldObserves
<1>3. h = Held(Moved(c, f), f)
  BY DEF m
<1>. HIDE DEF h
<1>. QED  BY <1>1, <1>2, <1>3 DEF Observes

\* What the observer goes on from after a frame that gave no detection, or one.
LEMMA KeptAfter ==
    ASSUME detected' = FALSE, NEW s, NEW t PROVE After(s, detected', t) = s
  BY DEF After

LEMMA EmittedAfter ==
    ASSUME detected' = TRUE, NEW s \in Observations, NEW t \in Times
    PROVE  /\ After(s, detected', t) \in Observations
           /\ After(s, detected', t).detection = t /\ After(s, detected', t).reset = FALSE
           /\ After(s, detected', t).lowest = None /\ After(s, detected', t).travel = 0
           /\ After(s, detected', t).since = s.since
           /\ After(s, detected', t).frames = s.frames
           /\ After(s, detected', t).stableAt = s.stableAt
<1>. DEFINE a == After(s, detected', t)
            m == [s EXCEPT !.detection = t, !.reset = FALSE]
<1>1. t \in Optional(Times) /\ None \in Optional(Nat)
  BY DEF Optional
<1>2. /\ m \in Observations /\ m.detection = t /\ m.reset = FALSE
      /\ m.since = s.since /\ m.frames = s.frames /\ m.stableAt = s.stableAt
  BY <1>1 DEF Observations
<1>3. a = [m EXCEPT !.lowest = None, !.travel = 0]
  BY DEF After
<1>. HIDE DEF m, a
<1>4. /\ a \in Observations /\ a.detection = t /\ a.reset = FALSE
      /\ a.lowest = None /\ a.travel = 0
      /\ a.since = s.since /\ a.frames = s.frames /\ a.stableAt = s.stableAt
  BY <1>1, <1>2, <1>3 DEF Observations
<1>. QED  BY <1>4 DEF a

LEMMA BrokenFields ==
    ASSUME NEW s \in Observations
    PROVE  /\ Broken(s) \in Observations
           /\ Broken(s).detection = s.detection /\ Broken(s).reset = TRUE
           /\ Broken(s).lowest = s.lowest /\ Broken(s).travel = s.travel
           /\ Broken(s).since = None /\ Broken(s).frames = 0 /\ Broken(s).stableAt = None
<1>1. Broken(s) = [s EXCEPT !.reset = TRUE, !.since = None, !.frames = 0, !.stableAt = None]
  BY DEF Broken
<1>2. None \in Optional(Times) /\ 0 \in 0 .. MinFrames
  BY Bounds DEF Optional
<1>. DEFINE m == [s EXCEPT !.reset = TRUE, !.since = None]
<1>3. /\ m \in Observations
      /\ m.detection = s.detection /\ m.reset = TRUE /\ m.lowest = s.lowest
      /\ m.travel = s.travel /\ m.since = None
  BY <1>2 DEF Observations
<1>4. Broken(s) = [m EXCEPT !.frames = 0, !.stableAt = None]
  BY <1>1
<1>. HIDE DEF m
<1>. QED  BY <1>2, <1>3, <1>4 DEF Observations

-----------------------------------------------------------------------------
(* A hand held above the shoulder *)

LEMMA RaisedStep ==
    ASSUME motion = "raised",
           NEW r \in RaisedRules, NEW c \in Observations, NEW s, NEW f,
           f.at \in Times, f.up \in BOOLEAN,
           RaisedAgrees(r, c), Observes(c, f, s), Raised(r, f)
    PROVE  /\ rule' \in RaisedRules /\ detected' \in BOOLEAN
           /\ RaisedAgrees(rule', After(s, detected', f.at))
           /\ detected' => /\ c.detection # None => f.at - c.detection >= Cooldown
                           /\ s.travel >= Threshold \/ c.reset \/ c.detection = None
                           /\ s.since # None /\ f.at - s.since >= Hold
<1>1. /\ s \in Observations /\ s.detection = c.detection /\ s.reset = c.reset
      /\ s.lowest \in Nat
      /\ ~f.up => s.lowest = 0 /\ s.since = None
      /\ f.up => /\ c.lowest # None => s.lowest <= c.lowest
                 /\ s.travel >= Threshold - s.lowest
                 /\ s.since = IF c.since = None THEN f.at ELSE c.since
  BY Bounds DEF Observes, Place, Posed
<1>2. CASE ~f.up
  <2>1. rule' = RaisedReset(r) /\ detected' = FALSE
    BY <1>2 DEF Raised, Keep, Emit
  <2>2. /\ rule' \in RaisedRules /\ rule'.since = None /\ rule'.last = r.last
        /\ rule'.latched = FALSE
    BY <2>1 DEF RaisedReset, RaisedInit, RaisedRules, Optional
  <2>. QED  BY <1>1, <1>2, <2>1, <2>2, KeptAfter DEF RaisedAgrees
<1>3. CASE f.up /\ detected' = FALSE
  <2>1. /\ rule' \in RaisedRules /\ rule'.last = r.last /\ rule'.latched = r.latched
        /\ rule'.since = IF r.since = None /\ ~r.latched THEN f.at ELSE r.since
    BY <1>3 DEF Raised, Keep, Emit, RaisedRules, Optional
  <2>2. f.at # None
    BY NoneApart
  <2>3. rule'.since = s.since /\ (rule'.latched => rule'.since # None)
    BY <1>1, <1>3, <2>1, <2>2 DEF RaisedAgrees
  <2>4. c.lowest = 0 => s.lowest = 0
    BY <1>1, <1>3, NoneApart
  <2>. QED  BY <1>1, <1>3, <2>1, <2>3, <2>4, KeptAfter DEF RaisedAgrees
<1>4. CASE f.up /\ detected' # FALSE
  <2>1. /\ detected' = TRUE /\ ~r.latched /\ r.since # None
        /\ ~Recent(f, r.since, Hold) /\ ~Recent(f, r.last, Cooldown)
        /\ rule' = [r EXCEPT !.latched = TRUE, !.last = f.at]
    BY <1>4 DEF Raised, Keep, Emit
  <2>2. rule' \in RaisedRules /\ rule'.last = f.at /\ rule'.latched = TRUE
        /\ rule'.since = r.since
    BY <2>1 DEF RaisedRules, Optional
  <2>3. RaisedAgrees(rule', After(s, detected', f.at))
    <3>1. r.since = s.since
      BY <1>1, <1>4, <2>1 DEF RaisedAgrees
    <3>. QED  BY <1>1, <2>1, <2>2, <3>1, EmittedAfter DEF RaisedAgrees
  <2>4. f.at - r.since >= Hold /\ (r.last # None => f.at - r.last >= Cooldown)
    BY <2>1, Bounds DEF Recent, RaisedRules, Optional
  <2>5. s.since # None /\ f.at - s.since >= Hold
    BY <1>1, <1>4, <2>1, <2>4 DEF RaisedAgrees
  <2>6. s.travel >= Threshold \/ c.reset \/ c.detection = None
    BY <1>1, <1>4, <2>1, Bounds DEF RaisedAgrees, Observations
  <2>. QED  BY <2>1, <2>2, <2>3, <2>4, <2>5, <2>6 DEF RaisedAgrees
<1>. QED  BY <1>2, <1>3, <1>4

-----------------------------------------------------------------------------
(* What the observer saw *)

LEMMA CoversStay ==
    ASSUME NEW c \in Observations, NEW f, NEW s, Observes(c, f, s),
           NEW p \in Optional(Positions), Covers(c, p), Place(f) \in Optional(Nat)
    PROVE  Covers(s, p)
<1>. SUFFICES ASSUME p # None PROVE s.lowest # None /\ s.lowest <= p
  BY DEF Covers
<1>1. /\ p \in Nat /\ c.lowest # None /\ c.lowest <= p /\ c.lowest \in Nat
      /\ s \in Observations
  BY NoneApart DEF Covers, Optional, Observations, Observes
<1>2. CASE Place(f) = None
  BY <1>1, <1>2 DEF Observes
<1>3. CASE Place(f) # None
  <2>1. s.lowest \in Nat /\ s.lowest <= c.lowest
    BY <1>1, <1>3 DEF Observes
  <2>. QED  BY <1>1, <2>1, NoneApart
<1>. QED  BY <1>2, <1>3

LEMMA CoversHere ==
    ASSUME NEW c, NEW f, NEW s, Observes(c, f, s), Place(f) # None
    PROVE  Covers(s, Place(f))
  BY NoneApart DEF Covers, Observes

\* A rule that moved by Threshold from a place the observer saw.
LEMMA TravelSeen ==
    ASSUME NEW c \in Observations, NEW f, NEW s, Observes(c, f, s), Place(f) \in Nat,
           NEW p \in Nat, Covers(c, p), Place(f) - p >= Threshold
    PROVE  s.travel >= Threshold
<1>1. c.lowest \in Nat /\ c.lowest <= p /\ c.lowest # None /\ Place(f) # None /\ p # None
  BY NoneApart DEF Covers, Observations, Optional
<1>2. /\ s.lowest \in Nat /\ s.lowest <= c.lowest /\ s.travel >= Place(f) - s.lowest
      /\ s.travel \in Nat
  BY <1>1 DEF Observes, Observations
<1>. QED  BY <1>1, <1>2, Bounds

LEMMA LowestStays ==
    ASSUME NEW c, NEW f, NEW s, Observes(c, f, s), c.lowest = 0
    PROVE  s.lowest = 0
<1>1. CASE Place(f) = None
  BY <1>1 DEF Observes
<1>2. CASE Place(f) # None
  <2>1. s.lowest \in Nat /\ s.lowest <= 0
    BY <1>2, NoneApart DEF Observes
  <2>. QED  BY <2>1
<1>. QED  BY <1>1, <1>2

-----------------------------------------------------------------------------
(* A wrist that moves sideways from the chest *)

LEMMA SwipeStep ==
    ASSUME motion = "swipe",
           NEW r \in SwipeRules, NEW c \in Observations, NEW s, NEW f,
           f.at \in Times, f.pos \in Optional(Positions),
           SwipeAgrees(r, c), Observes(c, f, s), Swipe(r, f)
    PROVE  /\ rule' \in SwipeRules /\ detected' \in BOOLEAN
           /\ SwipeAgrees(rule', After(s, detected', f.at))
           /\ detected' => s.travel >= Threshold
<1>1. Place(f) = f.pos /\ s \in Observations /\ f.pos \in Optional(Nat)
  BY Bounds DEF Place, Observes, Optional
<1>2. /\ r.start \in Optional(Positions) /\ r.peak \in Positions /\ r.latched \in BOOLEAN
  BY DEF SwipeRules
<1>3. CASE rule' = r /\ detected' = FALSE
  <2>1. ~r.latched => Covers(s, r.start)
    BY <1>1, <1>2, CoversStay DEF SwipeAgrees
  <2>. QED  BY <1>3, <2>1, KeptAfter DEF SwipeAgrees
<1>4. CASE f.pos # None /\ rule' = Baseline(f) /\ detected' = FALSE
  <2>1. rule' \in SwipeRules /\ rule'.latched = FALSE /\ rule'.start \in {f.pos, None}
    <3>1. /\ f.pos \in Optional(Positions) /\ f.at \in Optional(Times)
          /\ None \in Optional(Positions) /\ None \in Optional(Times) /\ 0 \in Positions
      BY Bounds DEF Optional, Positions
    <3>2. /\ SwipeInit \in SwipeRules /\ SwipeInit.latched = FALSE /\ SwipeInit.start = None
      BY <3>1 DEF SwipeInit, SwipeRules
    <3>3. Baseline(f) = IF f.good THEN [SwipeInit EXCEPT !.start = f.pos, !.from = f.at]
                        ELSE SwipeInit
      BY DEF Baseline
    <3>4. [SwipeInit EXCEPT !.start = f.pos, !.from = f.at] \in SwipeRules
      BY <3>1, <3>2 DEF SwipeRules
    <3>5. /\ [SwipeInit EXCEPT !.start = f.pos, !.from = f.at].latched = FALSE
          /\ [SwipeInit EXCEPT !.start = f.pos, !.from = f.at].start = f.pos
      BY <3>1, <3>2 DEF SwipeRules
    <3>. QED  BY <1>4, <3>2, <3>3, <3>4, <3>5
  <2>2. Covers(s, f.pos) /\ Covers(s, None)
    BY <1>1, <1>4, CoversHere DEF Covers
  <2>. QED  BY <1>4, <2>1, <2>2, KeptAfter DEF SwipeAgrees
<1>5. CASE r.start # None /\ r.latched /\ f.pos # None /\ detected' = FALSE
           /\ rule' = [r EXCEPT !.peak = Higher(r.peak, f.pos - r.start)]
  <2>1. Higher(r.peak, f.pos - r.start) \in Positions
    BY <1>2, <1>5, Bounds DEF Higher, Positions, Optional
  <2>2. rule' \in SwipeRules /\ rule'.latched = r.latched /\ rule'.start = r.start
    BY <1>5, <2>1 DEF SwipeRules
  <2>. QED  BY <1>5, <2>2, KeptAfter DEF SwipeAgrees
<1>6. CASE f.pos # None /\ ~r.latched /\ detected' = FALSE
           /\ rule' = [r EXCEPT !.start = f.pos, !.from = f.at]
  <2>1. rule' \in SwipeRules /\ rule'.latched = FALSE /\ rule'.start = f.pos
    BY <1>2, <1>6 DEF SwipeRules, Optional
  <2>2. Covers(s, f.pos)
    BY <1>1, <1>6, CoversHere
  <2>. QED  BY <1>6, <2>1, <2>2, KeptAfter DEF SwipeAgrees
<1>7. CASE /\ f.pos # None /\ r.start # None /\ ~r.latched /\ detected' = TRUE
           /\ f.pos - r.start >= Threshold
           /\ rule' = [r EXCEPT !.latched = TRUE, !.peak = f.pos - r.start]
  <2>1. f.pos \in Positions /\ r.start \in Positions
    BY <1>2, <1>7 DEF Optional
  <2>2. f.pos - r.start \in Positions
    <3>1. /\ f.pos \in Nat /\ r.start \in Nat /\ Threshold \in Nat /\ Reach \in Nat
          /\ f.pos <= Reach /\ f.pos - r.start >= Threshold
      BY <1>7, <2>1, Bounds DEF Positions
    <3>. QED  BY <3>1 DEF Positions
  <2>3. rule' \in SwipeRules /\ rule'.latched = TRUE /\ rule'.start = r.start
    BY <1>7, <2>2 DEF SwipeRules
  <2>4. s.travel >= Threshold
    BY <1>1, <1>7, <2>1, NoneApart, TravelSeen DEF SwipeAgrees
  <2>. QED  BY <1>7, <2>3, <2>4 DEF SwipeAgrees
<1>. QED
  BY <1>3, <1>4, <1>5, <1>6, <1>7, Bounds DEF Swipe, SwipeLatched, SwipeOpen, Keep, Emit

-----------------------------------------------------------------------------
(* A finger snap *)

LEMMA SnapStep ==
    ASSUME motion = "snap",
           NEW r \in SnapRules, NEW c \in Observations, NEW s, NEW f,
           f.at \in Times, f.shape \in {"none", "ready", "released", "other"},
           SnapAgrees(r, c), Observes(c, f, s), Snap(r, f)
    PROVE  /\ rule' \in SnapRules /\ detected' \in BOOLEAN
           /\ SnapAgrees(rule', After(s, detected', f.at))
           /\ detected' => /\ c.detection # None /\ ~c.reset => f.at - c.detection >= SnapGuard
                           /\ s.travel >= Threshold
<1>1. /\ s \in Observations /\ s.detection = c.detection /\ s.reset = c.reset
      /\ f.shape = "ready" => Place(f) = 0
      /\ f.shape = "released" => Place(f) = Threshold
  BY DEF Place, Observes
<1>2. CASE detected' = FALSE
  <2>1. /\ rule' \in SnapRules /\ rule'.last = r.last
        /\ rule'.armed # None => r.armed # None \/ f.shape = "ready"
    BY <1>2, Bounds DEF Snap, SnapReleased, Disarmed, Keep, Emit, SnapRules, Optional
  <2>2. f.shape = "ready" => s.lowest = 0
    BY <1>1, NoneApart DEF Observes
  <2>3. rule'.armed # None => s.lowest = 0
    BY <2>1, <2>2, LowestStays DEF SnapAgrees
  <2>. QED  BY <1>1, <1>2, <2>1, <2>3, KeptAfter DEF SnapAgrees
<1>3. CASE detected' # FALSE
  <2>1. /\ detected' = TRUE /\ f.shape = "released" /\ r.armed # None
        /\ ~Recent(f, r.last, SnapGuard)
        /\ rule' = [armed |-> None, latched |-> TRUE, last |-> f.at]
    BY <1>3 DEF Snap, SnapReleased, Keep, Emit
  <2>2. rule' \in SnapRules /\ rule'.armed = None /\ rule'.last = f.at
    BY <2>1 DEF SnapRules, Optional
  <2>3. SnapAgrees(rule', After(s, detected', f.at))
    BY <1>1, <2>1, <2>2, EmittedAfter DEF SnapAgrees
  <2>4. r.last # None => f.at - r.last >= SnapGuard
    <3>1. r.last # None => r.last \in Nat /\ f.at \in Nat /\ SnapGuard \in Nat
      BY Bounds DEF SnapRules, Optional
    <3>. QED  BY <2>1, <3>1 DEF Recent
  <2>5. s.travel >= Threshold
    <3>1. Covers(c, 0) /\ Place(f) \in Nat /\ Place(f) - 0 >= Threshold
      BY <1>1, <2>1, Bounds, NoneApart DEF Covers, SnapAgrees
    <3>. QED  BY <3>1, TravelSeen
  <2>. QED  BY <2>1, <2>2, <2>3, <2>4, <2>5 DEF SnapAgrees
<1>. QED  BY <1>2, <1>3

-----------------------------------------------------------------------------
(* Both wrists from apart to contact *)

LEMMA ClapStep ==
    ASSUME motion = "clap",
           NEW r \in ClapRules, NEW c \in Observations, NEW s, NEW f,
           f.at \in Times, f.pos \in Optional(Positions),
           ClapAgrees(r, c), Observes(c, f, s), Clap(r, f)
    PROVE  /\ rule' \in ClapRules /\ detected' \in BOOLEAN
           /\ ClapAgrees(rule', After(s, detected', f.at))
           /\ detected' => s.travel >= Threshold
<1>. DEFINE t == [r EXCEPT !.previous = f.pos]
<1>1. Place(f) = f.pos /\ s \in Observations
  BY DEF Place, Observes
<1>2. t \in ClapRules /\ t.armed = r.armed /\ t.latched = r.latched
  BY DEF ClapRules
<1>3. \/ detected' = FALSE /\ rule' \in {r, t}
      \/ detected' = FALSE /\ rule' = [t EXCEPT !.armed = TRUE, !.latched = FALSE] /\ f.pos = 0
      \/ /\ detected' = TRUE /\ rule' = [t EXCEPT !.latched = TRUE]
         /\ f.pos \in Positions /\ f.pos >= Threshold /\ r.armed /\ ~r.latched
  BY DEF Clap, Keep, Emit
<1>. HIDE DEF t
<1>4. CASE detected' = FALSE /\ rule' \in {r, t}
  <2>1. rule' \in ClapRules /\ rule'.armed = r.armed /\ rule'.latched = r.latched
    BY <1>2, <1>4
  <2>2. c.lowest = 0 => s.lowest = 0
    BY LowestStays
  <2>. QED  BY <1>4, <2>1, <2>2, KeptAfter DEF ClapAgrees
<1>5. CASE detected' = FALSE /\ rule' = [t EXCEPT !.armed = TRUE, !.latched = FALSE] /\ f.pos = 0
  <2>1. rule' \in ClapRules
    BY <1>2, <1>5 DEF ClapRules
  <2>2. s.lowest = 0
    BY <1>1, <1>5, NoneApart DEF Observes
  <2>. QED  BY <1>5, <2>1, <2>2, KeptAfter DEF ClapAgrees
<1>6. CASE /\ detected' = TRUE /\ rule' = [t EXCEPT !.latched = TRUE]
           /\ f.pos \in Positions /\ f.pos >= Threshold /\ r.armed /\ ~r.latched
  <2>1. rule' \in ClapRules /\ rule'.latched = TRUE
    BY <1>2, <1>6 DEF ClapRules
  <2>2. Covers(c, 0) /\ Place(f) \in Nat /\ Place(f) - 0 >= Threshold
    BY <1>1, <1>6, Bounds, NoneApart DEF Covers, ClapAgrees
  <2>3. s.travel >= Threshold
    BY <2>2, TravelSeen
  <2>. QED  BY <1>6, <2>1, <2>3 DEF ClapAgrees
<1>. QED  BY <1>3, <1>4, <1>5, <1>6

-----------------------------------------------------------------------------
(* An open hand that becomes a fist *)

LEMMA FistStep ==
    ASSUME motion = "fist",
           NEW r \in FistRules, NEW c \in Observations, NEW s, NEW f,
           f.at \in Times, f.pos \in Optional(Positions),
           FistAgrees(r, c), Observes(c, f, s), Fist(r, f)
    PROVE  /\ rule' \in FistRules /\ detected' \in BOOLEAN
           /\ FistAgrees(rule', After(s, detected', f.at))
           /\ detected' => s.travel >= Threshold
<1>1. Place(f) = f.pos /\ s \in Observations /\ f.pos \in Optional(Nat)
  BY Bounds DEF Place, Observes, Optional
<1>2. /\ r.start \in Optional(Positions) /\ r.latched \in BOOLEAN
      /\ None \in Optional(Positions)
  BY DEF FistRules, Optional
<1>3. CASE detected' = FALSE
  <2>1. /\ rule' \in FistRules
        /\ ~rule'.latched => \/ ~r.latched /\ rule'.start = r.start
                             \/ rule'.start = None
                             \/ f.pos # None /\ rule'.start = f.pos
    <3>1. \/ rule' = r
          \/ rule' = FistInit
          \/ f.pos # None /\ ~r.latched /\ rule' = [r EXCEPT !.start = f.pos]
      BY <1>3 DEF Fist, Keep, Emit
    <3>2. FistInit \in FistRules /\ FistInit.start = None
      BY <1>2 DEF FistInit, FistRules
    <3>3. /\ [r EXCEPT !.start = f.pos] \in FistRules
          /\ [r EXCEPT !.start = f.pos].start = f.pos
      BY DEF FistRules
    <3>. QED  BY <3>1, <3>2, <3>3
  <2>2. ~r.latched => Covers(s, r.start)
    BY <1>1, <1>2, CoversStay DEF FistAgrees
  <2>3. f.pos # None => Covers(s, f.pos)
    BY <1>1, CoversHere
  <2>4. Covers(s, None)
    BY DEF Covers
  <2>. QED  BY <1>3, <2>1, <2>2, <2>3, <2>4, KeptAfter DEF FistAgrees
<1>4. CASE detected' # FALSE
  <2>1. /\ detected' = TRUE /\ rule' = [r EXCEPT !.latched = TRUE] /\ ~r.latched
        /\ f.pos # None /\ r.start # None /\ f.pos - r.start >= Threshold
    BY <1>4 DEF Fist, Keep, Emit
  <2>2. rule' \in FistRules /\ rule'.latched = TRUE
    BY <2>1 DEF FistRules
  <2>3. f.pos \in Nat /\ r.start \in Nat
    BY <1>2, <2>1, Bounds DEF Optional
  <2>4. s.travel >= Threshold
    BY <1>1, <2>1, <2>3, TravelSeen DEF FistAgrees
  <2>. QED  BY <2>1, <2>2, <2>4 DEF FistAgrees
<1>. QED  BY <1>3, <1>4

-----------------------------------------------------------------------------
(* A thumb held up that moves up *)

LEMMA LongerBounds ==
    ASSUME NEW n \in 0 .. MinFrames
    PROVE  /\ Longer(n) \in 0 .. MinFrames
           /\ n + 1 >= MinFrames <=> Longer(n) = MinFrames
           /\ \A m \in 0 .. MinFrames : m <= n => Longer(m) <= Longer(n)
  BY Bounds DEF Longer, Lower

LEMMA BasedIn ==
    ASSUME NEW p \in Optional(Positions), NEW q \in Optional(Positions), q # None
    PROVE  (IF p = None THEN q ELSE Lower(p, q)) \in Optional(Positions)
  BY DEF Lower

LEMMA BasedThumb ==
    ASSUME NEW r, NEW c \in Observations, NEW s, NEW f, Observes(c, f, s),
           f.pos \in Positions, r.base \in Optional(Positions),
           Place(f) = f.pos
    PROVE  LET base == IF r.base = None THEN f.pos ELSE Lower(r.base, f.pos)
           IN /\ base \in Positions /\ base <= f.pos
              /\ Covers(c, r.base) => Covers(s, base)
              /\ Covers(c, r.base) /\ f.pos - base >= Threshold => s.travel >= Threshold
<1>. DEFINE base == IF r.base = None THEN f.pos ELSE Lower(r.base, f.pos)
<1>1. /\ f.pos \in Nat /\ f.pos # None
      /\ r.base # None => r.base \in Positions /\ r.base \in Nat
  BY NoneApart DEF Optional
<1>2. base \in Positions /\ base \in Nat /\ base <= f.pos /\ (base = f.pos \/ base = r.base)
  BY <1>1, NoneApart DEF Lower
<1>3. Covers(s, f.pos)
  BY <1>1, CoversHere
<1>4. Covers(c, r.base) => Covers(s, r.base)
  BY <1>1, CoversStay DEF Optional
<1>5. Covers(c, r.base) => Covers(s, base)
  BY <1>2, <1>3, <1>4
<1>6. ASSUME Covers(c, r.base), f.pos - base >= Threshold PROVE s.travel >= Threshold
  <2>1. base # f.pos
    BY <1>1, <1>6, Bounds
  <2>2. r.base = base /\ r.base \in Nat
    BY <1>2, <2>1
  <2>. QED  BY <1>1, <1>6, <2>2, TravelSeen
<1>. QED  BY <1>2, <1>5, <1>6

LEMMA ThumbUpStep ==
    ASSUME motion = "thumbUp",
           NEW r \in ThumbUpRules, NEW c \in Observations, NEW s, NEW f,
           f.at \in Times, f.pos \in Optional(Positions), f.shape \in {"thumb", "palm", "other"},
           ThumbUpAgrees(r, c), Observes(c, f, s), ThumbUp(r, f)
    PROVE  /\ rule' \in ThumbUpRules /\ detected' \in BOOLEAN
           /\ ThumbUpAgrees(rule', After(s, detected', f.at))
           /\ detected' => /\ c.detection # None => f.at - c.detection >= Cooldown
                           /\ s.travel >= Threshold
                           /\ s.frames = MinFrames
<1>. DEFINE base == IF r.base = None THEN f.pos ELSE Lower(r.base, f.pos)
            b == Based(r, f)
<1>1. /\ Place(f) = f.pos /\ s \in Observations /\ s.detection = c.detection
      /\ f.pos # None /\ f.shape = "thumb" => s.frames = Longer(c.frames)
      /\ s.frames \in 0 .. MinFrames /\ c.frames \in 0 .. MinFrames
  BY DEF Place, Posed, Observes, Observations
<1>2. /\ r.base \in Optional(Positions) /\ r.run \in 0 .. MinFrames /\ r.latched \in BOOLEAN
      /\ r.peak \in Positions /\ r.last \in Optional(Times)
  BY DEF ThumbUpRules
<1>3. /\ ThumbUpReset(r) \in ThumbUpRules /\ ThumbUpReset(r).last = r.last
      /\ ThumbUpReset(r).latched = FALSE /\ ThumbUpReset(r).run = 0
      /\ ThumbUpReset(r).base = None
  <2>1. None \in Optional(Positions) /\ None \in Optional(Times) /\ 0 \in Positions
        /\ 0 \in 0 .. MinFrames
    BY Bounds DEF Optional, Positions
  <2>2. ThumbUpInit \in ThumbUpRules /\ ThumbUpInit.latched = FALSE /\ ThumbUpInit.run = 0
        /\ ThumbUpInit.base = None
    BY <2>1 DEF ThumbUpInit, ThumbUpRules
  <2>. QED  BY <1>2, <2>2 DEF ThumbUpReset, ThumbUpRules
<1>4. CASE rule' = ThumbUpReset(r) /\ detected' = FALSE
  <2>1. Covers(s, rule'.base) /\ rule'.run <= s.frames
    BY <1>1, <1>3, <1>4, Bounds DEF Covers
  <2>. QED  BY <1>1, <1>3, <1>4, <2>1, KeptAfter DEF ThumbUpAgrees
<1>5. ASSUME f.pos # None
      PROVE  /\ f.pos \in Positions /\ base \in Positions /\ base \in Nat /\ base <= f.pos
             /\ b \in ThumbUpRules /\ b.base = base /\ b.run = r.run /\ b.last = r.last
             /\ b.latched = r.latched /\ b.peak = r.peak
             /\ ~r.latched => Covers(s, base)
             /\ ~r.latched /\ f.pos - base >= Threshold => s.travel >= Threshold
  <2>1. f.pos \in Positions
    BY <1>5 DEF Optional
  <2>2. /\ base \in Positions /\ base <= f.pos
        /\ ~r.latched => Covers(s, base)
        /\ ~r.latched /\ f.pos - base >= Threshold => s.travel >= Threshold
    BY <1>1, <1>2, <2>1, BasedThumb DEF ThumbUpAgrees
  <2>3. b = [r EXCEPT !.base = base]
    BY DEF Based
  <2>. HIDE DEF base, b
  <2>4. base \in Optional(Positions) /\ base \in Nat
    BY <2>2, NoneApart DEF Optional
  <2>5. /\ b \in ThumbUpRules /\ b.base = base /\ b.run = r.run /\ b.last = r.last
        /\ b.latched = r.latched /\ b.peak = r.peak
    BY <2>3, <2>4 DEF ThumbUpRules
  <2>. QED  BY <2>1, <2>2, <2>4, <2>5
<1>6. \/ rule' = ThumbUpReset(r) /\ detected' = FALSE
      \/ f.pos # None /\ r.latched /\ ThumbUpLatched(b, f)
      \/ f.pos # None /\ ~r.latched /\ ThumbUpOpen(b, f)
  BY DEF ThumbUp, Keep
<1>. HIDE DEF base, b
<1>7. CASE f.pos # None /\ r.latched /\ ThumbUpLatched(b, f)
  <2>1. f.pos - base \in Positions /\ Higher(r.peak, f.pos - base) \in Positions
    <3>1. f.pos \in 0 .. Reach /\ base \in 0 .. Reach /\ base <= f.pos /\ Reach \in Nat
      BY <1>5, <1>7, Bounds DEF Positions
    <3>2. f.pos - base \in Positions
      BY <3>1 DEF Positions
    <3>. QED  BY <1>2, <3>2 DEF Higher
  <2>2. \/ rule' = ThumbUpReset(b) /\ detected' = FALSE
        \/ /\ rule' = [b EXCEPT !.peak = Higher(r.peak, f.pos - base)] /\ detected' = FALSE
        \/ /\ f.shape = "thumb" /\ detected' = FALSE
           /\ rule' = [b EXCEPT !.base = f.pos, !.run = Longer(0), !.latched = FALSE, !.peak = 0]
    BY <1>5, <1>7 DEF ThumbUpLatched, Keep
  <2>3. ThumbUpReset(b) = ThumbUpReset(r)
    BY <1>5, <1>7 DEF ThumbUpReset
  <2>4. CASE rule' = [b EXCEPT !.peak = Higher(r.peak, f.pos - base)] /\ detected' = FALSE
    <3>1. rule' \in ThumbUpRules /\ rule'.last = r.last /\ rule'.latched = TRUE /\ rule'.base = base
      BY <1>5, <1>7, <2>1, <2>4 DEF ThumbUpRules
    <3>. QED  BY <1>1, <1>5, <1>7, <2>4, <3>1, NoneApart, KeptAfter DEF ThumbUpAgrees
  <2>5. CASE /\ f.shape = "thumb" /\ detected' = FALSE
             /\ rule' = [b EXCEPT !.base = f.pos, !.run = Longer(0), !.latched = FALSE, !.peak = 0]
    <3>1. Longer(0) \in 0 .. MinFrames /\ 0 \in Positions /\ f.pos \in Optional(Positions)
          /\ Longer(0) <= s.frames
      <4>1. 0 \in 0 .. MinFrames /\ 0 \in Positions
        BY Bounds DEF Positions
      <4>2. Longer(0) \in 0 .. MinFrames /\ Longer(0) <= Longer(c.frames)
        BY <1>1, <4>1, LongerBounds
      <4>. QED  BY <1>1, <1>7, <2>5, <4>1, <4>2
    <3>2. /\ rule' \in ThumbUpRules /\ rule'.last = b.last /\ rule'.latched = FALSE
          /\ rule'.base = f.pos /\ rule'.run = Longer(0)
      <4>. DEFINE m == [b EXCEPT !.base = f.pos, !.run = Longer(0)]
      <4>1. m \in ThumbUpRules /\ m.last = b.last /\ m.base = f.pos /\ m.run = Longer(0)
        BY <1>5, <1>7, <3>1 DEF ThumbUpRules
      <4>2. rule' = [m EXCEPT !.latched = FALSE, !.peak = 0]
        BY <2>5
      <4>. HIDE DEF m
      <4>. QED  BY <3>1, <4>1, <4>2 DEF ThumbUpRules
    <3>3. Covers(s, f.pos)
      BY <1>1, <1>7, CoversHere
    <3>. QED  BY <1>1, <1>5, <1>7, <2>5, <3>1, <3>2, <3>3, KeptAfter DEF ThumbUpAgrees
  <2>. QED  BY <1>4, <2>2, <2>3, <2>4, <2>5
<1>8. CASE f.pos # None /\ ~r.latched /\ ThumbUpOpen(b, f)
  <2>1. /\ f.pos \in Nat /\ base \in Nat /\ Longer(r.run) \in 0 .. MinFrames
        /\ f.pos - base \in Positions
        /\ r.run <= c.frames
    <3>1. f.pos \in 0 .. Reach /\ base \in 0 .. Reach /\ base <= f.pos /\ Reach \in Nat
      BY <1>5, <1>8, Bounds DEF Positions
    <3>2. f.pos - base \in Positions
      BY <3>1 DEF Positions
    <3>3. Longer(r.run) \in 0 .. MinFrames
      BY <1>2, LongerBounds
    <3>4. r.run <= c.frames
      BY <1>8 DEF ThumbUpAgrees
    <3>. QED  BY <3>1, <3>2, <3>3, <3>4
  <2>2. f.shape = "thumb" => Longer(r.run) <= s.frames
    BY <1>1, <1>2, <1>8, <2>1, LongerBounds
  <2>3. CASE detected' = FALSE
    <3>1. \/ rule' = [b EXCEPT !.run = 0]
          \/ f.shape = "thumb" /\ rule' = [b EXCEPT !.run = Longer(r.run)]
          \/ rule' = [b EXCEPT !.run = Longer(r.run), !.latched = TRUE, !.peak = f.pos - base]
      BY <1>5, <1>8, <2>3 DEF ThumbUpOpen, Keep, Emit
    <3>2. CASE rule' = [b EXCEPT !.run = 0]
      <4>1. rule' \in ThumbUpRules /\ rule'.last = r.last /\ rule'.latched = FALSE
            /\ rule'.base = base /\ rule'.run = 0
        BY <1>5, <1>8, <3>2, Bounds DEF ThumbUpRules
      <4>2. rule'.run <= s.frames
        BY <1>1, <4>1, Bounds
      <4>. QED  BY <1>1, <1>5, <1>8, <2>3, <4>1, <4>2, KeptAfter DEF ThumbUpAgrees
    <3>3. CASE f.shape = "thumb" /\ rule' = [b EXCEPT !.run = Longer(r.run)]
      <4>1. rule' \in ThumbUpRules /\ rule'.last = r.last /\ rule'.latched = FALSE
            /\ rule'.base = base /\ rule'.run = Longer(r.run)
        BY <1>5, <1>8, <2>1, <3>3 DEF ThumbUpRules
      <4>. QED  BY <1>1, <1>5, <1>8, <2>2, <2>3, <3>3, <4>1, KeptAfter DEF ThumbUpAgrees
    <3>4. CASE rule' = [b EXCEPT !.run = Longer(r.run), !.latched = TRUE, !.peak = f.pos - base]
      <4>. DEFINE m == [b EXCEPT !.run = Longer(r.run), !.latched = TRUE]
      <4>1. m \in ThumbUpRules /\ m.last = r.last /\ m.latched = TRUE /\ m.base = base
        BY <1>5, <1>8, <2>1 DEF ThumbUpRules
      <4>2. rule' = [m EXCEPT !.peak = f.pos - base]
        BY <3>4
      <4>. HIDE DEF m
      <4>3. rule' \in ThumbUpRules /\ rule'.last = r.last /\ rule'.latched = TRUE
            /\ rule'.base = base
        BY <2>1, <4>1, <4>2 DEF ThumbUpRules
      <4>4. base # None
        BY <2>1, NoneApart
      <4>. QED  BY <1>1, <2>3, <4>3, <4>4, KeptAfter DEF ThumbUpAgrees
    <3>. QED  BY <3>1, <3>2, <3>3, <3>4
  <2>4. CASE detected' # FALSE
    <3>1. /\ detected' = TRUE /\ f.shape = "thumb" /\ f.pos - base >= Threshold
          /\ r.run + 1 >= MinFrames /\ ~Recent(f, r.last, Cooldown)
          /\ rule' = [b EXCEPT !.run = Longer(r.run), !.latched = TRUE, !.peak = f.pos - base,
                               !.last = f.at]
      BY <1>5, <1>8, <2>4 DEF ThumbUpOpen, Keep, Emit
    <3>2. rule' \in ThumbUpRules /\ rule'.last = f.at /\ rule'.latched = TRUE
          /\ rule'.base = base
      <4>. DEFINE m == [b EXCEPT !.run = Longer(r.run), !.latched = TRUE]
      <4>1. m \in ThumbUpRules /\ m.latched = TRUE /\ m.base = base
        BY <1>5, <1>8, <2>1 DEF ThumbUpRules
      <4>2. rule' = [m EXCEPT !.peak = f.pos - base, !.last = f.at]
        BY <3>1
      <4>3. f.at \in Optional(Times)
        BY DEF Optional
      <4>. HIDE DEF m
      <4>. QED  BY <2>1, <4>1, <4>2, <4>3 DEF ThumbUpRules
    <3>3. ThumbUpAgrees(rule', After(s, detected', f.at))
      <4>1. base # None
        BY <2>1, NoneApart
      <4>. QED  BY <1>1, <3>1, <3>2, <4>1, EmittedAfter DEF ThumbUpAgrees
    <3>4. r.last # None => f.at - r.last >= Cooldown
      <4>1. r.last # None => r.last \in Nat /\ f.at \in Nat /\ Cooldown \in Nat
        BY <1>2, Bounds DEF Optional
      <4>. QED  BY <3>1, <4>1 DEF Recent
    <3>5. s.frames = MinFrames
      <4>1. c.frames + 1 >= MinFrames
        BY <1>1, <1>2, <2>1, <3>1, Bounds
      <4>. QED  BY <1>1, <1>8, <3>1, <4>1, LongerBounds
    <3>6. s.travel >= Threshold
      BY <1>5, <1>8, <3>1
    <3>. QED  BY <3>1, <3>2, <3>3, <3>4, <3>5, <3>6 DEF ThumbUpAgrees
  <2>. QED  BY <2>3, <2>4
<1>. QED  BY <1>4, <1>6, <1>7, <1>8

-----------------------------------------------------------------------------
(* A thumb held down, then a wrist that moves down *)

\* The baseline and the gate of an unlatched rule after a frame.
LEMMA GateAgrees ==
    ASSUME motion = "thumbDown",
           NEW r \in ThumbDownRules, NEW c \in Observations, NEW s, NEW f,
           f.at \in Times, f.pos \in Positions, ~r.latched,
           ThumbDownAgrees(r, c, f.at), Observes(c, f, s)
    PROVE  LET g == Gated(Based(r, f), f)
           IN /\ g \in ThumbDownRules /\ g.last = r.last /\ g.latched = FALSE
              /\ Covers(s, g.base) /\ Covers(s, g.gate) /\ g.run <= s.frames
              /\ g.gate # None => /\ g.seen # None /\ s.stableAt # None
                                  /\ g.seen <= s.stableAt /\ s.stableAt <= f.at
              /\ g.gate # None /\ f.pos - g.gate >= Threshold => s.travel >= Threshold
<1>. DEFINE base == IF r.base = None THEN f.pos ELSE Lower(r.base, f.pos)
            b == Based(r, f)
            g == Gated(b, f)
<1>1. /\ Place(f) = f.pos /\ s \in Observations /\ f.pos # None /\ f.pos \in Nat
      /\ f.at \in Nat /\ f.at # None
      /\ f.shape = "thumb" => /\ s.frames = Longer(c.frames)
                              /\ s.stableAt = IF s.frames = MinFrames THEN f.at ELSE c.stableAt
      /\ f.shape # "thumb" => s.stableAt = c.stableAt
      /\ s.frames \in 0 .. MinFrames /\ c.frames \in 0 .. MinFrames
  BY NoneApart DEF Place, Posed, Observes, Observations
<1>2. /\ r.base \in Optional(Positions) /\ r.gate \in Optional(Positions)
      /\ r.run \in 0 .. MinFrames /\ r.seen \in Optional(Times)
  BY DEF ThumbDownRules
<1>3. /\ Covers(c, r.base) /\ Covers(c, r.gate) /\ r.run <= c.frames
      /\ r.gate # None => /\ r.seen # None /\ c.stableAt # None
                          /\ r.seen <= c.stableAt /\ c.stableAt <= f.at
  BY DEF ThumbDownAgrees
<1>4. /\ base \in Positions /\ Covers(s, base)
      /\ f.pos - base >= Threshold => s.travel >= Threshold
  BY <1>1, <1>2, <1>3, BasedThumb
<1>5. b = [r EXCEPT !.base = base]
  BY DEF Based
<1>. HIDE DEF base, b
<1>6. base \in Optional(Positions)
  BY <1>4 DEF Optional
<1>7. /\ b \in ThumbDownRules /\ b.base = base /\ b.gate = r.gate /\ b.seen = r.seen
      /\ b.run = r.run /\ b.latched = FALSE /\ b.last = r.last
  BY <1>5, <1>6 DEF ThumbDownRules
<1>8. /\ Longer(r.run) \in 0 .. MinFrames /\ Longer(r.run) <= Longer(c.frames)
      /\ Longer(c.frames) \in 0 .. MinFrames
  BY <1>1, <1>2, <1>3, LongerBounds
\* The gate stays as it is.
<1>9. ASSUME g \in ThumbDownRules, g.base = base, g.gate = r.gate, g.seen = r.seen,
             g.last = r.last, g.latched = FALSE, g.run <= s.frames
      PROVE  /\ Covers(s, g.base) /\ Covers(s, g.gate)
             /\ g.gate # None => /\ g.seen # None /\ s.stableAt # None
                                 /\ g.seen <= s.stableAt /\ s.stableAt <= f.at
             /\ g.gate # None /\ f.pos - g.gate >= Threshold => s.travel >= Threshold
  <2>1. Covers(s, r.gate)
    BY <1>1, <1>2, <1>3, CoversStay DEF Optional
  <2>2. r.gate # None => r.gate \in Nat /\ r.seen \in Nat /\ c.stableAt \in Nat
    BY <1>2, <1>3, NoneApart DEF Optional, Observations
  <2>3. s.stableAt = c.stableAt \/ s.stableAt = f.at
    BY <1>1
  <2>4. r.gate # None => /\ r.seen # None /\ s.stableAt # None
                         /\ r.seen <= s.stableAt /\ s.stableAt <= f.at
    BY <1>1, <1>3, <2>2, <2>3
  <2>5. r.gate # None /\ f.pos - r.gate >= Threshold => s.travel >= Threshold
    BY <1>1, <1>3, <2>2, TravelSeen
  <2>. QED  BY <1>4, <1>9, <2>1, <2>4, <2>5
<1>10. CASE f.shape # "thumb"
  <2>1. g = [b EXCEPT !.run = 0]
    BY <1>10 DEF Gated
  <2>. HIDE DEF g
  <2>2. /\ g \in ThumbDownRules /\ g.base = base /\ g.gate = r.gate /\ g.seen = r.seen
        /\ g.run = 0 /\ g.latched = FALSE /\ g.last = r.last
    BY <1>7, <2>1, Bounds DEF ThumbDownRules
  <2>3. g.run <= s.frames
    BY <1>1, <2>2, Bounds
  <2>. QED  BY <1>9, <2>2, <2>3 DEF g, b
<1>11. CASE f.shape = "thumb" /\ Longer(r.run) < MinFrames
  <2>1. g = [b EXCEPT !.run = Longer(r.run)]
    BY <1>7, <1>11 DEF Gated
  <2>. HIDE DEF g
  <2>2. /\ g \in ThumbDownRules /\ g.base = base /\ g.gate = r.gate /\ g.seen = r.seen
        /\ g.run = Longer(r.run) /\ g.latched = FALSE /\ g.last = r.last
    BY <1>7, <1>8, <2>1 DEF ThumbDownRules
  <2>3. g.run <= s.frames
    BY <1>1, <1>8, <1>11, <2>2
  <2>. QED  BY <1>9, <2>2, <2>3 DEF g, b
<1>12. CASE f.shape = "thumb" /\ ~(Longer(r.run) < MinFrames)
  <2>1. g = [b EXCEPT !.run = Longer(r.run), !.seen = f.at, !.gate = base]
    BY <1>7, <1>12 DEF Gated
  <2>. HIDE DEF g
  <2>2. /\ g \in ThumbDownRules /\ g.base = base /\ g.gate = base /\ g.seen = f.at
        /\ g.run = Longer(r.run) /\ g.latched = FALSE /\ g.last = r.last
    <3>. DEFINE m == [b EXCEPT !.run = Longer(r.run), !.seen = f.at]
    <3>1. f.at \in Optional(Times)
      BY DEF Optional
    <3>2. /\ m \in ThumbDownRules /\ m.base = base /\ m.seen = f.at
          /\ m.run = Longer(r.run) /\ m.latched = FALSE /\ m.last = r.last
      BY <1>7, <1>8, <3>1 DEF ThumbDownRules
    <3>3. g = [m EXCEPT !.gate = base]
      BY <2>1
    <3>. HIDE DEF m
    <3>. QED  BY <1>6, <3>2, <3>3 DEF ThumbDownRules
  <2>3. Longer(c.frames) = MinFrames /\ s.frames = MinFrames /\ s.stableAt = f.at
    BY <1>1, <1>8, <1>12, Bounds
  <2>4. g.run <= s.frames
    BY <1>8, <2>2, <2>3
  <2>. QED  BY <1>1, <1>4, <2>2, <2>3, <2>4 DEF g, b
<1>. QED  BY <1>10, <1>11, <1>12

LEMMA ThumbDownStep ==
    ASSUME motion = "thumbDown",
           NEW r \in ThumbDownRules, NEW c \in Observations, NEW s, NEW f,
           f.at \in Times, f.pos \in Optional(Positions),
           ThumbDownAgrees(r, c, f.at), Observes(c, f, s), ThumbDown(r, f)
    PROVE  /\ rule' \in ThumbDownRules /\ detected' \in BOOLEAN
           /\ ThumbDownAgrees(rule', After(s, detected', f.at), f.at)
           /\ detected' => /\ c.detection # None => f.at - c.detection >= Cooldown
                           /\ s.travel >= Threshold
                           /\ s.stableAt # None /\ f.at - s.stableAt \in 0 .. GateTime
<1>. DEFINE b == Based(r, f)
            g == Gated(b, f)
<1>1. /\ s \in Observations /\ s.detection = c.detection /\ s.frames \in Nat
      /\ r.last = s.detection
  BY Bounds DEF Observes, Observations, ThumbDownAgrees
<1>2. /\ None \in Optional(Positions) /\ None \in Optional(Times) /\ 0 \in 0 .. MinFrames
      /\ f.at \in Optional(Times)
  BY Bounds DEF Optional
<1>3. /\ ThumbDownReset(r) \in ThumbDownRules /\ ThumbDownReset(r).last = r.last
      /\ ThumbDownReset(r).latched = FALSE /\ ThumbDownReset(r).run = 0
      /\ ThumbDownReset(r).base = None /\ ThumbDownReset(r).gate = None
  <2>1. /\ ThumbDownInit \in ThumbDownRules /\ ThumbDownInit.latched = FALSE
        /\ ThumbDownInit.run = 0 /\ ThumbDownInit.base = None /\ ThumbDownInit.gate = None
    BY <1>2 DEF ThumbDownInit, ThumbDownRules
  <2>2. r.last \in Optional(Times)
    BY DEF ThumbDownRules
  <2>. QED  BY <2>1, <2>2 DEF ThumbDownReset, ThumbDownRules
<1>4. CASE rule' = ThumbDownReset(r) /\ detected' = FALSE
  <2>1. Covers(s, rule'.base) /\ Covers(s, rule'.gate) /\ rule'.run <= s.frames
    BY <1>1, <1>3, <1>4 DEF Covers
  <2>. QED  BY <1>1, <1>3, <1>4, <2>1, KeptAfter DEF ThumbDownAgrees
<1>5. CASE f.pos # None /\ r.latched /\ ThumbDownLatched(b, f)
  <2>1. /\ b \in ThumbDownRules /\ b.gate = r.gate /\ b.last = r.last /\ b.latched = TRUE
    <3>. DEFINE base == IF r.base = None THEN f.pos ELSE Lower(r.base, f.pos)
    <3>1. base \in Optional(Positions)
      BY <1>5, BasedIn DEF ThumbDownRules
    <3>2. b = [r EXCEPT !.base = base]
      BY DEF Based
    <3>. HIDE DEF base, b
    <3>. QED  BY <1>5, <3>1, <3>2 DEF ThumbDownRules
  <2>2. r.gate # None
    BY <1>5 DEF ThumbDownAgrees
  <2>3. ThumbDownReset(b) = ThumbDownReset(r)
    BY <2>1 DEF ThumbDownReset
  <2>4. detected' = FALSE /\ (rule' = ThumbDownReset(r) \/ rule' = b)
    BY <1>5, <2>1, <2>2, <2>3 DEF ThumbDownLatched, Keep
  <2>. HIDE DEF b
  <2>5. CASE rule' = b
    BY <1>1, <2>1, <2>2, <2>4, <2>5, KeptAfter DEF ThumbDownAgrees
  <2>. QED  BY <1>4, <2>4, <2>5
<1>6. CASE f.pos # None /\ ~r.latched /\ ThumbDownOpen(g, f)
  <2>1. /\ g \in ThumbDownRules /\ g.last = r.last /\ g.latched = FALSE
        /\ Covers(s, g.base) /\ Covers(s, g.gate) /\ g.run <= s.frames
        /\ g.gate # None => /\ g.seen # None /\ s.stableAt # None
                            /\ g.seen <= s.stableAt /\ s.stableAt <= f.at
        /\ g.gate # None /\ f.pos - g.gate >= Threshold => s.travel >= Threshold
    BY <1>6, GateAgrees DEF Optional
  <2>. HIDE DEF g
  <2>2. CASE detected' = FALSE
    <3>1. \/ rule' = g
          \/ rule' = [g EXCEPT !.gate = None, !.seen = None]
          \/ g.gate # None /\ rule' = [g EXCEPT !.latched = TRUE]
      BY <1>6, <2>2 DEF ThumbDownOpen, ThumbDownFires, Keep, Emit
    <3>2. CASE rule' = g
      BY <1>1, <2>1, <2>2, <3>2, KeptAfter DEF ThumbDownAgrees
    <3>3. CASE rule' = [g EXCEPT !.gate = None, !.seen = None]
      <4>1. /\ rule' \in ThumbDownRules /\ rule'.last = r.last /\ rule'.latched = FALSE
            /\ rule'.base = g.base /\ rule'.gate = None /\ rule'.run = g.run
        BY <1>2, <2>1, <3>3 DEF ThumbDownRules
      <4>2. Covers(s, rule'.gate)
        BY <4>1 DEF Covers
      <4>. QED  BY <1>1, <2>1, <2>2, <4>1, <4>2, KeptAfter DEF ThumbDownAgrees
    <3>4. CASE g.gate # None /\ rule' = [g EXCEPT !.latched = TRUE]
      <4>1. /\ rule' \in ThumbDownRules /\ rule'.last = r.last /\ rule'.latched = TRUE
            /\ rule'.gate = g.gate
        BY <2>1, <3>4 DEF ThumbDownRules
      <4>. QED  BY <1>1, <2>2, <3>4, <4>1, KeptAfter DEF ThumbDownAgrees
    <3>. QED  BY <3>1, <3>2, <3>3, <3>4
  <2>3. CASE detected' # FALSE
    <3>1. /\ detected' = TRUE /\ g.gate # None /\ f.at >= g.seen
          /\ ~Stale(f, g.seen, GateTime) /\ ~Recent(f, g.last, Cooldown)
          /\ f.pos - g.gate >= Threshold
          /\ rule' = [g EXCEPT !.latched = TRUE, !.last = f.at]
      <4>1. g.gate # None => /\ g.gate \in Nat /\ f.pos \in Nat /\ Threshold \in Nat
                             /\ g.seen \in Nat /\ f.at \in Nat
        BY <1>6, <2>1, Bounds DEF ThumbDownRules, Optional
      <4>2. /\ detected' = TRUE /\ g.gate # None /\ ~(f.at < g.seen)
            /\ ~Stale(f, g.seen, GateTime) /\ ~Recent(f, g.last, Cooldown)
            /\ ~(f.pos - g.gate < Threshold)
            /\ rule' = [g EXCEPT !.latched = TRUE, !.last = f.at]
        BY <1>6, <2>3 DEF ThumbDownOpen, ThumbDownFires, Keep, Emit
      <4>. QED  BY <4>1, <4>2
    <3>2. /\ rule' \in ThumbDownRules /\ rule'.last = f.at /\ rule'.latched = TRUE
          /\ rule'.gate = g.gate
      BY <1>2, <2>1, <3>1 DEF ThumbDownRules
    <3>3. ThumbDownAgrees(rule', After(s, detected', f.at), f.at)
      BY <1>1, <3>1, <3>2, EmittedAfter DEF ThumbDownAgrees
    <3>4. /\ f.at \in Nat /\ g.seen \in Nat /\ s.stableAt \in Nat /\ GateTime \in Nat
          /\ Cooldown \in Nat /\ (r.last # None => r.last \in Nat)
      BY <1>1, <2>1, <3>1, Bounds DEF ThumbDownRules, Observations, Optional
    <3>5. r.last # None => f.at - r.last >= Cooldown
      BY <2>1, <3>1, <3>4 DEF Recent
    <3>6. f.at - s.stableAt \in 0 .. GateTime
      BY <2>1, <3>1, <3>4 DEF Stale
    <3>. QED  BY <1>1, <2>1, <3>1, <3>2, <3>3, <3>5, <3>6
  <2>. QED  BY <2>2, <2>3
<1>. QED  BY <1>4, <1>5, <1>6 DEF ThumbDown, Keep

-----------------------------------------------------------------------------
(* A palm that rotates *)

Rotating == motion \in {"rotate", "rotateConfirmed"}

LEMMA RotateStarts ==
    ASSUME NEW r \in RotateRules, NEW s, NEW t, r.last = s.detection
    PROVE  /\ RotateReset(r) \in RotateRules /\ RotateReset(r).last = r.last
           /\ RotateAgrees(RotateReset(r), s, t)
<1>1. None \in Optional(Positions) /\ None \in Optional(Times)
  BY DEF Optional
<1>2. /\ RotateInit \in RotateRules /\ RotateInit.base = None /\ RotateInit.latched = FALSE
      /\ RotateInit.pending = FALSE
  BY <1>1 DEF RotateInit, RotateRules
<1>3. r.last \in Optional(Times)
  BY DEF RotateRules
<1>4. /\ RotateReset(r) \in RotateRules /\ RotateReset(r).last = r.last
      /\ RotateReset(r).base = None /\ RotateReset(r).latched = FALSE
      /\ RotateReset(r).pending = FALSE
  BY <1>2, <1>3 DEF RotateReset, RotateRules
<1>. QED  BY <1>4 DEF RotateAgrees, Covers

\* Observing a frame changes nothing that an unchanged rule relies on.
LEMMA RotateStays ==
    ASSUME NEW r \in RotateRules, NEW c \in Observations, NEW s, NEW f, NEW t,
           Place(f) \in Optional(Nat), RotateAgrees(r, c, t), Observes(c, f, s)
    PROVE  RotateAgrees(r, s, t)
<1>1. r.base \in Optional(Positions) /\ s.detection = c.detection
  BY DEF RotateRules, Observes
<1>2. Covers(c, r.base) => Covers(s, r.base)
  BY <1>1, CoversStay
<1>3. c.travel >= Threshold => s.travel >= Threshold
  <2>1. s.travel >= c.travel
    BY DEF Observes, Observations
  <2>2. s.travel \in Nat /\ c.travel \in Nat /\ Threshold \in Nat
    BY Bounds DEF Observes, Observations
  <2>. QED  BY <2>1, <2>2
<1>. QED  BY <1>1, <1>2, <1>3 DEF RotateAgrees

LEMMA SettledAgrees ==
    ASSUME NEW r \in RotateRules, NEW s, NEW t, r.last = s.detection,
           r.base # None, r.hand # None
    PROVE  /\ Settled(r) \in RotateRules /\ Settled(r).latched = TRUE
           /\ Settled(r).pending = FALSE /\ Settled(r).base = r.base
           /\ Settled(r).hand = r.hand /\ RotateAgrees(Settled(r), s, t)
<1>1. /\ Settled(r) \in RotateRules /\ Settled(r).latched = TRUE /\ Settled(r).pending = FALSE
      /\ Settled(r).base = r.base /\ Settled(r).hand = r.hand /\ Settled(r).last = r.last
  BY DEF Settled, RotateRules
<1>. QED  BY <1>1 DEF RotateAgrees

LEMMA ConfirmedAgrees ==
    ASSUME NEW r \in RotateRules, NEW s \in Observations, NEW f, f.at \in Times,
           r.last = s.detection, r.base # None, r.hand # None, Confirmed(r, f)
    PROVE  /\ rule' \in RotateRules /\ detected' = TRUE
           /\ RotateAgrees(rule', After(s, detected', f.at), f.at)
<1>1. detected' = TRUE /\ rule' = [Settled(r) EXCEPT !.last = f.at]
  BY DEF Confirmed, Emit
<1>2. /\ Settled(r) \in RotateRules /\ Settled(r).latched = TRUE /\ Settled(r).pending = FALSE
      /\ Settled(r).base = r.base /\ Settled(r).hand = r.hand
  BY SettledAgrees
<1>3. f.at \in Optional(Times)
  BY DEF Optional
<1>4. /\ rule' \in RotateRules /\ rule'.latched = TRUE /\ rule'.pending = FALSE
      /\ rule'.base = r.base /\ rule'.hand = r.hand /\ rule'.last = f.at
  BY <1>1, <1>2, <1>3 DEF RotateRules
<1>. QED  BY <1>1, <1>4, EmittedAfter DEF RotateAgrees

\* A rule with the hand of this frame in it.
LEMMA RotateTurns ==
    ASSUME Rotating,
           NEW r \in RotateRules, NEW c \in Observations, NEW s, NEW f,
           f.at \in Times, f.pos \in Positions, r.hand # None,
           RotateAgrees(r, c, f.at), Observes(c, f, s), RotateTurned(r, f)
    PROVE  /\ rule' \in RotateRules /\ detected' \in BOOLEAN
           /\ RotateAgrees(rule', After(s, detected', f.at), f.at)
           /\ detected' => /\ c.detection # None => f.at - c.detection >= RotateCooldown
                           /\ s.travel >= Threshold
<1>1. /\ Place(f) = f.pos /\ Place(f) \in Optional(Nat) /\ f.pos \in Nat /\ f.pos # None
      /\ s \in Observations /\ s.detection = c.detection /\ r.last = c.detection
      /\ f.at \in Nat /\ f.at \in Optional(Times) /\ f.pos \in Optional(Positions)
  BY NoneApart DEF Rotating, Place, Optional, Observes, RotateAgrees
<1>2. RotateAgrees(r, s, f.at)
  BY <1>1, RotateStays
<1>3. Covers(s, f.pos)
  BY <1>1, CoversHere
\* A candidate that is dropped, or a movement that is refused.
<1>4. ASSUME r.base # None, rule' = Settled(r), detected' = FALSE
      PROVE  rule' \in RotateRules /\ RotateAgrees(rule', After(s, detected', f.at), f.at)
  <2>1. Settled(r) \in RotateRules /\ RotateAgrees(Settled(r), s, f.at)
    BY <1>1, <1>4, SettledAgrees
  <2>2. After(s, detected', f.at) = s
    BY <1>4, KeptAfter
  <2>. QED  BY <1>4, <2>1, <2>2
<1>5. CASE r.base = None
  <2>1. detected' = FALSE /\ rule' = [r EXCEPT !.base = f.pos, !.from = f.at]
    BY <1>5 DEF RotateTurned, Keep
  <2>2. ~r.latched /\ ~r.pending
    BY <1>5 DEF RotateAgrees
  <2>3. /\ rule' \in RotateRules /\ rule'.base = f.pos /\ rule'.latched = FALSE
        /\ rule'.pending = FALSE /\ rule'.last = r.last
    BY <1>1, <2>1, <2>2 DEF RotateRules
  <2>. QED  BY <1>1, <1>3, <2>1, <2>3, KeptAfter DEF RotateAgrees
<1>6. CASE r.base # None /\ r.pending
  <2>1. \/ rule' = Settled(r) /\ detected' = FALSE
        \/ Confirmed(r, f)
    BY <1>6 DEF RotateTurned, RotateConfirms, Keep
  <2>2. CASE rule' = Settled(r) /\ detected' = FALSE
    BY <1>4, <1>6, <2>2
  <2>3. CASE Confirmed(r, f)
    <3>1. s.travel >= Threshold /\ (r.last # None => f.at - r.last >= RotateCooldown)
      BY <1>2, <1>6 DEF RotateAgrees
    <3>. QED  BY <1>1, <1>6, <2>3, <3>1, ConfirmedAgrees
  <2>. QED  BY <2>1, <2>2, <2>3
<1>7. CASE r.base # None /\ ~r.pending /\ r.latched
  <2>1. /\ detected' = FALSE
        /\ \/ rule' = r
           \/ rule' = [r EXCEPT !.base = f.pos, !.from = f.at, !.latched = FALSE]
    BY <1>7 DEF RotateTurned, RotateLatched, Keep
  <2>2. CASE rule' = r
    BY <1>2, <2>1, <2>2, KeptAfter
  <2>3. CASE rule' = [r EXCEPT !.base = f.pos, !.from = f.at, !.latched = FALSE]
    <3>1. /\ rule' \in RotateRules /\ rule'.base = f.pos /\ rule'.latched = FALSE
          /\ rule'.pending = FALSE /\ rule'.last = r.last
      <4>. DEFINE m == [r EXCEPT !.base = f.pos, !.from = f.at]
      <4>1. m \in RotateRules /\ m.base = f.pos /\ m.pending = FALSE /\ m.last = r.last
        BY <1>1, <1>7 DEF RotateRules
      <4>2. rule' = [m EXCEPT !.latched = FALSE]
        BY <2>3
      <4>. HIDE DEF m
      <4>. QED  BY <4>1, <4>2 DEF RotateRules
    <3>. QED  BY <1>1, <1>3, <2>1, <3>1, KeptAfter DEF RotateAgrees
  <2>. QED  BY <2>1, <2>2, <2>3
<1>8. CASE r.base # None /\ ~r.pending /\ ~r.latched
  <2>1. /\ r.base \in Nat /\ Threshold \in Nat /\ Covers(c, r.base)
        /\ (r.last # None => r.last \in Nat) /\ RotateCooldown \in Nat
    BY <1>8, Bounds DEF RotateRules, RotateAgrees, Optional
  <2>2. \/ rule' = r /\ detected' = FALSE
        \/ rule' = Settled(r) /\ detected' = FALSE
        \/ /\ ~(f.pos - r.base < Threshold) /\ ~Recent(f, r.last, RotateCooldown)
           /\ \/ rule' = [r EXCEPT !.pending = TRUE] /\ detected' = FALSE
              \/ Confirmed(r, f)
    BY <1>8 DEF RotateTurned, RotateOpen, Keep
  <2>3. CASE rule' = r /\ detected' = FALSE
    BY <1>2, <2>3, KeptAfter
  <2>4. CASE rule' = Settled(r) /\ detected' = FALSE
    BY <1>4, <1>8, <2>4
  <2>5. ASSUME ~(f.pos - r.base < Threshold), ~Recent(f, r.last, RotateCooldown)
        PROVE  s.travel >= Threshold /\ (r.last # None => f.at - r.last >= RotateCooldown)
    <3>1. f.pos - r.base >= Threshold
      BY <1>1, <2>1, <2>5
    <3>2. r.last # None => f.at - r.last >= RotateCooldown
      BY <1>1, <2>1, <2>5 DEF Recent
    <3>. QED  BY <1>1, <2>1, <3>1, <3>2, TravelSeen
  <2>6. CASE /\ ~(f.pos - r.base < Threshold) /\ ~Recent(f, r.last, RotateCooldown)
             /\ rule' = [r EXCEPT !.pending = TRUE] /\ detected' = FALSE
    <3>1. /\ rule' \in RotateRules /\ rule'.base = r.base /\ rule'.latched = FALSE
          /\ rule'.pending = TRUE /\ rule'.last = r.last /\ rule'.hand = r.hand
      BY <1>8, <2>6 DEF RotateRules
    <3>2. Covers(s, r.base)
      BY <1>2, <1>8 DEF RotateAgrees
    <3>. QED  BY <1>1, <1>8, <2>5, <2>6, <3>1, <3>2, KeptAfter DEF RotateAgrees
  <2>7. CASE /\ ~(f.pos - r.base < Threshold) /\ ~Recent(f, r.last, RotateCooldown)
             /\ Confirmed(r, f)
    BY <1>1, <1>8, <2>5, <2>7, ConfirmedAgrees
  <2>. QED  BY <2>2, <2>3, <2>4, <2>6, <2>7
<1>. QED  BY <1>5, <1>6, <1>7, <1>8

LEMMA RotateStep ==
    ASSUME Rotating,
           NEW r \in RotateRules, NEW c \in Observations, NEW s, NEW f,
           f.at \in Times, f.pos \in Optional(Positions), f.hand \in BOOLEAN,
           ~f.hand => f.pos = None,
           RotateAgrees(r, c, f.at), Observes(c, f, s), Rotate(r, f)
    PROVE  /\ rule' \in RotateRules /\ detected' \in BOOLEAN
           /\ RotateAgrees(rule', After(s, detected', f.at), f.at)
           /\ detected' => /\ c.detection # None => f.at - c.detection >= RotateCooldown
                           /\ s.travel >= Threshold
<1>. DEFINE t == IF Stale(f, r.hand, Missing) THEN RotateReset(r) ELSE r
            u == [t EXCEPT !.hand = f.at]
<1>1. /\ Place(f) = f.pos /\ Place(f) \in Optional(Nat)
      /\ s \in Observations /\ s.detection = c.detection /\ r.last = c.detection
      /\ f.at \in Optional(Times) /\ f.at # None
  BY NoneApart DEF Rotating, Place, Optional, Observes, RotateAgrees
<1>2. RotateAgrees(r, s, f.at)
  BY <1>1, RotateStays
<1>3. /\ RotateReset(r) \in RotateRules /\ RotateReset(r).last = r.last
      /\ RotateAgrees(RotateReset(r), s, f.at) /\ RotateAgrees(RotateReset(r), c, f.at)
  BY <1>1, RotateStarts
<1>4. t \in RotateRules /\ RotateAgrees(t, s, f.at) /\ RotateAgrees(t, c, f.at)
  BY <1>2, <1>3
<1>5. \/ ~f.hand /\ RotateUnseen(r, f)
      \/ f.hand /\ f.pos = None /\ rule' = t /\ detected' = FALSE
      \/ f.hand /\ f.pos # None /\ RotateTurned(u, f)
  BY DEF Rotate, Keep
<1>. HIDE DEF t
<1>6. CASE ~f.hand /\ RotateUnseen(r, f)
  <2>1. \/ rule' = RotateReset(r) /\ detected' = FALSE
        \/ r.pending /\ Confirmed(r, f)
        \/ rule' = r /\ detected' = FALSE
    BY <1>6 DEF RotateUnseen, Keep
  <2>2. CASE r.pending /\ Confirmed(r, f)
    <3>1. /\ r.base # None /\ r.hand # None /\ s.travel >= Threshold
          /\ r.last # None => f.at - r.last >= RotateCooldown
      BY <1>2, <2>2 DEF RotateAgrees
    <3>. QED  BY <1>1, <2>2, <3>1, ConfirmedAgrees
  <2>. QED  BY <1>2, <1>3, <2>1, <2>2, KeptAfter
<1>7. CASE f.hand /\ f.pos = None /\ rule' = t /\ detected' = FALSE
  BY <1>4, <1>7, KeptAfter
<1>8. CASE f.hand /\ f.pos # None /\ RotateTurned(u, f)
  <2>1. /\ u \in RotateRules /\ u.hand = f.at /\ u.base = t.base /\ u.last = t.last
        /\ u.latched = t.latched /\ u.pending = t.pending
    BY <1>1, <1>4 DEF RotateRules
  <2>. HIDE DEF u
  <2>2. u.hand # None /\ RotateAgrees(u, c, f.at)
    BY <1>1, <1>4, <2>1 DEF RotateAgrees
  <2>3. f.pos \in Positions
    BY <1>8 DEF Optional
  <2>. QED  BY <1>8, <2>1, <2>2, <2>3, RotateTurns
<1>. QED  BY <1>5, <1>6, <1>7, <1>8

-----------------------------------------------------------------------------
(* The engine *)

LEMMA AfterIn ==
    ASSUME NEW s \in Observations, NEW d \in BOOLEAN, NEW t, d => t \in Times
    PROVE  After(s, d, t) \in Observations
<1>1. CASE d = FALSE
  BY <1>1 DEF After
<1>2. CASE d = TRUE
  <2>1. t \in Optional(Times) /\ None \in Optional(Nat)
    BY <1>2 DEF Optional
  <2>. DEFINE m == [s EXCEPT !.detection = t, !.reset = FALSE]
  <2>2. m \in Observations
    BY <2>1 DEF Observations
  <2>3. After(s, d, t) = [m EXCEPT !.lowest = None, !.travel = 0]
    BY <1>2 DEF After
  <2>. HIDE DEF m
  <2>4. [m EXCEPT !.lowest = None, !.travel = 0] \in Observations
    BY <2>1, <2>2 DEF Observations
  <2>. QED  BY <2>3, <2>4
<1>. QED  BY <1>1, <1>2

\* A gap takes the rule and the observer back, but for the last detection.
LEMMA ResetAgrees ==
    ASSUME motion \in Motions, rule \in RulesOf, NEW a \in Observations, NEW t, NEW u,
           Agrees(rule, a, t)
    PROVE  Reset(rule) \in RulesOf /\ Agrees(Reset(rule), Broken(a), u)
<1>. DEFINE b == Broken(a)
<1>1. /\ b \in Observations /\ b.detection = a.detection /\ b.reset = TRUE
      /\ b.since = None /\ b.frames = 0
  BY BrokenFields
<1>. HIDE DEF b
<1>2. /\ None \in Optional(Positions) /\ None \in Optional(Times) /\ 0 \in Positions
      /\ 0 \in 0 .. MinFrames /\ 0 <= b.frames
  BY <1>1, Bounds DEF Optional, Positions
<1>3. CASE motion = "raised"
  <2>1. Reset(rule) = [RaisedInit EXCEPT !.last = rule.last]
    BY <1>3 DEF Reset, RuleInit
  <2>2. rule.last \in Optional(Times) /\ rule.last = a.detection
    BY <1>3 DEF RulesOf, RaisedRules, Agrees, RaisedAgrees
  <2>3. /\ RaisedInit \in RaisedRules /\ RaisedInit.since = None /\ RaisedInit.latched = FALSE
    BY <1>2 DEF RaisedInit, RaisedRules
  <2>4. /\ Reset(rule) \in RaisedRules /\ Reset(rule).last = rule.last
        /\ Reset(rule).since = None /\ Reset(rule).latched = FALSE
    BY <2>1, <2>2, <2>3 DEF RaisedRules
  <2>5. RaisedAgrees(Reset(rule), b)
    BY <1>1, <2>2, <2>4 DEF RaisedAgrees
  <2>. QED  BY <1>3, <2>4, <2>5 DEF RulesOf, Agrees, b
<1>4. CASE motion = "swipe"
  <2>1. Reset(rule) = SwipeInit
    BY <1>4 DEF Reset, RuleInit
  <2>2. SwipeInit \in SwipeRules /\ SwipeAgrees(SwipeInit, b)
    BY <1>2 DEF SwipeInit, SwipeRules, SwipeAgrees, Covers
  <2>. QED  BY <1>4, <2>1, <2>2 DEF RulesOf, Agrees, b
<1>5. CASE motion = "snap"
  <2>1. Reset(rule) = SnapInit
    BY <1>5 DEF Reset, RuleInit
  <2>2. SnapInit \in SnapRules /\ SnapAgrees(SnapInit, b)
    BY <1>1, <1>2 DEF SnapInit, SnapRules, SnapAgrees
  <2>. QED  BY <1>5, <2>1, <2>2 DEF RulesOf, Agrees, b
<1>6. CASE motion = "thumbUp"
  <2>1. Reset(rule) = [ThumbUpInit EXCEPT !.last = rule.last]
    BY <1>6 DEF Reset, RuleInit
  <2>2. rule.last \in Optional(Times) /\ rule.last = a.detection
    BY <1>6 DEF RulesOf, ThumbUpRules, Agrees, ThumbUpAgrees
  <2>3. /\ ThumbUpInit \in ThumbUpRules /\ ThumbUpInit.base = None
        /\ ThumbUpInit.latched = FALSE /\ ThumbUpInit.run = 0
    BY <1>2 DEF ThumbUpInit, ThumbUpRules
  <2>4. /\ Reset(rule) \in ThumbUpRules /\ Reset(rule).last = rule.last
        /\ Reset(rule).base = None /\ Reset(rule).latched = FALSE /\ Reset(rule).run = 0
    BY <2>1, <2>2, <2>3 DEF ThumbUpRules
  <2>5. ThumbUpAgrees(Reset(rule), b)
    BY <1>1, <1>2, <2>2, <2>4 DEF ThumbUpAgrees, Covers
  <2>. QED  BY <1>6, <2>4, <2>5 DEF RulesOf, Agrees, b
<1>7. CASE motion = "thumbDown"
  <2>1. Reset(rule) = [ThumbDownInit EXCEPT !.last = rule.last]
    BY <1>7 DEF Reset, RuleInit
  <2>2. rule.last \in Optional(Times) /\ rule.last = a.detection
    BY <1>7 DEF RulesOf, ThumbDownRules, Agrees, ThumbDownAgrees
  <2>3. /\ ThumbDownInit \in ThumbDownRules /\ ThumbDownInit.base = None
        /\ ThumbDownInit.gate = None /\ ThumbDownInit.latched = FALSE /\ ThumbDownInit.run = 0
    BY <1>2 DEF ThumbDownInit, ThumbDownRules
  <2>4. /\ Reset(rule) \in ThumbDownRules /\ Reset(rule).last = rule.last
        /\ Reset(rule).base = None /\ Reset(rule).gate = None
        /\ Reset(rule).latched = FALSE /\ Reset(rule).run = 0
    BY <2>1, <2>2, <2>3 DEF ThumbDownRules
  <2>5. ThumbDownAgrees(Reset(rule), b, u)
    BY <1>1, <1>2, <2>2, <2>4 DEF ThumbDownAgrees, Covers
  <2>. QED  BY <1>7, <2>4, <2>5 DEF RulesOf, Agrees, b
<1>8. CASE motion = "clap"
  <2>1. Reset(rule) = ClapInit
    BY <1>8 DEF Reset, RuleInit
  <2>2. ClapInit \in ClapRules /\ ClapAgrees(ClapInit, b)
    BY <1>2 DEF ClapInit, ClapRules, ClapAgrees
  <2>. QED  BY <1>8, <2>1, <2>2 DEF RulesOf, Agrees, b
<1>9. CASE motion = "fist"
  <2>1. Reset(rule) = FistInit
    BY <1>9 DEF Reset, RuleInit
  <2>2. FistInit \in FistRules /\ FistAgrees(FistInit, b)
    BY <1>2 DEF FistInit, FistRules, FistAgrees, Covers
  <2>. QED  BY <1>9, <2>1, <2>2 DEF RulesOf, Agrees, b
<1>10. CASE Rotating
  <2>1. Reset(rule) = RotateReset(rule)
    BY <1>10 DEF Rotating, Reset, RuleInit, RotateReset
  <2>2. rule \in RotateRules /\ rule.last = a.detection
    BY <1>10 DEF Rotating, RulesOf, Agrees, RotateAgrees
  <2>3. RotateReset(rule) \in RotateRules /\ RotateAgrees(RotateReset(rule), b, u)
    BY <1>1, <2>2, RotateStarts
  <2>. QED  BY <1>10, <2>1, <2>3 DEF Rotating, RulesOf, Agrees, b
<1>. QED
  BY <1>3, <1>4, <1>5, <1>6, <1>7, <1>8, <1>9, <1>10 DEF Motions, Rotating

\* Without a gap only time passes.
LEMMA TimeAgrees ==
    ASSUME EngineInv, NEW t \in Times, lastAt # None => lastAt <= t
    PROVE  Agrees(rule, After(seen, detected, lastAt), t)
<1>. DEFINE a == After(seen, detected, lastAt)
<1>1. a \in Observations /\ Agrees(rule, a, lastAt)
  BY AfterIn DEF EngineInv, Optional
<1>. HIDE DEF a
<1>2. t \in Nat /\ (lastAt # None => lastAt \in Nat)
  BY Bounds DEF EngineInv, Optional
<1>3. CASE motion = "thumbDown"
  <2>1. rule \in ThumbDownRules /\ ThumbDownAgrees(rule, a, lastAt)
    BY <1>1, <1>3 DEF EngineInv, RulesOf, Agrees
  <2>2. rule.gate # None => a.stableAt <= t \/ rule.latched
    <3>1. CASE lastAt = None
      <4>1. rule.gate = None
        BY <1>3, <3>1 DEF EngineInv, RuleInit, ThumbDownInit
      <4>. QED  BY <4>1
    <3>2. CASE lastAt # None
      <4>1. rule.gate # None /\ ~rule.latched => a.stableAt \in Nat /\ a.stableAt <= lastAt
        BY <1>1, <2>1, Bounds DEF ThumbDownAgrees, Observations, Optional
      <4>. QED  BY <1>2, <3>2, <4>1
    <3>. QED  BY <3>1, <3>2
  <2>3. ThumbDownAgrees(rule, a, t)
    BY <2>1, <2>2 DEF ThumbDownAgrees
  <2>. QED  BY <1>3, <2>3 DEF Agrees, a
<1>4. CASE Rotating
  <2>1. rule \in RotateRules /\ RotateAgrees(rule, a, lastAt)
    BY <1>1, <1>4 DEF EngineInv, RulesOf, Agrees, Rotating
  <2>2. rule.pending /\ rule.last # None => t - rule.last >= RotateCooldown
    <3>1. CASE lastAt = None
      <4>1. rule.pending = FALSE
        BY <1>4, <3>1 DEF EngineInv, RuleInit, RotateInit, Rotating
      <4>. QED  BY <4>1
    <3>2. CASE lastAt # None
      <4>1. rule.pending /\ rule.last # None =>
               rule.last \in Nat /\ lastAt - rule.last >= RotateCooldown
        BY <2>1, Bounds DEF RotateAgrees, RotateRules, Optional
      <4>. QED  BY <1>2, <3>2, <4>1, Bounds
    <3>. QED  BY <3>1, <3>2
  <2>3. RotateAgrees(rule, a, t)
    BY <2>1, <2>2 DEF RotateAgrees
  <2>. QED  BY <1>4, <2>3 DEF Agrees, a, Rotating
<1>5. CASE motion \in {"raised", "swipe", "snap", "thumbUp", "clap", "fist"}
  BY <1>1, <1>5 DEF Agrees, a
<1>. QED  BY <1>3, <1>4, <1>5 DEF EngineInv, Motions, Rotating

LEMMA FrameResumes ==
    ASSUME EngineInv, NEW f, f.at \in Times
    PROVE  LET r == IF Interrupted(f) THEN Reset(rule) ELSE rule
           IN r \in RulesOf /\ Continued(f) \in Observations /\ Agrees(r, Continued(f), f.at)
<1>. DEFINE a == After(seen, detected, lastAt)
<1>1. a \in Observations /\ Agrees(rule, a, lastAt)
  BY AfterIn DEF EngineInv, Optional
<1>2. Continued(f) = IF Follows(f) THEN a ELSE Broken(a)
  BY DEF Continued, After, Broken
<1>3. f.at \in Nat /\ Gap \in Nat /\ (lastAt # None => lastAt \in Nat)
  BY Bounds DEF EngineInv, Optional
<1>. HIDE DEF a
<1>4. CASE Interrupted(f)
  <2>1. ~Follows(f)
    BY <1>3, <1>4 DEF Interrupted, Follows
  <2>2. Broken(a) \in Observations
    BY <1>1, BrokenFields
  <2>. QED  BY <1>1, <1>2, <1>4, <2>1, <2>2, ResetAgrees DEF EngineInv
<1>5. CASE ~Interrupted(f)
  <2>1. Follows(f) /\ (lastAt # None => lastAt <= f.at)
    BY <1>3, <1>5 DEF Interrupted, Follows
  <2>2. Agrees(rule, a, f.at)
    BY <2>1, TimeAgrees DEF a
  <2>. QED  BY <1>1, <1>2, <1>5, <2>1, <2>2 DEF EngineInv
<1>. QED  BY <1>4, <1>5

LEMMA FrameFields ==
    ASSUME motion \in Motions, NEW at \in Times, NEW f \in Frames[motion][at]
    PROVE  /\ f.at \in Times
           /\ motion = "raised" => f.up \in BOOLEAN
           /\ motion = "snap" => f.shape \in {"none", "ready", "released", "other"}
           /\ motion = "thumbUp" => f.shape \in {"thumb", "palm", "other"}
           /\ motion \notin {"raised", "snap"} => f.pos \in Optional(Positions)
           /\ Rotating => f.hand \in BOOLEAN /\ (~f.hand => f.pos = None)
           /\ Place(f) \in Optional(Nat)
<1>1. /\ f \in FramesOf(motion, at)
      /\ Rotating /\ ~f.hand => f.pos = None
  BY DEF Frames, Rotating
<1>2. f.at \in Times
  BY <1>1 DEF FramesOf
<1>3. motion = "raised" => f.up \in BOOLEAN
  BY <1>1 DEF FramesOf
<1>4. motion = "snap" => f.shape \in {"none", "ready", "released", "other"}
  BY <1>1 DEF FramesOf
<1>5. motion = "thumbUp" => f.shape \in {"thumb", "palm", "other"}
  BY <1>1 DEF FramesOf
<1>6. motion \notin {"raised", "snap"} => f.pos \in Optional(Positions)
  BY <1>1 DEF FramesOf, Motions
<1>7. Rotating => f.hand \in BOOLEAN
  BY <1>1 DEF FramesOf, Rotating
<1>8. Place(f) \in Optional(Nat)
  <2>1. CASE motion \in {"raised", "snap"}
    BY <2>1, Bounds DEF Place, Optional
  <2>2. CASE motion \notin {"raised", "snap"}
    BY <1>6, <2>2, Bounds DEF Place, Optional
  <2>. QED  BY <2>1, <2>2
<1>. QED  BY <1>1, <1>2, <1>3, <1>4, <1>5, <1>6, <1>7, <1>8

\* What the three properties of a detection come to for the kind of the rule.
DetectionOK == DuplicateGuard /\ OneMovementOneDetection /\ PoseIsSteady

LEMMA FrameKeeps ==
    ASSUME EngineInv, NEW at \in Times, NEW f \in Frames[motion][at], Frame(f)
    PROVE  EngineInv' /\ DetectionOK'
<1>. DEFINE r == IF Interrupted(f) THEN Reset(rule) ELSE rule
            c == Continued(f)
<1>1. /\ f.at \in Times /\ f.at # None /\ f.at \in Optional(Times)
      /\ motion = "raised" => f.up \in BOOLEAN
      /\ motion = "snap" => f.shape \in {"none", "ready", "released", "other"}
      /\ motion = "thumbUp" => f.shape \in {"thumb", "palm", "other"}
      /\ motion \notin {"raised", "snap"} => f.pos \in Optional(Positions)
      /\ Rotating => f.hand \in BOOLEAN /\ (~f.hand => f.pos = None)
      /\ Place(f) \in Optional(Nat) /\ motion \in Motions
  BY FrameFields, NoneApart DEF EngineInv, Optional
<1>2. /\ Update(r, f) /\ lastAt' = f.at /\ motion' = motion
      /\ seen' = Held(Moved(c, f), f)
  BY DEF Frame
<1>3. r \in RulesOf /\ c \in Observations /\ Agrees(r, c, f.at)
  BY <1>1, FrameResumes
<1>. HIDE DEF r, c
<1>4. Observes(c, f, seen')
  BY <1>1, <1>2, <1>3, ObserverKnows
<1>5. /\ seen' \in Observations /\ seen'.detection = c.detection /\ seen'.reset = c.reset
  BY <1>4 DEF Observes
\* What is left to show for each kind of rule.
<1>6. ASSUME rule' \in RulesOf, detected' \in BOOLEAN,
             Agrees(rule', After(seen', detected', f.at), f.at)
      PROVE  EngineInv'
  <2>1. rule' \in RulesOf' /\ RulesOf' = RulesOf
    BY <1>2, <1>6 DEF RulesOf
  <2>2. Agrees(rule, After(seen, detected, lastAt), lastAt)'
    BY <1>2, <1>6 DEF Agrees
  <2>. QED  BY <1>1, <1>2, <1>5, <1>6, <2>1, <2>2 DEF EngineInv
<1>7. CASE motion = "raised"
  <2>1. r \in RaisedRules /\ RaisedAgrees(r, c) /\ Raised(r, f)
    BY <1>2, <1>3, <1>7 DEF RulesOf, Agrees, Update
  <2>2. /\ rule' \in RaisedRules /\ detected' \in BOOLEAN
        /\ RaisedAgrees(rule', After(seen', detected', f.at))
        /\ detected' => /\ c.detection # None => f.at - c.detection >= Cooldown
                        /\ seen'.travel >= Threshold \/ c.reset \/ c.detection = None
                        /\ seen'.since # None /\ f.at - seen'.since >= Hold
    BY <1>1, <1>3, <1>4, <1>7, <2>1, RaisedStep
  <2>3. EngineInv'
    BY <1>6, <1>7, <2>2 DEF RulesOf, Agrees
  <2>4. DetectionOK'
    BY <1>2, <1>5, <1>7, <2>2 DEF DetectionOK, DuplicateGuard, Guard,
                                  OneMovementOneDetection, PoseIsSteady
  <2>. QED  BY <2>3, <2>4
<1>8. CASE motion = "swipe"
  <2>1. r \in SwipeRules /\ SwipeAgrees(r, c) /\ Swipe(r, f)
    BY <1>2, <1>3, <1>8 DEF RulesOf, Agrees, Update
  <2>2. /\ rule' \in SwipeRules /\ detected' \in BOOLEAN
        /\ SwipeAgrees(rule', After(seen', detected', f.at))
        /\ detected' => seen'.travel >= Threshold
    BY <1>1, <1>3, <1>4, <1>8, <2>1, SwipeStep
  <2>3. EngineInv'
    BY <1>6, <1>8, <2>2 DEF RulesOf, Agrees
  <2>4. DetectionOK'
    <3>1. Guard' = 0
      BY <1>2, <1>8 DEF Guard
    <3>. QED  BY <1>2, <1>8, <2>2, <3>1 DEF DetectionOK, DuplicateGuard,
                                         OneMovementOneDetection, PoseIsSteady
  <2>. QED  BY <2>3, <2>4
<1>9. CASE motion = "snap"
  <2>1. r \in SnapRules /\ SnapAgrees(r, c) /\ Snap(r, f)
    BY <1>2, <1>3, <1>9 DEF RulesOf, Agrees, Update
  <2>2. /\ rule' \in SnapRules /\ detected' \in BOOLEAN
        /\ SnapAgrees(rule', After(seen', detected', f.at))
        /\ detected' => /\ c.detection # None /\ ~c.reset => f.at - c.detection >= SnapGuard
                        /\ seen'.travel >= Threshold
    BY <1>1, <1>3, <1>4, <1>9, <2>1, SnapStep
  <2>3. EngineInv'
    BY <1>6, <1>9, <2>2 DEF RulesOf, Agrees
  <2>4. DetectionOK'
    BY <1>2, <1>5, <1>9, <2>2 DEF DetectionOK, DuplicateGuard, Guard,
                                  OneMovementOneDetection, PoseIsSteady
  <2>. QED  BY <2>3, <2>4
<1>10. CASE motion = "thumbUp"
  <2>1. r \in ThumbUpRules /\ ThumbUpAgrees(r, c) /\ ThumbUp(r, f)
    BY <1>2, <1>3, <1>10 DEF RulesOf, Agrees, Update
  <2>2. /\ rule' \in ThumbUpRules /\ detected' \in BOOLEAN
        /\ ThumbUpAgrees(rule', After(seen', detected', f.at))
        /\ detected' => /\ c.detection # None => f.at - c.detection >= Cooldown
                        /\ seen'.travel >= Threshold
                        /\ seen'.frames = MinFrames
    BY <1>1, <1>3, <1>4, <1>10, <2>1, ThumbUpStep
  <2>3. EngineInv'
    BY <1>6, <1>10, <2>2 DEF RulesOf, Agrees
  <2>4. DetectionOK'
    BY <1>2, <1>5, <1>10, <2>2 DEF DetectionOK, DuplicateGuard, Guard,
                                   OneMovementOneDetection, PoseIsSteady
  <2>. QED  BY <2>3, <2>4
<1>11. CASE motion = "thumbDown"
  <2>1. r \in ThumbDownRules /\ ThumbDownAgrees(r, c, f.at) /\ ThumbDown(r, f)
    BY <1>2, <1>3, <1>11 DEF RulesOf, Agrees, Update
  <2>2. /\ rule' \in ThumbDownRules /\ detected' \in BOOLEAN
        /\ ThumbDownAgrees(rule', After(seen', detected', f.at), f.at)
        /\ detected' => /\ c.detection # None => f.at - c.detection >= Cooldown
                        /\ seen'.travel >= Threshold
                        /\ seen'.stableAt # None /\ f.at - seen'.stableAt \in 0 .. GateTime
    BY <1>1, <1>3, <1>4, <1>11, <2>1, ThumbDownStep
  <2>3. EngineInv'
    BY <1>6, <1>11, <2>2 DEF RulesOf, Agrees
  <2>4. DetectionOK'
    BY <1>2, <1>5, <1>11, <2>2 DEF DetectionOK, DuplicateGuard, Guard,
                                   OneMovementOneDetection, PoseIsSteady
  <2>. QED  BY <2>3, <2>4
<1>12. CASE motion = "clap"
  <2>1. r \in ClapRules /\ ClapAgrees(r, c) /\ Clap(r, f)
    BY <1>2, <1>3, <1>12 DEF RulesOf, Agrees, Update
  <2>2. /\ rule' \in ClapRules /\ detected' \in BOOLEAN
        /\ ClapAgrees(rule', After(seen', detected', f.at))
        /\ detected' => seen'.travel >= Threshold
    BY <1>1, <1>3, <1>4, <1>12, <2>1, ClapStep
  <2>3. EngineInv'
    BY <1>6, <1>12, <2>2 DEF RulesOf, Agrees
  <2>4. DetectionOK'
    <3>1. Guard' = 0
      BY <1>2, <1>12 DEF Guard
    <3>. QED  BY <1>2, <1>12, <2>2, <3>1 DEF DetectionOK, DuplicateGuard,
                                         OneMovementOneDetection, PoseIsSteady
  <2>. QED  BY <2>3, <2>4
<1>13. CASE motion = "fist"
  <2>1. r \in FistRules /\ FistAgrees(r, c) /\ Fist(r, f)
    BY <1>2, <1>3, <1>13 DEF RulesOf, Agrees, Update
  <2>2. /\ rule' \in FistRules /\ detected' \in BOOLEAN
        /\ FistAgrees(rule', After(seen', detected', f.at))
        /\ detected' => seen'.travel >= Threshold
    BY <1>1, <1>3, <1>4, <1>13, <2>1, FistStep
  <2>3. EngineInv'
    BY <1>6, <1>13, <2>2 DEF RulesOf, Agrees
  <2>4. DetectionOK'
    <3>1. Guard' = 0
      BY <1>2, <1>13 DEF Guard
    <3>. QED  BY <1>2, <1>13, <2>2, <3>1 DEF DetectionOK, DuplicateGuard,
                                         OneMovementOneDetection, PoseIsSteady
  <2>. QED  BY <2>3, <2>4
<1>14. CASE Rotating
  <2>1. r \in RotateRules /\ RotateAgrees(r, c, f.at) /\ Rotate(r, f)
    BY <1>2, <1>3, <1>14 DEF RulesOf, Agrees, Update, Rotating
  <2>2. /\ rule' \in RotateRules /\ detected' \in BOOLEAN
        /\ RotateAgrees(rule', After(seen', detected', f.at), f.at)
        /\ detected' => /\ c.detection # None => f.at - c.detection >= RotateCooldown
                        /\ seen'.travel >= Threshold
    BY <1>1, <1>3, <1>4, <1>14, <2>1, RotateStep DEF Rotating
  <2>3. EngineInv'
    BY <1>6, <1>14, <2>2 DEF RulesOf, Agrees, Rotating
  <2>4. DetectionOK'
    BY <1>2, <1>5, <1>14, <2>2 DEF DetectionOK, DuplicateGuard, Guard,
                                   OneMovementOneDetection, PoseIsSteady, Rotating
  <2>. QED  BY <2>3, <2>4
<1>. QED
  BY <1>1, <1>7, <1>8, <1>9, <1>10, <1>11, <1>12, <1>13, <1>14 DEF Motions, Rotating

-----------------------------------------------------------------------------
(* The theorems *)

LEMMA EngineStarts == Init => EngineInv /\ DetectionOK
<1>. SUFFICES ASSUME Init PROVE EngineInv /\ DetectionOK
  OBVIOUS
<1>1. /\ motion \in Motions /\ rule = RuleInit /\ detected = FALSE /\ lastAt = None
      /\ seen = Unseen
  BY DEF Init
<1>2. DetectionOK
  BY <1>1 DEF DetectionOK, DuplicateGuard, OneMovementOneDetection, PoseIsSteady
<1>3. /\ None \in Optional(Positions) /\ None \in Optional(Times) /\ None \in Optional(Nat)
      /\ 0 \in Positions /\ 0 \in 0 .. MinFrames /\ 0 <= 0
  BY Bounds DEF Optional, Positions
<1>4. /\ Unseen \in Observations /\ Unseen.detection = None /\ Unseen.reset = FALSE
      /\ Unseen.since = None /\ Unseen.frames = 0
  BY <1>3 DEF Unseen, Observations
<1>5. After(seen, detected, lastAt) = Unseen
  BY <1>1 DEF After
<1>6. rule \in RulesOf /\ Agrees(rule, Unseen, lastAt)
  <2>1. CASE motion = "raised"
    <3>1. RaisedInit \in RaisedRules /\ RaisedAgrees(RaisedInit, Unseen)
      BY <1>3, <1>4 DEF RaisedInit, RaisedRules, RaisedAgrees
    <3>. QED  BY <1>1, <2>1, <3>1 DEF RuleInit, RulesOf, Agrees
  <2>2. CASE motion = "swipe"
    <3>1. SwipeInit \in SwipeRules /\ SwipeAgrees(SwipeInit, Unseen)
      BY <1>3 DEF SwipeInit, SwipeRules, SwipeAgrees, Covers
    <3>. QED  BY <1>1, <2>2, <3>1 DEF RuleInit, RulesOf, Agrees
  <2>3. CASE motion = "snap"
    <3>1. SnapInit \in SnapRules /\ SnapAgrees(SnapInit, Unseen)
      BY <1>3, <1>4 DEF SnapInit, SnapRules, SnapAgrees
    <3>. QED  BY <1>1, <2>3, <3>1 DEF RuleInit, RulesOf, Agrees
  <2>4. CASE motion = "thumbUp"
    <3>1. ThumbUpInit \in ThumbUpRules /\ ThumbUpAgrees(ThumbUpInit, Unseen)
      BY <1>3, <1>4 DEF ThumbUpInit, ThumbUpRules, ThumbUpAgrees, Covers
    <3>. QED  BY <1>1, <2>4, <3>1 DEF RuleInit, RulesOf, Agrees
  <2>5. CASE motion = "thumbDown"
    <3>1. ThumbDownInit \in ThumbDownRules /\ ThumbDownAgrees(ThumbDownInit, Unseen, lastAt)
      BY <1>3, <1>4 DEF ThumbDownInit, ThumbDownRules, ThumbDownAgrees, Covers
    <3>. QED  BY <1>1, <2>5, <3>1 DEF RuleInit, RulesOf, Agrees
  <2>6. CASE motion = "clap"
    <3>1. ClapInit \in ClapRules /\ ClapAgrees(ClapInit, Unseen)
      BY <1>3 DEF ClapInit, ClapRules, ClapAgrees
    <3>. QED  BY <1>1, <2>6, <3>1 DEF RuleInit, RulesOf, Agrees
  <2>7. CASE motion = "fist"
    <3>1. FistInit \in FistRules /\ FistAgrees(FistInit, Unseen)
      BY <1>3 DEF FistInit, FistRules, FistAgrees, Covers
    <3>. QED  BY <1>1, <2>7, <3>1 DEF RuleInit, RulesOf, Agrees
  <2>8. CASE Rotating
    <3>1. RotateInit \in RotateRules /\ RotateAgrees(RotateInit, Unseen, lastAt)
      BY <1>3, <1>4 DEF RotateInit, RotateRules, RotateAgrees, Covers
    <3>. QED  BY <1>1, <2>8, <3>1 DEF RuleInit, RulesOf, Agrees, Rotating
  <2>. QED
    BY <1>1, <2>1, <2>2, <2>3, <2>4, <2>5, <2>6, <2>7, <2>8 DEF Motions, Rotating
<1>. QED  BY <1>1, <1>2, <1>3, <1>4, <1>5, <1>6 DEF EngineInv

LEMMA EngineSteps ==
    EngineInv /\ DetectionOK /\ [Next]_vars => EngineInv' /\ DetectionOK'
<1>. SUFFICES ASSUME EngineInv, DetectionOK, [Next]_vars PROVE EngineInv' /\ DetectionOK'
  OBVIOUS
<1>1. CASE Next
  BY <1>1, FrameKeeps DEF Next
<1>2. CASE UNCHANGED vars
  BY <1>2 DEF vars, EngineInv, DetectionOK, RulesOf, RuleInit, Agrees, DuplicateGuard, Guard,
              OneMovementOneDetection, PoseIsSteady
<1>. QED  BY <1>1, <1>2

\* A rule keeps to the observer: what it measures a movement by was seen since the last
\* detection, and a cooldown is counted from that detection (gestures/rules.py).
THEOREM EngineInvariant == Spec => [](EngineInv /\ DetectionOK)
  BY EngineStarts, EngineSteps, PTL DEF Spec

\* The fields of a rule, and that a latch never outlives what its release is measured by
\* (gestures/rules.py:1538).
THEOREM EngineTypes == Spec => []EngineTypeOK
<1>1. EngineInv => EngineTypeOK
  <2>. SUFFICES ASSUME EngineInv PROVE EngineTypeOK
    OBVIOUS
  <2>1. RuleTypeOK
    BY DEF EngineInv, RulesOf, RuleTypeOK, RaisedRules, SwipeRules, SnapRules, ThumbUpRules,
           ThumbDownRules, ClapRules, FistRules, RotateRules
  <2>2. rule.latched =>
          CASE motion = "swipe" -> rule.start # None
            [] motion = "thumbUp" -> rule.base # None
            [] motion = "thumbDown" -> rule.gate # None
            [] motion \in {"rotate", "rotateConfirmed"} ->
                  rule.base # None /\ rule.hand # None /\ ~rule.pending
            [] OTHER -> TRUE
    BY DEF EngineInv, Agrees, SwipeAgrees, ThumbUpAgrees, ThumbDownAgrees, RotateAgrees
  <2>. QED  BY <2>1, <2>2 DEF EngineInv, EngineTypeOK
<1>. QED  BY <1>1, EngineInvariant, PTL

\* Two detections of a raised hand, a thumb, a rotation or a snap are as far apart as the
\* rule's guard asks (recognition/README.md:121, 139, 151).
THEOREM DetectionsGuarded == Spec => []DuplicateGuard
<1>1. DetectionOK => DuplicateGuard
  BY DEF DetectionOK
<1>. QED  BY <1>1, EngineInvariant, PTL

\* Between two detections of a swipe, a thumb, a rotation or a snap the gesture's whole
\* movement is seen again, also across a gap; a raised hand is detected once until it
\* is lowered, as long as its frames follow each other without a gap
\* (recognition/README.md:151-152).
THEOREM MovementsCountOnce == Spec => []OneMovementOneDetection
<1>1. DetectionOK => OneMovementOneDetection
  BY DEF DetectionOK
<1>. QED  BY <1>1, EngineInvariant, PTL

\* A pose counts only if it was held without a gap (docs/mvp-specification.md:116).
THEOREM PosesAreHeld == Spec => []PoseIsSteady
<1>1. DetectionOK => PoseIsSteady
  BY DEF DetectionOK
<1>. QED  BY <1>1, EngineInvariant, PTL
=============================================================================
