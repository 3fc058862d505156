-------------------------- MODULE LandmarkCollector --------------------------
(***************************************************************************)
(* The program that records samples of every motion, delimited by an open  *)
(* palm the subject holds up                                               *)
(* (recognition/scripts/collect_delimited_landmarks.py).                   *)
(*                                                                         *)
(* The loop reads the clock once in an iteration and compares it with      *)
(* times it read before, so a moment is kept as an age, or as the time     *)
(* that remains, and time passes between two iterations.                   *)
(*                                                                         *)
(* measured and output are history variables: the segments whose target    *)
(* phase was entered, and those of the records of the output file.  up,    *)
(* down and lowered are what an observer of the frames knows of the palm.  *)
(***************************************************************************)
EXTENDS Naturals, Sequences

CONSTANTS
    Never,
    MotionTotal,    \* len(MOTIONS)
    Samples,        \* --samples-per-motion
    InitialWait, Neutral, Target, Hold, Release, \* durations
    MaxRecords      \* bound: records saved of one segment

ASSUME CollectorConstants ==
    /\ {MotionTotal, Samples, InitialWait, Neutral, Target, Hold, Release} \subseteq Nat \ {0}
    /\ Never \notin Nat

VARIABLES
    stage,      \* phase, the segment it is about, its records, and the time left
    gate,       \* PalmGate: when the palm came, when it went, whether it counted
    shown,      \* the status file
    measured, output, up, down, lowered

collectorVars == <<stage, gate, shown, measured, output, up, down, lowered>>

Segment == [motion |-> stage.motion, sample |-> stage.sample]

NoPalm == [started |-> Never, absent |-> Never, triggered |-> FALSE]

Shows(s, n) == [phase |-> s.phase, motion |-> s.motion, sample |-> s.sample, saved |-> n]

CollectorInit ==
    /\ stage = [phase |-> "initial_wait", motion |-> 1, sample |-> 1, records |-> 0,
                remaining |-> InitialWait]
    /\ gate = NoPalm
    /\ shown = Shows(stage, 0)
    /\ measured = <<>>
    /\ output = <<>>
    /\ up = Never
    /\ down = Never
    /\ lowered = TRUE

In(phase) == stage.phase = phase

\* The age of what happened at x, as far as anyone asks.
Older(x, limit) == IF x = Never \/ x = limit THEN x ELSE x + 1
Since(x) == IF x = Never THEN 0 ELSE x

-----------------------------------------------------------------------------
(* PalmGate *)

\* A palm that has been there for long enough counts, once.
Shown(g) ==
    LET s == Since(g.started)
    IN [gate |-> [started |-> s, absent |-> Never, triggered |-> g.triggered \/ s >= Hold],
        event |-> IF ~g.triggered /\ s >= Hold THEN "held" ELSE "none"]

\* Mutant of Hidden: one frame without a palm is enough.
Hidden_Eager(g) ==
    [gate |-> NoPalm, event |-> IF g.triggered THEN "released" ELSE "none"]

\* A palm that is missed for a moment is still there.
Hidden(g) ==
    LET a == Since(g.absent)
    IN IF g.started = Never THEN [gate |-> g, event |-> "none"]
       ELSE IF a < Release THEN [gate |-> [g EXCEPT !.absent = a], event |-> "none"]
       ELSE [gate |-> NoPalm, event |-> IF g.triggered THEN "released" ELSE "none"]

Gated(palm) == IF palm THEN Shown(gate) ELSE Hidden(gate)

-----------------------------------------------------------------------------
(* The loop *)

\* No frame, or one that is no image.
Pass ==
    /\ stage.phase \notin {"completed", "stopped"}
    /\ stage' = [stage EXCEPT !.remaining = IF @ = 0 THEN 0 ELSE @ - 1]
    /\ gate' = [gate EXCEPT !.started = Older(@, Hold), !.absent = Older(@, Release)]
    /\ up' = Older(up, Hold)
    /\ down' = Older(down, Release)
    /\ UNCHANGED <<shown, measured, output, lowered>>

\* What the observer sees: a palm that is away for Release was lowered.
Away(palm) == ~palm /\ Since(down) >= Release

Observe(palm) ==
    /\ down' = IF palm THEN Never ELSE Since(down)
    /\ up' = IF palm THEN Since(up) ELSE IF Away(palm) THEN Never ELSE up

\* The next phase, with a status that is written whenever the phase changes.
Enter(s) ==
    /\ stage' = s
    /\ shown' = Shows(s, Len(output))

Stay == UNCHANGED <<stage, shown>>

Begins(phase, time) == [stage EXCEPT !.phase = phase, !.remaining = time]

\* Palms do not count before the preparation is over.
Prepare ==
    /\ In("initial_wait")
    /\ gate' = NoPalm
    /\ IF stage.remaining = 0 THEN Enter(Begins("waiting_for_first_palm", 0)) ELSE Stay
    /\ UNCHANGED <<measured, output, up, down, lowered>>

FirstPalm(palm) ==
    /\ In("waiting_for_first_palm")
    /\ LET g == Gated(palm)
       IN /\ gate' = g.gate
          /\ IF g.event = "held" THEN Enter(Begins("waiting_for_first_release", 0)) ELSE Stay
          /\ lowered' = (g.event # "held" /\ (lowered \/ Away(palm)))
    /\ Observe(palm)
    /\ UNCHANGED <<measured, output>>

ReleasePalm(palm) ==
    /\ In("waiting_for_first_release") \/ In("waiting_for_next_release")
    /\ LET g == Gated(palm)
       IN /\ gate' = g.gate
          /\ IF g.event = "released" THEN Enter(Begins("neutral", Neutral)) ELSE Stay
    /\ lowered' = (lowered \/ Away(palm))
    /\ Observe(palm)
    /\ UNCHANGED <<measured, output>>

BeNeutral(palm) ==
    /\ In("neutral")
    /\ IF stage.remaining = 0
       THEN /\ Enter([Begins("target", Target) EXCEPT !.records = 0])
            /\ gate' = NoPalm
            /\ measured' = Append(measured, Segment)
       ELSE /\ Stay
            /\ gate' = Gated(palm).gate
            /\ UNCHANGED measured
    /\ lowered' = (lowered \/ Away(palm))
    /\ Observe(palm)
    /\ UNCHANGED output

\* The frame that comes after the target's time is not saved.  The status of the
\* others may be held back, as the last one was just written.
SaveFrame(palm) ==
    /\ In("target")
    /\ IF stage.remaining = 0
       THEN /\ Enter(Begins("waiting_for_next_palm", 0))
            /\ gate' = NoPalm
            /\ UNCHANGED output
       ELSE /\ stage.records < MaxRecords
            /\ output' = Append(output, Segment)
            /\ stage' = [stage EXCEPT !.records = @ + 1]
            /\ shown' \in {shown, Shows(stage, Len(output'))}
            /\ gate' = Gated(palm).gate
    /\ lowered' = (lowered \/ Away(palm))
    /\ Observe(palm)
    /\ UNCHANGED measured

LastSegment == stage.motion = MotionTotal /\ stage.sample = Samples

\* Mutant of Advanced: the samples are counted on through the motions.
Advanced_Through ==
    IF stage.sample = Samples THEN [Begins("waiting_for_next_release", 0) EXCEPT !.motion = @ + 1]
    ELSE [Begins("waiting_for_next_release", 0) EXCEPT !.sample = @ + 1]

Advanced ==
    IF stage.sample = Samples
    THEN [Begins("waiting_for_next_release", 0) EXCEPT !.motion = @ + 1, !.sample = 1]
    ELSE [Begins("waiting_for_next_release", 0) EXCEPT !.sample = @ + 1]

NextPalm(palm) ==
    /\ In("waiting_for_next_palm")
    /\ LET g == Gated(palm)
       IN /\ gate' = g.gate
          /\ IF g.event # "held" THEN Stay
             ELSE IF LastSegment THEN Enter(Begins("completed", 0))
             ELSE Enter(Advanced)
          /\ lowered' = (g.event # "held" /\ (lowered \/ Away(palm)))
    /\ Observe(palm)
    /\ UNCHANGED <<measured, output>>

\* A signal ends the loop wherever it is; what was saved stays.
Stop ==
    /\ stage.phase \notin {"completed", "stopped"}
    /\ Enter(Begins("stopped", 0))
    /\ UNCHANGED <<gate, measured, output, up, down, lowered>>

CollectorNext ==
    \/ Pass
    \/ Prepare
    \/ \E palm \in BOOLEAN :
          FirstPalm(palm) \/ ReleasePalm(palm) \/ BeNeutral(palm) \/ SaveFrame(palm) \/ NextPalm(palm)
    \/ Stop

CollectorSpec == CollectorInit /\ [][CollectorNext]_collectorVars

-----------------------------------------------------------------------------
(* Properties *)

Index(s) == (s.motion - 1) * Samples + s.sample

\* The segments are measured one after the other, all samples of a motion and then
\* the next motion, and none is left out; the records of the output file are of
\* measured segments, in their order; and but for a target phase the status tells
\* the number of them (collect_delimited_landmarks.py:456-473, 498-518).
SegmentsInOrder ==
    /\ \A i \in DOMAIN measured : Index(measured[i]) = i /\ measured[i].sample <= Samples
    /\ \A i \in DOMAIN output : /\ Index(output[i]) <= Len(measured)
                                /\ i > 1 => Index(output[i - 1]) <= Index(output[i])
    /\ ~In("target") => shown.saved = Len(output)
    /\ ~In("stopped") => Index(shown) - Len(measured) \in {0, 1}
    /\ In("completed") => Len(measured) = MotionTotal * Samples

\* Every step to another segment takes a palm of its own, held for its time, after
\* the last one was lowered for its time: neither a palm that is just kept up nor
\* one the hand detector loses for a moment counts twice
\* (collect_delimited_landmarks.py:156-178).
PalmsCountOnce ==
    [][stage.phase \in {"waiting_for_first_palm", "waiting_for_next_palm"}
         /\ stage'.phase \notin {stage.phase, "stopped"} => lowered /\ up' = Hold]_collectorVars
=============================================================================
