--------------------------- MODULE MCTemporalEngine ---------------------------
(* Two motions of two samples each, a hand that goes up and one that goes   *)
(* down, beside one that a rule recognises and one that is switched off.    *)
EXTENDS TemporalEngine

\* A person near the camera, the same far away, with the hand down, up, or not
\* found while the wrist moves, and a person whose shoulders are hidden.
MCShots ==
    {[left |-> 10, right |-> 14, wrist |-> 12, hand |-> 12],
     [left |-> 10, right |-> 18, wrist |-> 14, hand |-> 22],
     [left |-> 10, right |-> 14, wrist |-> 14, hand |-> None],
     [left |-> 10, right |-> None, wrist |-> 12, hand |-> 12]}

Recorded(hands) ==
    [i \in DOMAIN hands |->
        [point |-> [wrist |-> 0, hand |-> hands[i]],
         weight |-> [wrist |-> FullWeight, hand |-> FullWeight]]]

MCTemplates ==
    {[motion |-> 1, sample |-> 1, frames |-> Recorded(<<0, 2, 3>>)],
     [motion |-> 1, sample |-> 2, frames |-> Recorded(<<0, 2>>)],
     [motion |-> 2, sample |-> 1, frames |-> Recorded(<<4, 2, 1>>)],
     [motion |-> 2, sample |-> 2, frames |-> Recorded(<<4, 2>>)],
     [motion |-> 3, sample |-> 1, frames |-> Recorded(<<4, 4>>)],
     [motion |-> 4, sample |-> 1, frames |-> Recorded(<<0, 4>>)]}

MCThresholds == [m \in 1 .. 4 |-> 4]

\* The first motion with a single sample.
MCFewSamples == {t \in MCTemplates : t.motion # 1 \/ t.sample = 1}
===============================================================================
