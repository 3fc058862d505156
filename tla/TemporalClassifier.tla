-------------------------- MODULE TemporalClassifier --------------------------
(***************************************************************************)
(* How a window of landmark frames is compared with the registered motion  *)
(* templates (recognition/.../gestures/temporal.py): resampling to a       *)
(* common length, dynamic time warping, and a vote of the nearest samples. *)
(*                                                                         *)
(* A frame has three features: the shoulders, which every frame has at the *)
(* same normalised place, a wrist and a hand, either of which may be       *)
(* missing.  Coordinates are numbers on one axis; distances and weights    *)
(* are integers, rounded down where the code divides.                      *)
(***************************************************************************)
EXTENDS Integers, Sequences, FiniteSets, FiniteSetsExt

CONSTANTS
    None,
    Registered,    \* samples of the model asset: [motion, sample, frames]
    Collected,     \* motions the semantic rules recognise
    Disabled,      \* motions switched off
    Thresholds,    \* the largest distance a motion is recognised at
    K,             \* samples that vote
    Penalty,       \* missing_point_penalty
    Exact,         \* DEFAULT_NEAR_EXACT_MATCH_DISTANCE
    Compared,      \* comparison_frames
    Fine,          \* distances count in this fraction of a coordinate
    FullWeight     \* the weight 1.0 of a landmark that was observed

Features == {"wrist", "hand"}

\* The samples that are left to this classifier: its engine must not recognise
\* what a rule already does.
Templates == {t \in Registered : t.motion \notin Collected \cup Disabled}
Motions == {t.motion : t \in Templates}

Points == [Features -> Int \cup {None}]
Frames == [point : Points, weight : [Features -> 0 .. FullWeight]]

\* A sample has frames and a name of its own; motions and samples are numbered in
\* the order of their names.
SamplesValid ==
    /\ Registered \subseteq [motion : Nat, sample : Nat, frames : Seq(Frames) \ {<<>>}]
    /\ IsFiniteSet(Registered)
    /\ \A t, u \in Registered : t.motion = u.motion /\ t.sample = u.sample => t = u

\* Every motion has a threshold, and no other has; without samples there is no engine.
ASSUME ClassifierConstants ==
    /\ SamplesValid
    /\ Templates # {}
    /\ Thresholds \in [{t.motion : t \in Registered} -> Nat \ {0}]
    /\ {K, Compared, Fine, FullWeight} \subseteq Nat \ {0}
    /\ {Penalty, Exact} \subseteq Nat
    /\ None \notin Int

-----------------------------------------------------------------------------
(* One length for all sequences *)

\* Python's round: a half goes to the even neighbour.
Round(n, d) ==
    LET q == n \div d
        r == 2 * (n % d)
    IN IF r > d \/ (r = d /\ q % 2 = 1) THEN q + 1 ELSE q

\* A sequence given by its elements, as a tuple: TLC computes them once.
Tuple(f) == f \o <<>>

Resample(s) ==
    IF Len(s) = Compared THEN s
    ELSE IF Compared = 1 THEN <<s[1]>>
    ELSE Tuple([i \in 1 .. Compared |-> s[Round((i - 1) * (Len(s) - 1), Compared - 1) + 1]])

-----------------------------------------------------------------------------
(* Distance of two frames *)

Least(m, n) == IF m < n THEN m ELSE n
Most(m, n) == IF m > n THEN m ELSE n
Apart(m, n) == IF m > n THEN m - n ELSE n - m

\* A landmark both frames have counts as little as the weaker of the two, one
\* that a single frame has is a penalty; one that both miss says nothing.
Support(f, g, p) ==
    CASE f.point[p] # None /\ g.point[p] # None -> Least(f.weight[p], g.weight[p])
      [] f.point[p] = None /\ g.point[p] = None -> 0
      [] OTHER -> Most(f.weight[p], g.weight[p])

Difference(f, g, p) ==
    IF f.point[p] # None /\ g.point[p] # None THEN Fine * Apart(f.point[p], g.point[p])
    ELSE Penalty

\* The two shoulders support every comparison and differ in none.
FrameDistance(f, g) ==
    LET wrist == Support(f, g, "wrist")
        hand == Support(f, g, "hand")
    IN (Difference(f, g, "wrist") * wrist + Difference(f, g, "hand") * hand)
            \div (2 * FullWeight + wrist + hand)

-----------------------------------------------------------------------------
(* Dynamic time warping *)

\* Mutant of Cheapest: the diagonal is taken whenever it is there.
Cheapest_Diagonal(up, left, diagonal) == diagonal

\* The first of the cheapest predecessors, in the order the code lists them.
Cheapest(up, left, diagonal) ==
    CASE up.cost <= left.cost /\ up.cost <= diagonal.cost -> up
      [] up.cost > left.cost /\ left.cost <= diagonal.cost -> left
      [] OTHER -> diagonal

\* The distances of all frames of s and t.
Local(s, t) ==
    Tuple([i \in DOMAIN s |-> Tuple([j \in DOMAIN t |-> FrameDistance(s[i], t[j])])])

\* A row of the table from the row above it, of which the first has none: cost and
\* length of an alignment that ends in a cell.
Row(line, above) ==
    LET cell[j \in DOMAIN line] ==
            LET before ==
                    CASE above = <<>> /\ j = 1 -> [cost |-> 0, length |-> 0]
                      [] above = <<>> /\ j > 1 -> cell[j - 1]
                      [] above # <<>> /\ j = 1 -> above[1]
                      [] OTHER -> Cheapest(above[j], cell[j - 1], above[j - 1])
            IN [cost |-> before.cost + line[j], length |-> before.length + 1]
    IN Tuple(cell)

\* Cost and length of the alignment the table of the code ends with: both the
\* batch and the fallback fill it row by row.
Alignment(local) ==
    LET row[i \in DOMAIN local] == Row(local[i], IF i = 1 THEN <<>> ELSE row[i - 1])
    IN row[Len(local)][Len(local[1])]

Distance(s, t) ==
    LET a == Alignment(Local(s, t)) IN a.cost \div a.length

-----------------------------------------------------------------------------
(* The vote *)

\* The registered samples with their distance from a window.
Measured(window) ==
    LET w == Resample(window)
    IN {[motion |-> t.motion, sample |-> t.sample, distance |-> Distance(w, Resample(t.frames))] :
            t \in Templates}

\* The order of the samples: ties go by motion and sample.
Before(t, u) ==
    \/ t.distance < u.distance
    \/ t.distance = u.distance /\ t.motion < u.motion
    \/ t.distance = u.distance /\ t.motion = u.motion /\ t.sample < u.sample

\* The first n of them.
Neighbors(S, n) == {t \in S : Cardinality({u \in S : Before(u, t)}) < n}

Votes(S, m) == {t \in S : t.motion = m}
Total(S) == MapThenSumSet(LAMBDA t : t.distance, S)

\* More votes, then the smaller mean distance, then the smaller code.
Beats(S, m, n) ==
    LET M == Votes(S, m)
        N == Votes(S, n)
        mean == Total(M) * Cardinality(N) - Total(N) * Cardinality(M)
    IN \/ Cardinality(M) > Cardinality(N)
       \/ Cardinality(M) = Cardinality(N) /\ (mean < 0 \/ (mean = 0 /\ m < n))

Winner(S) ==
    LET candidates == {t.motion : t \in S}
    IN CHOOSE m \in candidates : \A n \in candidates \ {m} : Beats(S, m, n)

\* A replayed sample: next to nothing away, and ten times nearer than the next.
NearExact(nearest, voters) ==
    /\ nearest.distance <= Exact
    /\ \A t \in Neighbors(voters, 2) \ {nearest} : 10 * nearest.distance <= t.distance

\* The result: the motion, whether it is a near-exact match, whether the
\* confidence 1 - distance / threshold reaches one half, and how near the
\* motion's own nearest voter came.
Result(m, near, distance, own) ==
    [motion |-> m, near |-> near, sure |-> 2 * distance <= Thresholds[m], own |-> own]

Unknown == [motion |-> None, near |-> FALSE, sure |-> FALSE, own |-> 0]

Classify(window) ==
    LET voters == Neighbors(Measured(window), K)
        nearest == CHOOSE t \in voters : \A u \in voters \ {t} : Before(t, u)
        winner == Winner(voters)
    IN IF NearExact(nearest, voters)
       THEN Result(nearest.motion, TRUE, nearest.distance, nearest.distance)
       ELSE IF nearest.distance > Thresholds[winner] THEN Unknown
       ELSE Result(winner, FALSE, nearest.distance,
                   Min({t.distance : t \in Votes(voters, winner)}))
=============================================================================
