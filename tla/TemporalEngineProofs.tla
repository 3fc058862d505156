-------------------------- MODULE TemporalEngineProofs --------------------------
(***************************************************************************)
(* The template engine for every value of its constants: every camera,     *)
(* clock, model asset and configuration.                                   *)
(*                                                                         *)
(* Two results carry the rest.  AlignmentBest: the table of the dynamic    *)
(* time warping ends with the best warping path.  ClassifyNames: the vote  *)
(* always has a nearest sample and a winner, so a classification names a   *)
(* motion of the templates or none.  Both are inductions over recursive    *)
(* definitions, which are done with sets of numbers (Inductive).           *)
(***************************************************************************)
EXTENDS TemporalEngine, FiniteSetTheorems, SequenceTheorems, WellFoundedInduction, TLAPS

-----------------------------------------------------------------------------
(* Numbers, recursion and finite sets                                       *)

\* Induction over the naturals, for a property given as the set of the numbers
\* that have it.
LEMMA Smallest ==
    ASSUME NEW T \in SUBSET Nat, T # {}
    PROVE  \E n \in T : \A m \in T : n <= m
<1>. DEFINE R == {ss \in Nat \X Nat : ss[1] < ss[2]}
<1>1. IsWellFoundedOn(R, Nat)
  BY NatLessThanWellFounded DEF OpToRel
<1>. HIDE DEF R
<1>2. PICK n \in T : \A m \in T : ~(<<m, n>> \in R)
  BY <1>1, WFMin
<1>3. ASSUME NEW m \in T, m < n PROVE FALSE
  BY <1>2, <1>3 DEF R
<1>. QED  BY <1>2, <1>3

LEMMA Inductive ==
    ASSUME NEW T \in SUBSET Nat, 0 \in T, \A n \in T : n + 1 \in T
    PROVE  T = Nat
<1>. SUFFICES ASSUME T # Nat PROVE FALSE
  OBVIOUS
<1>1. PICK n \in Nat \ T : \A m \in Nat \ T : n <= m
  BY Smallest
<1>2. n - 1 \in Nat /\ n - 1 \in T
  BY <1>1
<1>. QED  BY <1>1, <1>2

\* There is a sequence of values, each made from the one before.
Unfolds(T, start, n, step) ==
    \E f \in [0 .. n -> T] : f[0] = start /\ \A i \in 1 .. n : f[i] = step[i][f[i - 1]]

LEMMA Recursion ==
    ASSUME NEW T, NEW start \in T, NEW n \in Nat, NEW step \in [1 .. n -> [T -> T]]
    PROVE  Unfolds(T, start, n, step)
<1>. DEFINE Good(m, f) == f[0] = start /\ \A i \in 1 .. m : f[i] = step[i][f[i - 1]]
            S == {m \in Nat : m <= n => \E f \in [0 .. m -> T] : Good(m, f)}
<1>1. 0 \in S
  <2>. DEFINE f == [i \in 0 .. 0 |-> start]
  <2>1. f \in [0 .. 0 -> T] /\ Good(0, f)
    OBVIOUS
  <2>. QED  BY <2>1
<1>2. ASSUME NEW m \in S PROVE m + 1 \in S
  <2>. SUFFICES ASSUME m + 1 <= n PROVE \E f \in [0 .. m + 1 -> T] : Good(m + 1, f)
    OBVIOUS
  <2>1. m \in Nat /\ m <= n
    OBVIOUS
  <2>2. PICK g \in [0 .. m -> T] : Good(m, g)
    BY <2>1
  <2>. DEFINE f == [i \in 0 .. m + 1 |-> IF i = m + 1 THEN step[m + 1][g[m]] ELSE g[i]]
  <2>3. step[m + 1][g[m]] \in T
    BY <2>1
  <2>4. f \in [0 .. m + 1 -> T]
    BY <2>1, <2>3
  <2>5. f[0] = start
    BY <2>1, <2>2
  <2>6. ASSUME NEW i \in 1 .. m + 1 PROVE f[i] = step[i][f[i - 1]]
    <3>1. CASE i = m + 1
      <4>1. f[i - 1] = g[m]
        BY <3>1, <2>1
      <4>. QED  BY <3>1, <4>1
    <3>2. CASE i # m + 1
      <4>1. i \in 1 .. m /\ i - 1 \in 0 .. m
        BY <3>2, <2>1
      <4>2. f[i] = g[i] /\ f[i - 1] = g[i - 1]
        BY <4>1, <2>1
      <4>. QED  BY <4>1, <4>2, <2>2
    <3>. QED  BY <3>1, <3>2
  <2>. HIDE DEF f
  <2>7. Good(m + 1, f)
    BY <2>5, <2>6
  <2>. QED  BY <2>4, <2>7
<1>. HIDE DEF S
<1>3. S = Nat
  <2>1. S \in SUBSET Nat
    BY DEF S
  <2>. QED  BY <1>1, <1>2, <2>1, Inductive
<1>4. n \in S
  BY <1>3
<1>. QED  BY <1>4 DEF S, Unfolds

\* A finite set of naturals is bounded, so it has a greatest element.
LEMMA Bounded ==
    ASSUME NEW S \in SUBSET Nat, IsFiniteSet(S)
    PROVE  \E n \in Nat : \A m \in S : m <= n
<1>. DEFINE B == {k \in Nat : \A X \in SUBSET Nat : IsFiniteSet(X) /\ Cardinality(X) = k
                                  => \E n \in Nat : \A m \in X : m <= n}
<1>1. 0 \in B
  <2>1. ASSUME NEW X, IsFiniteSet(X), Cardinality(X) = 0 PROVE X = {}
    BY <2>1, FS_EmptySet
  <2>. QED  BY <2>1
<1>2. ASSUME NEW k \in B PROVE k + 1 \in B
  <2>. SUFFICES ASSUME NEW X \in SUBSET Nat, IsFiniteSet(X), Cardinality(X) = k + 1
                PROVE  \E n \in Nat : \A m \in X : m <= n
    OBVIOUS
  <2>1. X # {}
    BY FS_EmptySet
  <2>2. PICK x \in X : TRUE
    BY <2>1
  <2>3. IsFiniteSet(X \ {x}) /\ Cardinality(X \ {x}) = k
    <3>1. IsFiniteSet(X \ {x}) /\ Cardinality(X \ {x}) = Cardinality(X) - 1
      BY FS_RemoveElement
    <3>2. k \in Nat
      OBVIOUS
    <3>. QED  BY <3>1, <3>2
  <2>4. PICK n \in Nat : \A m \in X \ {x} : m <= n
    BY <2>3
  <2>5. n + x \in Nat /\ \A m \in X : m <= n + x
    BY <2>4
  <2>. HIDE DEF B
  <2>. QED  BY <2>5
<1>. HIDE DEF B
<1>3. B = Nat
  <2>1. B \in SUBSET Nat
    BY DEF B
  <2>. QED  BY <1>1, <1>2, <2>1, Inductive
<1>4. Cardinality(S) \in B
  BY <1>3, FS_CardinalityType
<1>. QED  BY <1>4 DEF B

LEMMA Greatest ==
    ASSUME NEW S \in SUBSET Nat, IsFiniteSet(S), S # {}
    PROVE  Max(S) \in S /\ \A m \in S : m <= Max(S)
<1>. DEFINE B == {n \in Nat : \A m \in S : m <= n}
<1>1. B # {}
  BY Bounded
<1>2. PICK n \in B : \A m \in B : n <= m
  BY <1>1, Smallest
<1>3. n \in S
  <2>. SUFFICES ASSUME n \notin S PROVE FALSE
    OBVIOUS
  <2>1. PICK s \in S : TRUE
    OBVIOUS
  <2>2. n - 1 \in B
    BY <2>1
  <2>. QED  BY <2>2, <1>2
<1>. QED  BY <1>3 DEF Max

LEMMA Lowest ==
    ASSUME NEW S \in SUBSET Nat, S # {}
    PROVE  Min(S) \in S /\ \A m \in S : Min(S) <= m
BY Smallest DEF Min

LEMMA Division ==
    ASSUME NEW a \in Int, NEW d \in Nat \ {0}
    PROVE  /\ a \div d \in Int /\ a % d \in 0 .. d - 1
           /\ a = d * (a \div d) + (a % d)
<1>. DEFINE p == d * (a \div d)
            q == a % d
<1>1. a \div d \in Int /\ q \in 0 .. d - 1 /\ p \in Int
  OBVIOUS
<1>2. q = a - p
  BY Z3T(60)
<1>. HIDE DEF p, q
<1>3. a = p + q
  BY <1>1, <1>2
<1>. QED  BY <1>1, <1>3 DEF p, q

-----------------------------------------------------------------------------
(* Distances of frames                                                      *)

LEMMA Numbers ==
    /\ K \in Nat \ {0} /\ Compared \in Nat \ {0} /\ Fine \in Nat \ {0}
    /\ FullWeight \in Nat \ {0} /\ Penalty \in Nat /\ Exact \in Nat /\ None \notin Int
BY ClassifierConstants

LEMMA FrameDistanceIsNat ==
    ASSUME NEW f \in Frames, NEW g \in Frames
    PROVE  FrameDistance(f, g) \in Nat
<1>. DEFINE a(p) == Support(f, g, p)
            b(p) == Difference(f, g, p)
<1>1. ASSUME NEW p \in Features PROVE a(p) \in Nat /\ b(p) \in Nat
  <2>1. /\ f.point[p] \in Int \cup {None} /\ g.point[p] \in Int \cup {None}
        /\ f.weight[p] \in Nat /\ g.weight[p] \in Nat
    BY Numbers DEF Frames, Points
  <2>2. a(p) \in Nat
    BY <2>1 DEF Support, Least, Most
  <2>3. ASSUME f.point[p] # None, g.point[p] # None PROVE Apart(f.point[p], g.point[p]) \in Nat
    BY <2>1, <2>3 DEF Apart
  <2>4. b(p) \in Nat
    BY <2>3, Numbers DEF Difference
  <2>. QED  BY <2>2, <2>4
<1>2. a("wrist") \in Nat /\ a("hand") \in Nat /\ b("wrist") \in Nat /\ b("hand") \in Nat
  BY <1>1 DEF Features
<1>. HIDE DEF a, b
<1>3. b("wrist") * a("wrist") \in Nat /\ b("hand") * a("hand") \in Nat
  BY <1>2
<1>4. b("wrist") * a("wrist") + b("hand") * a("hand") \in Nat
  BY <1>3
<1>5. 2 * FullWeight + a("wrist") + a("hand") \in Nat \ {0}
  BY <1>2, Numbers
<1>6. \A n \in Nat, d \in Nat \ {0} : n \div d \in Nat
  OBVIOUS
<1>. QED  BY <1>4, <1>5, <1>6, Zenon DEF FrameDistance, a, b

LEMMA TupleIs ==
    ASSUME NEW S, NEW n \in Nat, NEW f \in [1 .. n -> S]
    PROVE  Tuple(f) = f
<1>1. f \in Seq(S)
  OBVIOUS
<1>. QED  BY <1>1, ConcatEmptySeq DEF Tuple

LEMMA RoundIsWithin ==
    ASSUME NEW i \in Nat, NEW n \in Nat, NEW d \in Nat \ {0}, i <= d
    PROVE  Round(i * n, d) \in 0 .. n
<1>. DEFINE q == (i * n) \div d
            r == (i * n) % d
<1>1. q \in Int /\ r \in 0 .. d - 1 /\ i * n = d * q + r
  <2>1. i * n \in Int
    OBVIOUS
  <2>. QED  BY <2>1, Division, Zenon
<1>2. i * n \in Nat /\ i * n <= d * n
  <2>1. d - i \in Nat
    OBVIOUS
  <2>2. (d - i) * n \in Nat
    BY <2>1
  <2>3. d * n = i * n + (d - i) * n
    OBVIOUS
  <2>. QED  BY <2>2, <2>3
<1>. HIDE DEF q, r
<1>3. q >= 0
  <2>. SUFFICES ASSUME q <= -1 PROVE FALSE
    BY <1>1
  <2>1. d * (-1 - q) >= 0
    BY <1>1
  <2>2. d * (-1 - q) = -d - d * q
    BY <1>1
  <2>. QED  BY <1>1, <1>2, <2>1, <2>2
<1>4. q <= n
  <2>. SUFFICES ASSUME q >= n + 1 PROVE FALSE
    BY <1>1
  <2>1. d * (q - n - 1) >= 0
    BY <1>1
  <2>2. d * (q - n - 1) = d * q - d * n - d /\ d * q \in Int /\ d * n \in Int
    BY <1>1
  <2>. QED  BY <1>1, <1>2, <2>1, <2>2
<1>5. q = n => r = 0
  <2>. SUFFICES ASSUME q = n PROVE r = 0
    OBVIOUS
  <2>1. d * n \in Int
    OBVIOUS
  <2>. QED  BY <1>1, <1>2, <2>1
<1>6. Round(i * n, d) = IF 2 * r > d \/ (2 * r = d /\ q % 2 = 1) THEN q + 1 ELSE q
  BY DEF Round, q, r
<1>. QED  BY <1>1, <1>3, <1>4, <1>5, <1>6

LEMMA ResampleTyped ==
    ASSUME NEW s \in Seq(Frames), s # <<>>
    PROVE  Resample(s) \in [1 .. Compared -> Frames]
<1>1. Len(s) \in Nat \ {0} /\ \A i \in 1 .. Len(s) : s[i] \in Frames
  BY EmptySeq
<1>2. CASE Len(s) = Compared
  BY <1>2, <1>1 DEF Resample
<1>3. CASE Len(s) # Compared /\ Compared = 1
  <2>1. Resample(s) = <<s[1]>> /\ s[1] \in Frames
    BY <1>1, <1>3 DEF Resample
  <2>. QED  BY <2>1, <1>3
<1>4. CASE Len(s) # Compared /\ Compared # 1
  <2>. DEFINE f == [i \in 1 .. Compared |->
                      s[Round((i - 1) * (Len(s) - 1), Compared - 1) + 1]]
  <2>1. ASSUME NEW i \in 1 .. Compared
        PROVE  s[Round((i - 1) * (Len(s) - 1), Compared - 1) + 1] \in Frames
    <3>1. /\ i - 1 \in Nat /\ i - 1 <= Compared - 1
          /\ Len(s) - 1 \in Nat /\ Compared - 1 \in Nat \ {0}
      BY <1>1, <1>4, Numbers
    <3>2. Round((i - 1) * (Len(s) - 1), Compared - 1) \in 0 .. Len(s) - 1
      BY <3>1, RoundIsWithin
    <3>. QED  BY <1>1, <3>2
  <2>2. f \in [1 .. Compared -> Frames]
    BY <2>1
  <2>3. Resample(s) = Tuple(f)
    BY <1>4 DEF Resample
  <2>. HIDE DEF f
  <2>. QED  BY <2>2, <2>3, TupleIs, Numbers
<1>. QED  BY <1>2, <1>3, <1>4

Tables == [1 .. Compared -> [1 .. Compared -> Nat]]

LEMMA LocalTyped ==
    ASSUME NEW s \in [1 .. Compared -> Frames], NEW t \in [1 .. Compared -> Frames]
    PROVE  Local(s, t) \in Tables
<1>. DEFINE line(i) == [j \in DOMAIN t |-> FrameDistance(s[i], t[j])]
            f == [i \in DOMAIN s |-> Tuple(line(i))]
<1>1. ASSUME NEW i \in 1 .. Compared PROVE Tuple(line(i)) \in [1 .. Compared -> Nat]
  <2>1. line(i) \in [1 .. Compared -> Nat]
    BY FrameDistanceIsNat
  <2>. HIDE DEF line
  <2>. QED  BY <2>1, TupleIs, Numbers
<1>. HIDE DEF line
<1>2. f \in Tables
  BY <1>1 DEF Tables
<1>3. Local(s, t) = Tuple(f)
  BY DEF Local, line
<1>. HIDE DEF f
<1>. QED  BY <1>2, <1>3, TupleIs, Numbers DEF Tables

-----------------------------------------------------------------------------
(* The table                                                                *)

Aligned == [cost : Nat, length : Nat]
Zero == [cost |-> 0, length |-> 0]

\* The cell a cell goes on from, in the row r below the row above.
Precedes(above, r, j) ==
    IF above = <<>> THEN IF j = 1 THEN Zero ELSE r[j - 1]
    ELSE IF j = 1 THEN above[1] ELSE Cheapest(above[j], r[j - 1], above[j - 1])

Extended(c, d) == [cost |-> c.cost + d, length |-> c.length + 1]

IsRow(r, line, above) ==
    /\ r \in [1 .. Compared -> Aligned]
    /\ \A j \in 1 .. Compared : r[j] = Extended(Precedes(above, r, j), line[j])

LEMMA CheapestIs ==
    ASSUME NEW a \in Aligned, NEW b \in Aligned, NEW c \in Aligned
    PROVE  /\ Cheapest(a, b, c) \in {a, b, c} /\ Cheapest(a, b, c) \in Aligned
           /\ Cheapest(a, b, c).cost <= a.cost
           /\ Cheapest(a, b, c).cost <= b.cost
           /\ Cheapest(a, b, c).cost <= c.cost
BY DEF Cheapest, Aligned

LEMMA ExtendedTyped ==
    ASSUME NEW c \in Aligned, NEW d \in Nat
    PROVE  Extended(c, d) \in Aligned
BY DEF Extended, Aligned

LEMMA RowFollows ==
    ASSUME NEW line \in [1 .. Compared -> Nat], NEW above,
           above = <<>> \/ above \in [1 .. Compared -> Aligned]
    PROVE  IsRow(Row(line, above), line, above)
<1>. DEFINE After(j, c) ==
              IF above = <<>> THEN c
              ELSE IF j = 1 THEN above[1] ELSE Cheapest(above[j], c, above[j - 1])
            step == [j \in 1 .. Compared |-> [c \in Aligned |-> Extended(After(j, c), line[j])]]
<1>1. ASSUME NEW j \in 1 .. Compared, NEW c \in Aligned
      PROVE  After(j, c) \in Aligned /\ Extended(After(j, c), line[j]) \in Aligned
  <2>1. CASE above = <<>>
    BY <2>1, ExtendedTyped
  <2>2. CASE above # <<>> /\ j = 1
    BY <2>2, ExtendedTyped
  <2>3. CASE above # <<>> /\ j # 1
    <3>1. above[j] \in Aligned /\ above[j - 1] \in Aligned
      BY <2>3, Numbers
    <3>2. Cheapest(above[j], c, above[j - 1]) \in Aligned
      BY <3>1, CheapestIs
    <3>. QED  BY <2>3, <3>2, ExtendedTyped
  <2>. QED  BY <2>1, <2>2, <2>3
<1>2. step \in [1 .. Compared -> [Aligned -> Aligned]]
  BY <1>1
<1>3. Zero \in Aligned
  BY DEF Zero, Aligned
<1>. HIDE DEF step
<1>4. PICK f \in [0 .. Compared -> Aligned] :
          f[0] = Zero /\ \A j \in 1 .. Compared : f[j] = step[j][f[j - 1]]
  <2>1. Unfolds(Aligned, Zero, Compared, step)
    BY <1>2, <1>3, Numbers, Recursion
  <2>. QED  BY <2>1 DEF Unfolds
<1>5. ASSUME NEW j \in 1 .. Compared
      PROVE  f[j] = Extended(After(j, f[j - 1]), line[j])
  <2>1. f[j - 1] \in Aligned
    BY Numbers
  <2>. QED  BY <1>4, <2>1 DEF step
<1>. DEFINE Body(c) ==
              [j \in DOMAIN line |->
                 LET before ==
                         CASE above = <<>> /\ j = 1 -> [cost |-> 0, length |-> 0]
                           [] above = <<>> /\ j > 1 -> c[j - 1]
                           [] above # <<>> /\ j = 1 -> above[1]
                           [] OTHER -> Cheapest(above[j], c[j - 1], above[j - 1])
                 IN [cost |-> before.cost + line[j], length |-> before.length + 1]]
            Cell(c, j) == Extended(Precedes(above, c, j), line[j])
<1>6. ASSUME NEW c, NEW j \in 1 .. Compared PROVE Body(c)[j] = Cell(c, j)
  <2>1. j = 1 \/ j > 1
    OBVIOUS
  <2>2. CASE above = <<>> /\ j = 1
    BY <2>2 DEF Precedes, Extended, Zero
  <2>3. CASE above = <<>> /\ j > 1
    BY <2>3 DEF Precedes, Extended, Zero
  <2>4. CASE above # <<>> /\ j = 1
    BY <2>4 DEF Precedes, Extended, Zero
  <2>5. CASE above # <<>> /\ j > 1
    BY <2>5 DEF Precedes, Extended, Zero
  <2>. QED  BY <2>1, <2>2, <2>3, <2>4, <2>5
<1>7. \A c : Body(c) = [j \in 1 .. Compared |-> Body(c)[j]]
  OBVIOUS
<1>. DEFINE g == [j \in 1 .. Compared |-> f[j]]
<1>8. g = Body(g)
  <2>1. ASSUME NEW j \in 1 .. Compared PROVE g[j] = Cell(g, j)
    <3>1. CASE j = 1
      BY <1>4, <1>5, <3>1 DEF Precedes
    <3>2. CASE j # 1
      <4>1. j - 1 \in 1 .. Compared
        BY <3>2, Numbers
      <4>2. g[j - 1] = f[j - 1]
        BY <4>1
      <4>3. f[j] = Extended(Precedes(above, g, j), line[j])
        BY <1>5, <3>2, <4>2 DEF Precedes
      <4>. QED  BY <4>3
    <3>. QED  BY <3>1, <3>2
  <2>2. \A j \in 1 .. Compared : g[j] = Body(g)[j]
    BY <2>1, <1>6
  <2>. HIDE DEF Body
  <2>. QED  BY <2>2, <1>7
<1>. DEFINE r == CHOOSE c : c = Body(c)
<1>9. r = Body(r)
  <2>. HIDE DEF Body
  <2>. QED  BY <1>8
<1>10. Row(line, above) = Tuple(r)
  BY DEF Row
<1>. HIDE DEF r, Body, g
<1>11. \A j \in 1 .. Compared : r[j] = Cell(r, j)
  BY <1>6, <1>9
<1>. DEFINE S == {n \in Nat : n \in 1 .. Compared => r[n] \in Aligned}
<1>12. S = Nat
  <2>1. 0 \in S
    OBVIOUS
  <2>2. ASSUME NEW n \in S PROVE n + 1 \in S
    <3>. SUFFICES ASSUME n + 1 \in 1 .. Compared PROVE r[n + 1] \in Aligned
      OBVIOUS
    <3>1. CASE n = 0
      <4>1. Precedes(above, r, 1) \in Aligned
        BY <1>3, Numbers DEF Precedes
      <4>. QED  BY <3>1, <4>1, <1>11, ExtendedTyped
    <3>2. CASE n # 0
      <4>1. n \in 1 .. Compared /\ r[n] \in Aligned /\ n + 1 # 1 /\ n + 1 - 1 = n
        BY <3>2, Numbers
      <4>2. Precedes(above, r, n + 1) \in Aligned
        <5>1. CASE above = <<>>
          BY <5>1, <4>1 DEF Precedes
        <5>2. CASE above # <<>>
          <6>1. above[n + 1] \in Aligned /\ above[n] \in Aligned
            BY <5>2, <4>1
          <6>. DEFINE a == above[n + 1]
                      b == r[n]
                      c == above[n]
          <6>2. a \in Aligned /\ b \in Aligned /\ c \in Aligned
            BY <4>1, <6>1
          <6>. HIDE DEF a, b, c
          <6>3. Cheapest(a, b, c) \in Aligned
            BY <6>2, CheapestIs
          <6>. QED  BY <4>1, <5>2, <6>3 DEF Precedes, a, b, c
        <5>. QED  BY <5>1, <5>2
      <4>. QED  BY <4>2, <1>11, ExtendedTyped
    <3>. QED  BY <3>1, <3>2
  <2>3. S \in SUBSET Nat
    OBVIOUS
  <2>. HIDE DEF S
  <2>. QED  BY <2>1, <2>2, <2>3, Inductive
<1>13. \A n \in 1 .. Compared : r[n] \in Aligned
  BY <1>12
<1>14. r \in [1 .. Compared -> Aligned]
  BY <1>7, <1>9, <1>13
<1>15. Tuple(r) = r
  BY <1>14, TupleIs, Numbers
<1>. QED  BY <1>10, <1>11, <1>14, <1>15 DEF IsRow

Lines == [1 .. Compared -> Aligned]

\* The table of the alignment of two sequences.
IsTable(table, local) ==
    /\ table \in [1 .. Compared -> Lines]
    /\ \A i \in 1 .. Compared :
          IsRow(table[i], local[i], IF i = 1 THEN <<>> ELSE table[i - 1])

LEMMA LineIsNotEmpty ==
    ASSUME NEW r \in Lines
    PROVE  r # <<>>
<1>1. r \in Seq(Aligned) /\ Len(r) = Compared
  BY Numbers DEF Lines
<1>. QED  BY <1>1, EmptySeq, Numbers

LEMMA RowTyped ==
    ASSUME NEW line \in [1 .. Compared -> Nat], NEW above, above = <<>> \/ above \in Lines
    PROVE  Row(line, above) \in Lines
BY RowFollows DEF IsRow, Lines

LEMMA AlignmentIs ==
    ASSUME NEW local \in Tables
    PROVE  \E table : /\ IsTable(table, local)
                      /\ Alignment(local) = table[Compared][Compared]
<1>1. /\ Compared \in Nat \ {0}
      /\ DOMAIN local = 1 .. Compared /\ Len(local) = Compared
      /\ \A i \in 1 .. Compared : local[i] \in [1 .. Compared -> Nat]
  BY Numbers DEF Tables
<1>2. Len(local[1]) = Compared
  <2>1. local[1] \in [1 .. Compared -> Nat]
    BY <1>1
  <2>. QED  BY <2>1, <1>1
<1>. DEFINE n == Compared - 1
            start == Row(local[1], <<>>)
            step == [i \in 1 .. n |-> [a \in Lines |-> Row(local[i + 1], a)]]
<1>3. n \in Nat /\ start \in Lines /\ step \in [1 .. n -> [Lines -> Lines]]
  <2>1. n \in Nat
    BY <1>1
  <2>2. start \in Lines
    <3>1. local[1] \in [1 .. Compared -> Nat]
      BY <1>1
    <3>. QED  BY <3>1, RowTyped
  <2>3. ASSUME NEW i \in 1 .. n, NEW a \in Lines PROVE Row(local[i + 1], a) \in Lines
    <3>1. local[i + 1] \in [1 .. Compared -> Nat]
      BY <1>1
    <3>. QED  BY <3>1, RowTyped
  <2>. QED  BY <2>1, <2>2, <2>3
<1>. HIDE DEF start, step
<1>4. PICK f \in [0 .. n -> Lines] :
          f[0] = start /\ \A i \in 1 .. n : f[i] = step[i][f[i - 1]]
  <2>. HIDE DEF n
  <2>1. Unfolds(Lines, start, n, step)
    BY <1>3, Recursion
  <2>. QED  BY <2>1 DEF Unfolds
<1>. DEFINE Body(row) ==
              [i \in DOMAIN local |-> Row(local[i], IF i = 1 THEN <<>> ELSE row[i - 1])]
            g == [i \in 1 .. Compared |-> f[i - 1]]
<1>5. g = Body(g)
  <2>1. ASSUME NEW i \in 1 .. Compared
        PROVE  g[i] = Row(local[i], IF i = 1 THEN <<>> ELSE g[i - 1])
    <3>1. CASE i = 1
      BY <3>1, <1>4 DEF start
    <3>2. CASE i # 1
      <4>1. i - 1 \in 1 .. n /\ i - 1 \in 1 .. Compared /\ (i - 1) + 1 = i
        BY <3>2, <1>1
      <4>2. g[i - 1] = f[i - 2] /\ g[i - 1] \in Lines
        BY <4>1, <1>1
      <4>3. g[i] = step[i - 1][g[i - 1]]
        BY <4>1, <4>2, <1>4, <1>1
      <4>. QED  BY <3>2, <4>1, <4>2, <4>3 DEF step
    <3>. QED  BY <3>1, <3>2
  <2>. QED  BY <2>1, <1>1
<1>. DEFINE row == CHOOSE r : r = Body(r)
<1>6. row = Body(row)
  <2>. HIDE DEF Body
  <2>. QED  BY <1>5
<1>7. Alignment(local) = row[Compared][Compared]
  BY <1>1, <1>2 DEF Alignment
<1>. HIDE DEF row, g
<1>8. \A i \in 1 .. Compared :
          row[i] = Row(local[i], IF i = 1 THEN <<>> ELSE row[i - 1])
  BY <1>6, <1>1
<1>9. row = [i \in 1 .. Compared |-> row[i]]
  BY <1>6, <1>1
<1>. HIDE DEF Body
<1>. DEFINE S == {i \in Nat : i \in 1 .. Compared => row[i] \in Lines}
<1>10. S = Nat
  <2>1. 0 \in S
    OBVIOUS
  <2>2. ASSUME NEW i \in S PROVE i + 1 \in S
    <3>. SUFFICES ASSUME i + 1 \in 1 .. Compared PROVE row[i + 1] \in Lines
      OBVIOUS
    <3>1. local[i + 1] \in [1 .. Compared -> Nat]
      BY <1>1
    <3>2. CASE i = 0
      BY <3>1, <3>2, <1>8, RowTyped
    <3>3. CASE i # 0
      <4>1. i \in 1 .. Compared /\ row[i] \in Lines /\ i + 1 # 1 /\ (i + 1) - 1 = i
        BY <3>3, <1>1
      <4>2. row[i + 1] = Row(local[i + 1], row[i])
        BY <4>1, <1>8
      <4>. QED  BY <3>1, <4>1, <4>2, RowTyped
    <3>. QED  BY <3>2, <3>3
  <2>3. S \in SUBSET Nat
    OBVIOUS
  <2>. HIDE DEF S
  <2>. QED  BY <2>1, <2>2, <2>3, Inductive
<1>11. \A i \in 1 .. Compared : row[i] \in Lines
  BY <1>10
<1>12. row \in [1 .. Compared -> Lines]
  BY <1>9, <1>11
<1>13. ASSUME NEW i \in 1 .. Compared
       PROVE  IsRow(row[i], local[i], IF i = 1 THEN <<>> ELSE row[i - 1])
  <2>. DEFINE above == IF i = 1 THEN <<>> ELSE row[i - 1]
  <2>1. above = <<>> \/ above \in Lines
    <3>1. i # 1 => i - 1 \in 1 .. Compared
      BY <1>1
    <3>2. i # 1 => row[i - 1] \in Lines
      BY <1>11, <3>1
    <3>. QED  BY <3>2
  <2>2. local[i] \in [1 .. Compared -> Nat]
    BY <1>1
  <2>3. row[i] = Row(local[i], above)
    BY <1>8
  <2>. HIDE DEF above
  <2>4. IsRow(row[i], local[i], above)
    BY <2>1, <2>2, <2>3, RowFollows DEF Lines
  <2>. QED  BY <2>4 DEF above
<1>. QED  BY <1>7, <1>12, <1>13 DEF IsTable
-----------------------------------------------------------------------------
(* The best path                                                            *)

\* What a cell of the table goes on from.
Entered(table, i, j) ==
    CASE i = 1 /\ j = 1 -> Zero
      [] i = 1 /\ j > 1 -> table[1][j - 1]
      [] i > 1 /\ j = 1 -> table[i - 1][1]
      [] OTHER -> Cheapest(table[i - 1][j], table[i][j - 1], table[i - 1][j - 1])

LEMMA CellIs ==
    ASSUME NEW local \in Tables, NEW table, IsTable(table, local),
           NEW i \in 1 .. Compared, NEW j \in 1 .. Compared
    PROVE  /\ table[i][j] \in Aligned
           /\ table[i][j] = Extended(Entered(table, i, j), local[i][j])
<1>1. /\ table[i] \in Lines
      /\ IsRow(table[i], local[i], IF i = 1 THEN <<>> ELSE table[i - 1])
  BY DEF IsTable
<1>2. table[i][j] \in Aligned
  BY <1>1 DEF Lines
<1>3. CASE i = 1
  <2>1. table[i][j] = Extended(Precedes(<<>>, table[i], j), local[i][j])
    BY <1>1, <1>3 DEF IsRow
  <2>2. Precedes(<<>>, table[i], j) = Entered(table, i, j)
    BY <1>3 DEF Precedes, Entered
  <2>. QED  BY <1>2, <2>1, <2>2
<1>4. CASE i # 1
  <2>1. i - 1 \in 1 .. Compared
    BY <1>4, Numbers
  <2>2. table[i - 1] # <<>>
    BY <2>1, LineIsNotEmpty DEF IsTable
  <2>3. table[i][j] = Extended(Precedes(table[i - 1], table[i], j), local[i][j])
    BY <1>1, <1>4 DEF IsRow
  <2>4. Precedes(table[i - 1], table[i], j) = Entered(table, i, j)
    BY <1>4, <2>2 DEF Precedes, Entered
  <2>. QED  BY <1>2, <2>3, <2>4
<1>. QED  BY <1>3, <1>4

\* The sequences of cells that go on from cell to cell, the running sums of their
\* costs.
StepsOn(p, n) ==
    \A k \in 1 .. n - 1 :
        <<p[k + 1][1] - p[k][1], p[k + 1][2] - p[k][2]>> \in {<<1, 0>>, <<0, 1>>, <<1, 1>>}

At(local, c) == local[c[1]][c[2]]

Sums(c, local, p, n) ==
    \A k \in 1 .. n : c[k] = At(local, p[k]) + IF k = 1 THEN 0 ELSE c[k - 1]

AreCosts(c, local, p, n) == c \in [1 .. n -> Nat] /\ Sums(c, local, p, n)

LEMMA AtIsNat ==
    ASSUME NEW local \in Tables, NEW c \in Cells
    PROVE  At(local, c) \in Nat
BY DEF Tables, Cells, At

LEMMA CostsAreUnique ==
    ASSUME NEW local \in Tables, NEW n \in Nat, NEW p \in [1 .. n -> Cells],
           NEW c, AreCosts(c, local, p, n), NEW d, Sums(d, local, p, n)
    PROVE  \A k \in 1 .. n : d[k] = c[k]
<1>. DEFINE S == {k \in Nat : k \in 1 .. n => d[k] = c[k]}
<1>1. ASSUME NEW k \in S PROVE k + 1 \in S
  <2>. SUFFICES ASSUME k + 1 \in 1 .. n PROVE d[k + 1] = c[k + 1]
    OBVIOUS
  <2>1. CASE k = 0
    BY <2>1 DEF AreCosts, Sums
  <2>2. CASE k # 0
    <3>1. k \in 1 .. n /\ (k + 1) - 1 = k /\ k + 1 # 1
      BY <2>2
    <3>2. d[k] = c[k]
      BY <3>1
    <3>. HIDE DEF S
    <3>3. d[k + 1] = At(local, p[k + 1]) + d[k] /\ c[k + 1] = At(local, p[k + 1]) + c[k]
      BY <3>1 DEF AreCosts, Sums
    <3>. QED  BY <3>2, <3>3
  <2>. QED  BY <2>1, <2>2
<1>2. 0 \in S /\ S \in SUBSET Nat
  OBVIOUS
<1>3. S = Nat
  <2>. HIDE DEF S
  <2>. QED  BY <1>1, <1>2, Inductive
<1>. QED  BY <1>3

LEMMA PathCostsAre ==
    ASSUME NEW local \in Tables, NEW n \in Nat, NEW p \in [1 .. n -> Cells]
    PROVE  AreCosts(PathCosts(local, p), local, p, n)
<1>. DEFINE step == [k \in 1 .. n |-> [x \in Nat |-> At(local, p[k]) + x]]
<1>1. step \in [1 .. n -> [Nat -> Nat]]
  BY AtIsNat
<1>. HIDE DEF step
<1>2. PICK f \in [0 .. n -> Nat] : f[0] = 0 /\ \A k \in 1 .. n : f[k] = step[k][f[k - 1]]
  <2>1. Unfolds(Nat, 0, n, step)
    BY <1>1, Recursion
  <2>. QED  BY <2>1 DEF Unfolds
<1>. DEFINE Body(c) ==
              [k \in DOMAIN p |->
                 local[p[k][1]][p[k][2]] + IF k = 1 THEN 0 ELSE c[k - 1]]
            g == [k \in 1 .. n |-> f[k]]
<1>3. ASSUME NEW k \in 1 .. n
      PROVE  f[k] \in Nat /\ f[k] = At(local, p[k]) + IF k = 1 THEN 0 ELSE g[k - 1]
  <2>1. f[k - 1] \in Nat /\ f[k] \in Nat
    OBVIOUS
  <2>2. f[k] = At(local, p[k]) + f[k - 1]
    BY <1>2, <2>1 DEF step
  <2>3. CASE k = 1
    BY <2>2, <2>3, <1>2, AtIsNat
  <2>4. CASE k # 1
    <3>1. g[k - 1] = f[k - 1]
      BY <2>4
    <3>. QED  BY <2>1, <2>2, <2>4, <3>1
  <2>. QED  BY <2>1, <2>3, <2>4
<1>4. g = Body(g)
  <2>1. \A k \in 1 .. n : g[k] = At(local, p[k]) + IF k = 1 THEN 0 ELSE g[k - 1]
    BY <1>3
  <2>2. \A k \in 1 .. n : g[k] = Body(g)[k]
    BY <2>1 DEF At
  <2>3. g = [k \in 1 .. n |-> g[k]] /\ Body(g) = [k \in 1 .. n |-> Body(g)[k]]
    OBVIOUS
  <2>. HIDE DEF g, Body
  <2>. QED  BY <2>2, <2>3
<1>. DEFINE costs == CHOOSE c : c = Body(c)
<1>5. costs = Body(costs)
  <2>. HIDE DEF Body, g
  <2>. QED  BY <1>4
<1>6. PathCosts(local, p) = costs
  BY DEF PathCosts
<1>. HIDE DEF costs
<1>7. /\ costs = [k \in 1 .. n |-> costs[k]]
      /\ \A k \in 1 .. n : costs[k] = At(local, p[k]) + IF k = 1 THEN 0 ELSE costs[k - 1]
  BY <1>5 DEF At
<1>8. AreCosts(g, local, p, n)
  <2>1. \A k \in 1 .. n : g[k] = At(local, p[k]) + IF k = 1 THEN 0 ELSE g[k - 1]
    BY <1>3
  <2>2. g \in [1 .. n -> Nat]
    OBVIOUS
  <2>. HIDE DEF g
  <2>. QED  BY <2>1, <2>2 DEF AreCosts, Sums
<1>9. \A k \in 1 .. n : costs[k] = g[k]
  <2>. HIDE DEF g
  <2>1. Sums(costs, local, p, n)
    BY <1>7 DEF Sums
  <2>. QED  BY <2>1, <1>8, CostsAreUnique
<1>10. \A k \in 1 .. n : costs[k] \in Nat
  BY <1>9
<1>11. costs \in [1 .. n -> Nat]
  BY <1>7, <1>10
<1>. QED  BY <1>6, <1>7, <1>11 DEF AreCosts, Sums
Reached(table, c) == table[c[1]][c[2]]

\* A cell costs what its local distance adds to a cell it may be entered from, and
\* no more than by way of any of them.
LEMMA EnteredCheapest ==
    ASSUME NEW local \in Tables, NEW table, IsTable(table, local),
           NEW c \in Cells, NEW d \in Cells,
           <<d[1] - c[1], d[2] - c[2]>> \in {<<1, 0>>, <<0, 1>>, <<1, 1>>}
    PROVE  /\ Reached(table, c).cost \in Nat /\ Reached(table, d).cost \in Nat
           /\ Reached(table, d).cost <= Reached(table, c).cost + At(local, d)
<1>. DEFINE i == d[1]
            j == d[2]
            h == c[1]
            k == c[2]
<1>1. i \in 1 .. Compared /\ j \in 1 .. Compared /\ h \in 1 .. Compared /\ k \in 1 .. Compared
  BY DEF Cells
<1>2. \/ i = h + 1 /\ j = k
      \/ i = h /\ j = k + 1
      \/ i = h + 1 /\ j = k + 1
  <2>1. \A a, b, x, y : <<a, b>> = <<x, y>> => a = x /\ b = y
    OBVIOUS
  <2>2. \/ d[1] - c[1] = 1 /\ d[2] - c[2] = 0
        \/ d[1] - c[1] = 0 /\ d[2] - c[2] = 1
        \/ d[1] - c[1] = 1 /\ d[2] - c[2] = 1
    BY <2>1
  <2>. QED  BY <1>1, <2>2
<1>3. At(local, d) \in Nat
  BY AtIsNat
<1>4. /\ table[h][k] \in Aligned /\ table[i][j] \in Aligned
      /\ table[i][j] = Extended(Entered(table, i, j), local[i][j])
  BY <1>1, CellIs
<1>6. table[i][j].cost = Entered(table, i, j).cost + At(local, d)
  BY <1>4 DEF Extended, At
<1>. HIDE DEF i, j, h, k
<1>5. Entered(table, i, j).cost \in Nat /\ Entered(table, i, j).cost <= table[h][k].cost
  <2>1. CASE i = 1
    <3>1. i = h /\ j = k + 1
      BY <1>1, <1>2, <2>1, Numbers
    <3>2. j > 1 /\ j - 1 = k
      BY <1>1, <3>1, Numbers
    <3>3. Entered(table, i, j) = table[h][k]
      BY <2>1, <3>1, <3>2 DEF Entered
    <3>. QED  BY <1>4, <3>3 DEF Aligned
  <2>2. CASE j = 1
    <3>1. i = h + 1 /\ j = k
      BY <1>1, <1>2, <2>2, Numbers
    <3>2. i > 1 /\ i - 1 = h
      BY <1>1, <3>1, Numbers
    <3>3. Entered(table, i, j) = table[h][k]
      BY <2>2, <3>1, <3>2 DEF Entered
    <3>. QED  BY <1>4, <3>3 DEF Aligned
  <2>3. CASE i # 1 /\ j # 1
    <3>1. i - 1 \in 1 .. Compared /\ j - 1 \in 1 .. Compared
      BY <1>1, <2>3, Numbers
    <3>. DEFINE up == table[i - 1][j]
                left == table[i][j - 1]
                diagonal == table[i - 1][j - 1]
    <3>2. up \in Aligned /\ left \in Aligned /\ diagonal \in Aligned
      BY <1>1, <3>1, CellIs
    <3>3. Entered(table, i, j) = Cheapest(up, left, diagonal)
      BY <2>3 DEF Entered
    <3>4. table[h][k] \in {up, left, diagonal}
      <4>1. \/ i - 1 = h /\ j = k
            \/ i = h /\ j - 1 = k
            \/ i - 1 = h /\ j - 1 = k
        BY <1>1, <1>2, Numbers
      <4>. QED  BY <4>1
    <3>. HIDE DEF up, left, diagonal
    <3>5. /\ Cheapest(up, left, diagonal) \in {up, left, diagonal}
          /\ Cheapest(up, left, diagonal).cost <= up.cost
          /\ Cheapest(up, left, diagonal).cost <= left.cost
          /\ Cheapest(up, left, diagonal).cost <= diagonal.cost
      BY <3>2, CheapestIs
    <3>6. Cheapest(up, left, diagonal).cost \in Nat
      BY <3>2, <3>5 DEF Aligned
    <3>. QED  BY <3>3, <3>4, <3>5, <3>6
  <2>. QED  BY <2>1, <2>2, <2>3
<1>7. table[h][k].cost \in Nat /\ table[i][j].cost \in Nat
  BY <1>4 DEF Aligned
<1>8. table[i][j].cost <= table[h][k].cost + At(local, d)
  BY <1>3, <1>5, <1>6, <1>7
<1>. QED  BY <1>7, <1>8 DEF Reached, i, j, h, k

\* No path is cheaper than the table.
LEMMA PathCostsMore ==
    ASSUME NEW local \in Tables, NEW table, IsTable(table, local),
           NEW n \in Nat, NEW p \in [1 .. n -> Cells], NEW c, AreCosts(c, local, p, n),
           p[1] = <<1, 1>>, StepsOn(p, n)
    PROVE  \A k \in 1 .. n : Reached(table, p[k]).cost <= c[k]
<1>. DEFINE S == {k \in Nat : k \in 1 .. n => Reached(table, p[k]).cost <= c[k]}
<1>1. ASSUME NEW k \in S PROVE k + 1 \in S
  <2>. SUFFICES ASSUME k + 1 \in 1 .. n PROVE Reached(table, p[k + 1]).cost <= c[k + 1]
    OBVIOUS
  <2>1. c[k + 1] = At(local, p[k + 1]) + IF k + 1 = 1 THEN 0 ELSE c[(k + 1) - 1]
    BY DEF AreCosts, Sums
  <2>2. At(local, p[k + 1]) \in Nat
    BY AtIsNat
  <2>3. CASE k = 0
    <3>1. 1 \in 1 .. Compared
      BY Numbers
    <3>2. table[1][1] = Extended(Zero, local[1][1])
      <4>1. table[1][1] = Extended(Entered(table, 1, 1), local[1][1])
        BY <3>1, CellIs
      <4>2. Entered(table, 1, 1) = Zero
        BY DEF Entered
      <4>. QED  BY <4>1, <4>2
    <3>3. Reached(table, p[1]) = table[1][1] /\ At(local, p[1]) = local[1][1]
      BY DEF Reached, At
    <3>4. Reached(table, p[1]).cost = 0 + At(local, p[1])
      BY <3>2, <3>3 DEF Extended, Zero
    <3>. QED  BY <2>1, <2>2, <2>3, <3>4
  <2>4. CASE k # 0
    <3>1. k \in 1 .. n /\ k \in 1 .. n - 1 /\ (k + 1) - 1 = k /\ k + 1 # 1
      BY <2>4
    <3>2. Reached(table, p[k]).cost <= c[k]
      BY <3>1
    <3>. HIDE DEF S
    <3>3. p[k] \in Cells /\ p[k + 1] \in Cells
      BY <3>1
    <3>4. <<p[k + 1][1] - p[k][1], p[k + 1][2] - p[k][2]>> \in {<<1, 0>>, <<0, 1>>, <<1, 1>>}
      BY <3>1 DEF StepsOn
    <3>5. /\ Reached(table, p[k]).cost \in Nat /\ Reached(table, p[k + 1]).cost \in Nat
          /\ Reached(table, p[k + 1]).cost <= Reached(table, p[k]).cost + At(local, p[k + 1])
      BY <3>3, <3>4, EnteredCheapest
    <3>6. c[k + 1] = At(local, p[k + 1]) + c[k] /\ c[k] \in Nat
      BY <2>1, <3>1 DEF AreCosts
    <3>. QED  BY <2>2, <3>2, <3>5, <3>6
  <2>. QED  BY <2>3, <2>4
<1>2. 0 \in S /\ S \in SUBSET Nat
  OBVIOUS
<1>3. S = Nat
  <2>. HIDE DEF S
  <2>. QED  BY <1>1, <1>2, Inductive
<1>. QED  BY <1>3

\* A path to a cell with the cost and the length the table has there.
Leads(p, n, c, local, table, i, j) ==
    /\ p \in [1 .. n -> Cells] /\ StepsOn(p, n)
    /\ p[1] = <<1, 1>> /\ p[n] = <<i, j>>
    /\ AreCosts(c, local, p, n)
    /\ c[n] = table[i][j].cost /\ n = table[i][j].length

LEMMA PathGoesOn ==
    ASSUME NEW local \in Tables, NEW table, IsTable(table, local),
           NEW h \in 1 .. Compared, NEW k \in 1 .. Compared,
           NEW i \in 1 .. Compared, NEW j \in 1 .. Compared,
           \/ i = h + 1 /\ j = k
           \/ i = h /\ j = k + 1
           \/ i = h + 1 /\ j = k + 1,
           table[i][j] = Extended(table[h][k], local[i][j]),
           NEW n \in Nat, n >= 1, NEW p, NEW c, Leads(p, n, c, local, table, h, k)
    PROVE  \E q, e : Leads(q, n + 1, e, local, table, i, j)
<1>1. /\ p \in [1 .. n -> Cells] /\ StepsOn(p, n)
      /\ p[1] = <<1, 1>> /\ p[n] = <<h, k>>
      /\ c \in [1 .. n -> Nat] /\ Sums(c, local, p, n)
      /\ c[n] = table[h][k].cost /\ n = table[h][k].length
  BY DEF Leads, AreCosts
<1>2. <<i, j>> \in Cells /\ local[i][j] \in Nat /\ c[n] \in Nat
  <2>1. local[i] \in [1 .. Compared -> Nat]
    BY DEF Tables
  <2>2. <<i, j>> \in Cells
    BY DEF Cells
  <2>3. n \in 1 .. n
    OBVIOUS
  <2>4. c[n] \in Nat
    BY <1>1, <2>3
  <2>. QED  BY <2>1, <2>2, <2>4
<1>. DEFINE q == [m \in 1 .. n + 1 |-> IF m = n + 1 THEN <<i, j>> ELSE p[m]]
            e == [m \in 1 .. n + 1 |-> IF m = n + 1 THEN c[n] + local[i][j] ELSE c[m]]
<1>3. q \in [1 .. n + 1 -> Cells] /\ e \in [1 .. n + 1 -> Nat]
  <2>1. c[n] + local[i][j] \in Nat
    BY <1>2
  <2>2. ASSUME NEW m \in 1 .. n + 1, m # n + 1 PROVE p[m] \in Cells /\ c[m] \in Nat
    <3>1. m \in 1 .. n
      BY <2>2
    <3>. QED  BY <1>1, <3>1
  <2>. QED  BY <1>2, <2>1, <2>2
<1>4. /\ q[n + 1] = <<i, j>> /\ e[n + 1] = c[n] + local[i][j]
      /\ \A m \in 1 .. n : q[m] = p[m] /\ e[m] = c[m]
  OBVIOUS
<1>. HIDE DEF q, e
<1>5. StepsOn(q, n + 1)
  <2>. SUFFICES ASSUME NEW m \in 1 .. n
                PROVE  <<q[m + 1][1] - q[m][1], q[m + 1][2] - q[m][2]>>
                           \in {<<1, 0>>, <<0, 1>>, <<1, 1>>}
    <3>1. (n + 1) - 1 = n
      OBVIOUS
    <3>. QED  BY <3>1 DEF StepsOn
  <2>1. CASE m = n
    <3>1. q[m + 1] = <<i, j>> /\ q[m] = <<h, k>>
      BY <1>1, <1>4, <2>1
    <3>. QED  BY <3>1
  <2>2. CASE m # n
    <3>1. m \in 1 .. n - 1 /\ m + 1 \in 1 .. n
      BY <2>2
    <3>2. q[m] = p[m] /\ q[m + 1] = p[m + 1]
      BY <1>4, <3>1
    <3>. QED  BY <1>1, <3>1, <3>2 DEF StepsOn
  <2>. QED  BY <2>1, <2>2
<1>6. Sums(e, local, q, n + 1)
  <2>. SUFFICES ASSUME NEW m \in 1 .. n + 1
                PROVE  e[m] = At(local, q[m]) + IF m = 1 THEN 0 ELSE e[m - 1]
    BY DEF Sums
  <2>1. CASE m = n + 1
    <3>1. m - 1 = n /\ m # 1 /\ e[n] = c[n]
      BY <1>4, <2>1
    <3>2. At(local, q[m]) = local[i][j]
      BY <1>4, <2>1 DEF At
    <3>. QED  BY <1>2, <1>4, <2>1, <3>1, <3>2
  <2>2. CASE m = 1 /\ m # n + 1
    <3>1. c[m] = At(local, p[m]) + 0
      BY <1>1, <2>2 DEF Sums
    <3>. QED  BY <1>4, <2>2, <3>1
  <2>3. CASE m # 1 /\ m # n + 1
    <3>1. m \in 1 .. n /\ m - 1 \in 1 .. n
      BY <2>3
    <3>2. c[m] = At(local, p[m]) + c[m - 1]
      BY <1>1, <2>3, <3>1 DEF Sums
    <3>. QED  BY <1>4, <2>3, <3>1, <3>2
  <2>. QED  BY <2>1, <2>2, <2>3
<1>7. q[1] = <<1, 1>>
  <2>1. 1 \in 1 .. n /\ p[1] = <<1, 1>>
    BY <1>1
  <2>. QED  BY <1>4, <2>1
<1>8. e[n + 1] = table[i][j].cost /\ n + 1 = table[i][j].length
  <2>1. c[n] = table[h][k].cost /\ n = table[h][k].length /\ e[n + 1] = c[n] + local[i][j]
    BY <1>1, <1>4
  <2>2. /\ table[i][j].cost = table[h][k].cost + local[i][j]
        /\ table[i][j].length = table[h][k].length + 1
    BY DEF Extended
  <2>. QED  BY <2>1, <2>2
<1>. QED  BY <1>3, <1>4, <1>5, <1>6, <1>7, <1>8 DEF Leads, AreCosts

\* Every cell is reached by a path that goes on in each step.
LEMMA PathExists ==
    ASSUME NEW local \in Tables, NEW table, IsTable(table, local),
           NEW i \in 1 .. Compared, NEW j \in 1 .. Compared
    PROVE  \E n \in 1 .. i + j - 1 : \E p, c : Leads(p, n, c, local, table, i, j)
<1>. DEFINE Exists(x, y) ==
              \E n \in 1 .. x + y - 1 : \E p, c : Leads(p, n, c, local, table, x, y)
            S == {m \in Nat : \A x, y \in 1 .. Compared : x + y <= m + 2 => Exists(x, y)}
<1>1. Exists(1, 1)
  <2>. DEFINE p == [m \in 1 .. 1 |-> <<1, 1>>]
              c == [m \in 1 .. 1 |-> local[1][1]]
  <2>1. 1 \in 1 .. Compared
    BY Numbers
  <2>2. local[1][1] \in Nat /\ <<1, 1>> \in Cells
    BY <2>1 DEF Tables, Cells
  <2>3. p \in [1 .. 1 -> Cells] /\ c \in [1 .. 1 -> Nat] /\ p[1] = <<1, 1>> /\ c[1] = local[1][1]
    BY <2>2
  <2>4. table[1][1] = Extended(Zero, local[1][1])
    <3>1. table[1][1] = Extended(Entered(table, 1, 1), local[1][1])
      BY <2>1, CellIs
    <3>2. Entered(table, 1, 1) = Zero
      BY DEF Entered
    <3>. QED  BY <3>1, <3>2
  <2>5. table[1][1].cost = local[1][1] /\ table[1][1].length = 1
    BY <2>2, <2>4 DEF Extended, Zero
  <2>6. At(local, <<1, 1>>) = local[1][1]
    BY DEF At
  <2>. HIDE DEF p, c
  <2>7. Sums(c, local, p, 1)
    BY <2>2, <2>3, <2>6 DEF Sums
  <2>8. StepsOn(p, 1)
    BY DEF StepsOn
  <2>9. Leads(p, 1, c, local, table, 1, 1)
    BY <2>3, <2>5, <2>7, <2>8 DEF Leads, AreCosts
  <2>. QED  BY <2>9
<1>2. 0 \in S
  <2>1. ASSUME NEW x \in 1 .. Compared, NEW y \in 1 .. Compared, x + y <= 2 PROVE x = 1 /\ y = 1
    BY <2>1
  <2>. HIDE DEF Exists
  <2>2. \A x, y \in 1 .. Compared : x + y <= 0 + 2 => Exists(x, y)
    BY <1>1, <2>1
  <2>. QED  BY <2>2
<1>3. ASSUME NEW m \in S PROVE m + 1 \in S
  <2>. SUFFICES ASSUME NEW x \in 1 .. Compared, NEW y \in 1 .. Compared, x + y <= m + 3
                PROVE  Exists(x, y)
    <3>. HIDE DEF Exists
    <3>1. m \in Nat /\ (m + 1) + 2 = m + 3
      OBVIOUS
    <3>. QED  BY <3>1
  <2>1. CASE x = 1 /\ y = 1
    BY <2>1, <1>1
  <2>2. CASE ~(x = 1 /\ y = 1)
    <3>1. PICK h \in 1 .. Compared, k \in 1 .. Compared :
              /\ \/ x = h + 1 /\ y = k
                 \/ x = h /\ y = k + 1
                 \/ x = h + 1 /\ y = k + 1
              /\ Entered(table, x, y) = table[h][k]
      <4>1. CASE x = 1
        <5>1. y - 1 \in 1 .. Compared /\ Entered(table, x, y) = table[x][y - 1]
          BY <2>2, <4>1, Numbers DEF Entered
        <5>. QED  BY <5>1
      <4>2. CASE y = 1
        <5>1. x - 1 \in 1 .. Compared /\ Entered(table, x, y) = table[x - 1][y]
          BY <2>2, <4>2, Numbers DEF Entered
        <5>. QED  BY <5>1
      <4>3. CASE x # 1 /\ y # 1
        <5>1. x - 1 \in 1 .. Compared /\ y - 1 \in 1 .. Compared
          BY <4>3, Numbers
        <5>. DEFINE up == table[x - 1][y]
                    left == table[x][y - 1]
                    diagonal == table[x - 1][y - 1]
        <5>2. up \in Aligned /\ left \in Aligned /\ diagonal \in Aligned
          BY <5>1, CellIs
        <5>3. Entered(table, x, y) = Cheapest(up, left, diagonal)
          BY <4>3 DEF Entered
        <5>4. Cheapest(up, left, diagonal) \in {up, left, diagonal}
          <6>. HIDE DEF up, left, diagonal
          <6>. QED  BY <5>2, CheapestIs
        <5>. QED  BY <5>1, <5>3, <5>4
      <4>. QED  BY <4>1, <4>2, <4>3
    <3>2. h + k <= m + 2 /\ m \in Nat
      BY <3>1
    <3>3. Exists(h, k)
      <4>. HIDE DEF Exists
      <4>. QED  BY <3>2
    <3>4. PICK n \in 1 .. h + k - 1 : \E p, c : Leads(p, n, c, local, table, h, k)
      BY <3>3
    <3>5. PICK p, c : Leads(p, n, c, local, table, h, k)
      BY <3>4
    <3>6. table[x][y] = Extended(table[h][k], local[x][y])
      BY <3>1, CellIs
    <3>7. n \in Nat /\ n >= 1 /\ n + 1 \in 1 .. x + y - 1
      BY <3>1
    <3>8. \E q, e : Leads(q, n + 1, e, local, table, x, y)
      BY <3>1, <3>5, <3>6, <3>7, PathGoesOn
    <3>. QED  BY <3>7, <3>8
  <2>. QED  BY <2>1, <2>2
<1>4. S \in SUBSET Nat
  OBVIOUS
<1>5. S = Nat
  <2>. HIDE DEF S
  <2>. QED  BY <1>2, <1>3, <1>4, Inductive
<1>6. i + j \in Nat /\ i + j <= (i + j) + 2
  OBVIOUS
<1>. QED  BY <1>5, <1>6
LEMMA AlignmentBest ==
    ASSUME NEW local \in Tables
    PROVE  /\ Alignment(local).cost \in Nat /\ Alignment(local).length \in Nat \ {0}
           /\ \A p \in WarpingPaths : PathCosts(local, p)[Len(p)] >= Alignment(local).cost
           /\ \E p \in WarpingPaths : /\ PathCosts(local, p)[Len(p)] = Alignment(local).cost
                                      /\ Len(p) = Alignment(local).length
<1>. DEFINE N == Compared
<1>1. N \in Nat \ {0} /\ N \in 1 .. N /\ N + N - 1 = 2 * N - 1 /\ 2 * N - 1 \in Nat
  BY Numbers
<1>2. PICK table : IsTable(table, local) /\ Alignment(local) = table[N][N]
  BY AlignmentIs
<1>3. table[N][N] \in Aligned
  BY <1>1, <1>2, CellIs
<1>4. ASSUME NEW p \in WarpingPaths
      PROVE  PathCosts(local, p)[Len(p)] >= Alignment(local).cost
  <2>1. PICK n \in 1 .. 2 * N - 1 : p \in [1 .. n -> Cells] /\ IsPath(p)
    BY DEF WarpingPaths
  <2>2. n \in Nat /\ n \in 1 .. n /\ p \in [1 .. n -> Cells] /\ Len(p) = n
    BY <1>1, <2>1
  <2>3. p[1] = <<1, 1>> /\ p[n] = <<N, N>> /\ StepsOn(p, n)
    BY <2>1, <2>2 DEF IsPath, StepsOn
  <2>4. AreCosts(PathCosts(local, p), local, p, n)
    BY <2>2, PathCostsAre
  <2>5. Reached(table, p[n]).cost <= PathCosts(local, p)[n]
    BY <1>2, <2>2, <2>3, <2>4, PathCostsMore
  <2>6. Reached(table, p[n]) = table[N][N]
    BY <2>3 DEF Reached
  <2>7. PathCosts(local, p)[n] \in Nat /\ table[N][N].cost \in Nat
    BY <1>3, <2>2, <2>4 DEF AreCosts, Aligned
  <2>. QED  BY <1>2, <2>2, <2>5, <2>6, <2>7
<1>5. PICK n \in 1 .. 2 * N - 1 : \E p, c : Leads(p, n, c, local, table, N, N)
  BY <1>1, <1>2, PathExists
<1>6. PICK p, c : Leads(p, n, c, local, table, N, N)
  BY <1>5
<1>7. n \in Nat /\ n \in 1 .. n /\ p \in [1 .. n -> Cells] /\ Len(p) = n
  BY <1>1, <1>6 DEF Leads
<1>8. p \in WarpingPaths
  <2>1. IsPath(p)
    BY <1>6, <1>7 DEF IsPath, Leads, StepsOn
  <2>. QED  BY <1>6, <1>7, <2>1 DEF WarpingPaths
<1>9. PathCosts(local, p)[n] = c[n]
  <2>1. AreCosts(c, local, p, n) /\ Sums(PathCosts(local, p), local, p, n)
    BY <1>6, <1>7, PathCostsAre DEF Leads, AreCosts
  <2>. QED  BY <1>7, <2>1, CostsAreUnique
<1>10. PathCosts(local, p)[Len(p)] = Alignment(local).cost /\ Len(p) = Alignment(local).length
  BY <1>2, <1>6, <1>7, <1>9 DEF Leads
<1>11. Alignment(local).cost \in Nat /\ Alignment(local).length \in Nat \ {0}
  <2>1. n \in Nat \ {0}
    BY <1>7
  <2>. QED  BY <1>2, <1>3, <1>7, <1>10, <2>1 DEF Aligned
<1>. QED  BY <1>4, <1>8, <1>10, <1>11

LEMMA DistanceIsNat ==
    ASSUME NEW s \in [1 .. Compared -> Frames], NEW t \in [1 .. Compared -> Frames]
    PROVE  Distance(s, t) \in Nat
<1>. DEFINE a == Alignment(Local(s, t))
<1>1. a.cost \in Nat /\ a.length \in Nat \ {0}
  BY LocalTyped, AlignmentBest
<1>2. Distance(s, t) = a.cost \div a.length
  BY DEF Distance
<1>3. \A n \in Nat, d \in Nat \ {0} : n \div d \in Nat
  OBVIOUS
<1>. HIDE DEF a
<1>. QED  BY <1>1, <1>2, <1>3, Zenon
-----------------------------------------------------------------------------
(* The vote                                                                 *)

\* Samples with their distance, of which each has a motion and a name of its own.
Samples == [motion : Nat, sample : Nat, distance : Nat]

AreSamples(S) ==
    /\ S \subseteq Samples /\ IsFiniteSet(S)
    /\ \A t, u \in S : t.motion = u.motion /\ t.sample = u.sample => t = u

\* The sum of their distances, as the fold computes it.
SumOver(S, iter) ==
    [s \in SUBSET S |-> IF s = {} THEN 0
                        ELSE LET x == CHOOSE x \in s : TRUE
                             IN  x.distance + iter[s \ {x}]]

LEMMA TotalIs ==
    ASSUME NEW S
    PROVE  Total(S) = (CHOOSE iter : iter = SumOver(S, iter))[S]
<1>1. Total(S) = LET iter[s \in SUBSET S] ==
                        IF s = {} THEN 0
                        ELSE LET x == CHOOSE x \in s : TRUE
                             IN  x.distance + iter[s \ {x}]
                 IN  iter[S]
  BY DEF Total, MapThenSumSet, MapThenFoldSet
<1>. QED  BY <1>1 DEF SumOver

\* One element less.
LEMMA TakenOut ==
    ASSUME NEW S, IsFiniteSet(S), NEW s \in SUBSET S, s # {}, NEW x, x = CHOOSE y \in s : TRUE
    PROVE  /\ x \in s /\ s \ {x} \in SUBSET S
           /\ Cardinality(s) \in Nat /\ Cardinality(s \ {x}) = Cardinality(s) - 1
           /\ Cardinality(s \ {x}) \in Nat
<1>1. x \in s
  OBVIOUS
<1>2. IsFiniteSet(s)
  BY FS_Subset
<1>3. Cardinality(s) \in Nat /\ IsFiniteSet(s \ {x}) /\ Cardinality(s \ {x}) = Cardinality(s) - 1
  BY <1>1, <1>2, FS_CardinalityType, FS_RemoveElement
<1>4. Cardinality(s \ {x}) \in Nat
  BY <1>3, FS_CardinalityType
<1>. QED  BY <1>1, <1>3, <1>4

LEMMA SumExists ==
    ASSUME NEW S, IsFiniteSet(S), S \subseteq Samples
    PROVE  \E iter : iter = SumOver(S, iter)
<1>. DEFINE T == [SUBSET S -> Nat]
            N == Cardinality(S)
            start == [s \in SUBSET S |-> 0]
            step == [i \in 1 .. N + 1 |-> [h \in T |-> SumOver(S, h)]]
<1>1. N \in Nat /\ N + 1 \in Nat
  BY FS_CardinalityType
<1>2. ASSUME NEW h \in T PROVE SumOver(S, h) \in T
  <2>. SUFFICES ASSUME NEW s \in SUBSET S, s # {}
                PROVE  LET x == CHOOSE x \in s : TRUE IN x.distance + h[s \ {x}] \in Nat
    BY DEF SumOver
  <2>. DEFINE x == CHOOSE x \in s : TRUE
  <2>1. x \in s
    OBVIOUS
  <2>2. x.distance \in Nat
    BY <2>1 DEF Samples
  <2>3. h[s \ {x}] \in Nat
    OBVIOUS
  <2>. HIDE DEF x
  <2>4. x.distance + h[s \ {x}] \in Nat
    BY <2>2, <2>3
  <2>. QED  BY <2>4 DEF x
<1>3. start \in T
  OBVIOUS
<1>. HIDE DEF T, N, start
<1>4. step \in [1 .. N + 1 -> [T -> T]]
  BY <1>2
<1>. HIDE DEF step
<1>5. PICK f \in [0 .. N + 1 -> T] :
          f[0] = start /\ \A i \in 1 .. N + 1 : f[i] = step[i][f[i - 1]]
  <2>1. Unfolds(T, start, N + 1, step)
    BY <1>1, <1>3, <1>4, Recursion
  <2>. QED  BY <2>1 DEF Unfolds
<1>6. ASSUME NEW i \in 1 .. N + 1 PROVE f[i] = SumOver(S, f[i - 1])
  <2>1. f[i - 1] \in T
    BY <1>1
  <2>. QED  BY <1>5, <2>1 DEF step
\* What f has for small sets does not change any more.
<1>. DEFINE B == {k \in Nat : k <= N =>
                    \A s \in SUBSET S : Cardinality(s) <= k => f[k + 1][s] = f[k][s]}
<1>7. 0 \in B
  <2>. SUFFICES ASSUME NEW s \in SUBSET S, Cardinality(s) <= 0 PROVE f[1][s] = f[0][s]
    OBVIOUS
  <2>1. IsFiniteSet(s) /\ Cardinality(s) \in Nat
    BY FS_Subset, FS_CardinalityType
  <2>2. s = {}
    BY <2>1, FS_EmptySet
  <2>3. 1 \in 1 .. N + 1 /\ f[1] = SumOver(S, f[1 - 1])
    BY <1>1, <1>6
  <2>. QED  BY <2>2, <2>3, <1>5 DEF SumOver, start
<1>8. ASSUME NEW k \in B PROVE k + 1 \in B
  <2>. SUFFICES ASSUME k + 1 <= N, NEW s \in SUBSET S, Cardinality(s) <= k + 1
                PROVE  f[k + 2][s] = f[k + 1][s]
    <3>1. (k + 1) + 1 = k + 2
      OBVIOUS
    <3>. QED  BY <3>1
  <2>1. /\ k + 1 \in 1 .. N + 1 /\ k + 2 \in 1 .. N + 1
        /\ (k + 1) - 1 = k /\ (k + 2) - 1 = k + 1
    BY <1>1
  <2>2. f[k + 1] = SumOver(S, f[k]) /\ f[k + 2] = SumOver(S, f[k + 1])
    BY <1>6, <2>1
  <2>3. CASE s = {}
    BY <2>2, <2>3 DEF SumOver
  <2>4. CASE s # {}
    <3>. DEFINE x == CHOOSE x \in s : TRUE
    <3>1. /\ s \ {x} \in SUBSET S /\ Cardinality(s) \in Nat
          /\ Cardinality(s \ {x}) = Cardinality(s) - 1
      BY <2>4, TakenOut
    <3>2. f[k + 1][s] = x.distance + f[k][s \ {x}] /\ f[k + 2][s] = x.distance + f[k + 1][s \ {x}]
      BY <2>2, <2>4 DEF SumOver
    <3>. HIDE DEF x
    <3>3. Cardinality(s \ {x}) <= k /\ k <= N
      BY <1>1, <3>1
    <3>4. f[k + 1][s \ {x}] = f[k][s \ {x}]
      BY <3>1, <3>3
    <3>. QED  BY <3>2, <3>4
  <2>. QED  BY <2>3, <2>4
<1>9. B = Nat
  <2>1. B \in SUBSET Nat
    OBVIOUS
  <2>. HIDE DEF B
  <2>. QED  BY <1>7, <1>8, <2>1, Inductive
<1>10. ASSUME NEW s \in SUBSET S PROVE f[N + 1][s] = f[N][s]
  <2>1. Cardinality(s) <= N
    BY FS_Subset DEF N
  <2>2. N \in B
    <3>. HIDE DEF B
    <3>. QED  BY <1>1, <1>9
  <2>3. N <= N
    BY <1>1
  <2>. QED  BY <2>1, <2>2, <2>3
<1>11. f[N + 1] = SumOver(S, f[N])
  <2>1. N + 1 \in 1 .. N + 1 /\ (N + 1) - 1 = N
    BY <1>1
  <2>. QED  BY <1>6, <2>1
<1>12. f[N + 1] = f[N]
  <2>1. f[N + 1] \in T /\ f[N] \in T
    BY <1>1
  <2>. QED  BY <1>10, <2>1 DEF T
<1>. QED  BY <1>11, <1>12

LEMMA TotalIsNat ==
    ASSUME NEW S, IsFiniteSet(S), S \subseteq Samples
    PROVE  Total(S) \in Nat
<1>. DEFINE iter == CHOOSE g : g = SumOver(S, g)
<1>1. iter = SumOver(S, iter)
  BY SumExists
<1>2. Total(S) = iter[S]
  BY TotalIs
<1>. HIDE DEF iter
<1>. DEFINE B == {k \in Nat : \A s \in SUBSET S : Cardinality(s) = k => iter[s] \in Nat}
<1>3. 0 \in B
  <2>. SUFFICES ASSUME NEW s \in SUBSET S, Cardinality(s) = 0 PROVE iter[s] \in Nat
    OBVIOUS
  <2>1. s = {}
    BY FS_Subset, FS_EmptySet
  <2>2. iter[s] = 0
    BY <1>1, <2>1 DEF SumOver
  <2>. QED  BY <2>2
<1>4. ASSUME NEW k \in B PROVE k + 1 \in B
  <2>. SUFFICES ASSUME NEW s \in SUBSET S, Cardinality(s) = k + 1 PROVE iter[s] \in Nat
    OBVIOUS
  <2>1. s # {}
    BY FS_EmptySet
  <2>. DEFINE x == CHOOSE x \in s : TRUE
  <2>2. /\ x \in s /\ s \ {x} \in SUBSET S
        /\ Cardinality(s \ {x}) = Cardinality(s) - 1
    BY <2>1, TakenOut
  <2>3. iter[s] = x.distance + iter[s \ {x}]
    BY <1>1, <2>1 DEF SumOver
  <2>. HIDE DEF x
  <2>4. Cardinality(s \ {x}) = k
    BY <2>2
  <2>5. iter[s \ {x}] \in Nat
    BY <2>2, <2>4
  <2>6. x.distance \in Nat
    BY <2>2 DEF Samples
  <2>. QED  BY <2>3, <2>5, <2>6
<1>5. B = Nat
  <2>1. B \in SUBSET Nat
    OBVIOUS
  <2>. HIDE DEF B
  <2>. QED  BY <1>3, <1>4, <2>1, Inductive
<1>6. Cardinality(S) \in Nat
  BY FS_CardinalityType
<1>. QED  BY <1>2, <1>5, <1>6
\* What a function makes of a finite set is finite.
LEMMA ImageIsFinite ==
    ASSUME NEW S, IsFiniteSet(S), NEW f, f = [x \in S |-> f[x]]
    PROVE  IsFiniteSet({f[x] : x \in S})
<1>. DEFINE T == {f[x] : x \in S}
<1>1. f \in Surjection(S, T)
  BY DEF Surjection
<1>. HIDE DEF T
<1>2. IsFiniteSet(T)
  BY <1>1, FS_Surjection
<1>. QED  BY <1>2 DEF T

\* A nonempty set of samples has one before all others.
LEMMA NearestExists ==
    ASSUME NEW S, AreSamples(S), S # {}
    PROVE  \E t \in S : \A u \in S \ {t} : Before(t, u) /\ ~Before(u, t)
<1>0. \A t \in S : t.distance \in Nat /\ t.motion \in Nat /\ t.sample \in Nat
  BY DEF AreSamples, Samples
<1>1. PICK t1 \in S : \A u \in S : t1.distance <= u.distance
  <2>. DEFINE D == {t.distance : t \in S}
  <2>1. PICK d \in D : \A e \in D : d <= e
    <3>1. D \in SUBSET Nat /\ D # {}
      BY <1>0
    <3>. HIDE DEF D
    <3>. QED  BY <3>1, Smallest
  <2>. QED  BY <2>1
<1>. DEFINE S1 == {t \in S : t.distance = t1.distance}
<1>2. PICK t2 \in S1 : \A u \in S1 : t2.motion <= u.motion
  <2>. DEFINE D == {t.motion : t \in S1}
  <2>1. PICK d \in D : \A e \in D : d <= e
    <3>1. D \in SUBSET Nat /\ D # {}
      BY <1>0
    <3>. HIDE DEF D
    <3>. QED  BY <3>1, Smallest
  <2>. QED  BY <2>1
<1>. DEFINE S2 == {t \in S1 : t.motion = t2.motion}
<1>3. PICK t3 \in S2 : \A u \in S2 : t3.sample <= u.sample
  <2>. DEFINE D == {t.sample : t \in S2}
  <2>1. PICK d \in D : \A e \in D : d <= e
    <3>1. D \in SUBSET Nat /\ D # {}
      BY <1>0
    <3>. HIDE DEF D
    <3>. QED  BY <3>1, Smallest
  <2>. QED  BY <2>1
<1>4. ASSUME NEW u \in S \ {t3} PROVE Before(t3, u) /\ ~Before(u, t3)
  <2>1. t3 \in S /\ t3.distance = t1.distance /\ t3.motion = t2.motion
    OBVIOUS
  <2>2. /\ t3.distance \in Nat /\ t3.motion \in Nat /\ t3.sample \in Nat
        /\ u.distance \in Nat /\ u.motion \in Nat /\ u.sample \in Nat
    BY <1>0, <2>1
  <2>3. t3.distance <= u.distance
    BY <1>1, <2>1
  <2>4. t3.distance = u.distance => t3.motion <= u.motion
    BY <1>2, <2>1
  <2>5. t3.distance = u.distance /\ t3.motion = u.motion => t3.sample <= u.sample
    BY <1>3, <2>1
  <2>6. t3.motion = u.motion => t3.sample # u.sample
    BY <2>1 DEF AreSamples
  <2>. HIDE DEF S1, S2
  <2>. QED  BY <2>2, <2>3, <2>4, <2>5, <2>6 DEF Before
<1>. QED  BY <1>4

\* It is the first of the voters too.
LEMMA NearestVotes ==
    ASSUME NEW S, AreSamples(S), S # {}
    PROVE  LET voters == Neighbors(S, K)
               nearest == CHOOSE t \in voters : \A u \in voters \ {t} : Before(t, u)
           IN nearest \in voters
<1>. DEFINE voters == Neighbors(S, K)
<1>1. PICK t \in S : \A u \in S \ {t} : Before(t, u) /\ ~Before(u, t)
  BY NearestExists
<1>2. {u \in S : Before(u, t)} = {}
  <2>1. t.distance \in Nat /\ t.motion \in Nat /\ t.sample \in Nat
    BY DEF AreSamples, Samples
  <2>2. ~Before(t, t)
    BY <2>1 DEF Before
  <2>. QED  BY <1>1, <2>2
<1>3. t \in voters
  BY <1>2, FS_EmptySet, Numbers DEF Neighbors
<1>4. \A u \in voters \ {t} : Before(t, u)
  BY <1>1 DEF Neighbors
<1>. HIDE DEF voters
<1>5. \E x \in voters : \A u \in voters \ {x} : Before(x, u)
  BY <1>3, <1>4
<1>6. (CHOOSE x \in voters : \A u \in voters \ {x} : Before(x, u)) \in voters
  BY <1>5
<1>. QED  BY <1>6 DEF voters

\* Of the motions that have votes, one beats all others.
LEMMA WinnerVotes ==
    ASSUME NEW S, AreSamples(S), S # {}
    PROVE  Winner(S) \in {t.motion : t \in S}
<1>. DEFINE C == {t.motion : t \in S}
            Count(m) == Cardinality(Votes(S, m))
            Sum(m) == Total(Votes(S, m))
<1>1. \A m \in C : m \in Nat /\ Count(m) \in Nat /\ Sum(m) \in Nat
  <2>. SUFFICES ASSUME NEW m \in C PROVE m \in Nat /\ Count(m) \in Nat /\ Sum(m) \in Nat
    OBVIOUS
  <2>1. m \in Nat
    BY DEF AreSamples, Samples
  <2>2. Votes(S, m) \subseteq S
    BY DEF Votes
  <2>3. Votes(S, m) \subseteq Samples /\ IsFiniteSet(Votes(S, m))
    BY <2>2, FS_Subset DEF AreSamples
  <2>4. Count(m) \in Nat /\ Sum(m) \in Nat
    BY <2>3, FS_CardinalityType, TotalIsNat
  <2>. QED  BY <2>1, <2>4
<1>2. C # {} /\ IsFiniteSet(C)
  <2>1. IsFiniteSet(S)
    BY DEF AreSamples
  <2>. DEFINE f == [t \in S |-> t.motion]
  <2>2. IsFiniteSet({f[t] : t \in S})
    <3>1. f = [t \in S |-> f[t]]
      OBVIOUS
    <3>. HIDE DEF f
    <3>. QED  BY <2>1, <3>1, ImageIsFinite
  <2>3. C = {f[t] : t \in S}
    OBVIOUS
  <2>. QED  BY <2>2, <2>3
<1>. HIDE DEF C, Count, Sum
<1>3. PICK m1 \in C : \A n \in C : Count(m1) >= Count(n)
  <2>. DEFINE D == {Count(m) : m \in C}
  <2>1. D \in SUBSET Nat /\ D # {}
    BY <1>1, <1>2
  <2>. DEFINE f == [m \in C |-> Count(m)]
  <2>2. IsFiniteSet(D)
    <3>1. f = [m \in C |-> f[m]] /\ D = {f[m] : m \in C}
      OBVIOUS
    <3>. HIDE DEF f, D
    <3>. QED  BY <1>2, <3>1, ImageIsFinite
  <2>3. Max(D) \in D /\ \A e \in D : e <= Max(D)
    <3>. HIDE DEF D
    <3>. QED  BY <2>1, <2>2, Greatest
  <2>4. PICK m \in C : Count(m) = Max(D)
    BY <2>3
  <2>5. \A n \in C : Count(n) <= Count(m)
    BY <2>3, <2>4
  <2>6. \A n \in C : Count(m) >= Count(n)
    BY <1>1, <2>5
  <2>. QED  BY <2>6
<1>. DEFINE C1 == {m \in C : Count(m) = Count(m1)}
<1>4. PICK m2 \in C1 : \A n \in C1 : Sum(m2) <= Sum(n)
  <2>. DEFINE D == {Sum(m) : m \in C1}
  <2>1. PICK d \in D : \A e \in D : d <= e
    <3>1. D \in SUBSET Nat /\ D # {}
      BY <1>1
    <3>. HIDE DEF D
    <3>. QED  BY <3>1, Smallest
  <2>. QED  BY <2>1
<1>. DEFINE C2 == {m \in C1 : Sum(m) = Sum(m2)}
<1>5. PICK m3 \in C2 : \A n \in C2 : m3 <= n
  <2>1. C2 \in SUBSET Nat /\ C2 # {}
    BY <1>1
  <2>. HIDE DEF C2
  <2>. QED  BY <2>1, Smallest
<1>6. ASSUME NEW n \in C \ {m3} PROVE Beats(S, m3, n)
  <2>1. m3 \in C /\ Count(m3) = Count(m1) /\ Sum(m3) = Sum(m2)
    OBVIOUS
  <2>2. /\ m3 \in Nat /\ Count(m3) \in Nat /\ Sum(m3) \in Nat
        /\ n \in Nat /\ Count(n) \in Nat /\ Sum(n) \in Nat /\ n # m3
    BY <1>1, <2>1
  <2>3. Count(m3) >= Count(n)
    BY <1>3, <2>1
  <2>4. Count(n) = Count(m3) => Sum(m3) <= Sum(n)
    BY <1>4, <2>1
  <2>5. Count(n) = Count(m3) /\ Sum(n) = Sum(m3) => m3 <= n
    BY <1>5, <2>1
  <2>. HIDE DEF C1, C2
  <2>6. CASE Count(m3) > Count(n)
    BY <2>6 DEF Beats, Count
  <2>7. CASE Count(m3) = Count(n)
    <3>. DEFINE mean == Sum(m3) * Count(n) - Sum(n) * Count(m3)
    <3>1. mean = (Sum(m3) - Sum(n)) * Count(n)
      BY <2>2, <2>7
    <3>2. CASE Sum(m3) = Sum(n)
      <4>1. mean = 0 /\ m3 < n
        BY <2>2, <2>5, <2>7, <3>1, <3>2
      <4>. QED  BY <2>7, <4>1 DEF Beats, Count, Sum
    <3>3. CASE Sum(m3) # Sum(n)
      <4>1. Count(n) > 0
        <5>1. PICK t \in Votes(S, n) : TRUE
          BY DEF C, Votes
        <5>2. IsFiniteSet(Votes(S, n))
          BY FS_Subset DEF AreSamples, Votes
        <5>3. Count(n) # 0
          BY <5>1, <5>2, FS_EmptySet DEF Count
        <5>. QED  BY <2>2, <5>3
      <4>2. \A a \in Int, b \in Nat : a < 0 /\ b > 0 => a * b < 0
        OBVIOUS
      <4>3. Sum(m3) - Sum(n) \in Int /\ Sum(m3) - Sum(n) < 0
        BY <2>2, <2>4, <2>7, <3>3
      <4>4. mean < 0
        <5>1. (Sum(m3) - Sum(n)) * Count(n) < 0
          BY <2>2, <4>1, <4>2, <4>3
        <5>. QED  BY <3>1, <5>1
      <4>. QED  BY <2>7, <4>4 DEF Beats, Count, Sum
    <3>. QED  BY <3>2, <3>3
  <2>. QED  BY <2>2, <2>3, <2>6, <2>7
<1>7. \E m \in C : \A n \in C \ {m} : Beats(S, m, n)
  BY <1>6
<1>8. (CHOOSE m \in C : \A n \in C \ {m} : Beats(S, m, n)) \in C
  BY <1>7
<1>. QED  BY <1>8 DEF Winner, C
LEMMA TemplatesAre ==
    /\ IsFiniteSet(Templates) /\ Templates # {}
    /\ \A t \in Templates :
          /\ t.motion \in Motions /\ t.motion \in Nat /\ t.sample \in Nat
          /\ t.frames \in Seq(Frames) /\ t.frames # <<>>
    /\ \A t, u \in Templates : t.motion = u.motion /\ t.sample = u.sample => t = u
    /\ Motions \subseteq Nat /\ None \notin Motions
<1>1. Templates \subseteq Registered
  BY DEF Templates
<1>2. SamplesValid /\ Templates # {} /\ None \notin Int
  BY ClassifierConstants
<1>3. IsFiniteSet(Templates)
  BY <1>1, <1>2, FS_Subset DEF SamplesValid
<1>4. \A t \in Templates : /\ t.motion \in Motions /\ t.motion \in Nat /\ t.sample \in Nat
                           /\ t.frames \in Seq(Frames) /\ t.frames # <<>>
  BY <1>1, <1>2 DEF SamplesValid, Motions
<1>5. Motions \subseteq Nat
  BY <1>4 DEF Motions
<1>6. None \notin Motions
  <2>1. None \notin Nat
    BY <1>2
  <2>. QED  BY <1>5, <2>1
<1>7. \A t, u \in Templates : t.motion = u.motion /\ t.sample = u.sample => t = u
  BY <1>1, <1>2 DEF SamplesValid
<1>. QED  BY <1>2, <1>3, <1>4, <1>5, <1>6, <1>7

LEMMA MeasuredAre ==
    ASSUME NEW window \in Seq(Frames), window # <<>>
    PROVE  /\ AreSamples(Measured(window)) /\ Measured(window) # {}
           /\ \A t \in Measured(window) : t.motion \in Motions
<1>. DEFINE w == Resample(window)
            f == [t \in Templates |->
                    [motion |-> t.motion, sample |-> t.sample,
                     distance |-> Distance(w, Resample(t.frames))]]
            S == {f[t] : t \in Templates}
<1>1. Measured(window) = S
  BY DEF Measured
<1>2. w \in [1 .. Compared -> Frames]
  BY ResampleTyped
<1>. HIDE DEF w
<1>3. ASSUME NEW t \in Templates PROVE f[t] \in Samples
  <2>1. Resample(t.frames) \in [1 .. Compared -> Frames]
    BY TemplatesAre, ResampleTyped
  <2>2. Distance(w, Resample(t.frames)) \in Nat
    BY <1>2, <2>1, DistanceIsNat
  <2>. QED  BY <2>2, TemplatesAre DEF Samples
<1>4. \A t \in Templates : f[t].motion = t.motion /\ f[t].sample = t.sample
  OBVIOUS
<1>5. f = [t \in Templates |-> f[t]]
  OBVIOUS
<1>. HIDE DEF f
<1>6. IsFiniteSet(S)
  BY <1>5, TemplatesAre, ImageIsFinite
<1>7. \A x, y \in S : x.motion = y.motion /\ x.sample = y.sample => x = y
  BY <1>4, TemplatesAre
<1>8. S # {} /\ S \subseteq Samples /\ \A x \in S : x.motion \in Motions
  BY <1>3, <1>4, TemplatesAre
<1>. HIDE DEF S
<1>. QED  BY <1>1, <1>6, <1>7, <1>8 DEF AreSamples

\* A classification names a motion of the templates or none.
LEMMA ClassifyNames ==
    ASSUME NEW window \in Seq(Frames), window # <<>>
    PROVE  /\ Classify(window).motion \in Motions \cup {None}
           /\ Classify(window).near => Classify(window).motion # None
<1>. DEFINE voters == Neighbors(Measured(window), K)
            nearest == CHOOSE t \in voters : \A u \in voters \ {t} : Before(t, u)
            winner == Winner(voters)
<1>1. /\ AreSamples(Measured(window)) /\ Measured(window) # {}
      /\ \A t \in Measured(window) : t.motion \in Motions
  BY MeasuredAre
<1>2. nearest \in voters
  BY <1>1, NearestVotes
<1>3. voters \subseteq Measured(window)
  BY DEF Neighbors
<1>4. Classify(window) =
        IF NearExact(nearest, voters)
        THEN Result(nearest.motion, TRUE, nearest.distance, nearest.distance)
        ELSE IF nearest.distance > Thresholds[winner] THEN Unknown
        ELSE Result(winner, FALSE, nearest.distance,
                    Min({t.distance : t \in Votes(voters, winner)}))
  BY DEF Classify
<1>. HIDE DEF nearest, voters
<1>5. nearest.motion \in Motions
  BY <1>1, <1>2, <1>3
<1>6. AreSamples(voters) /\ voters # {}
  <2>1. IsFiniteSet(voters)
    BY <1>1, <1>3, FS_Subset DEF AreSamples
  <2>. QED  BY <1>1, <1>2, <1>3, <2>1 DEF AreSamples
<1>7. winner \in {t.motion : t \in voters}
  BY <1>6, WinnerVotes
<1>8. winner \in Motions
  BY <1>1, <1>3, <1>7
<1>. HIDE DEF winner
<1>9. None \notin Motions
  BY TemplatesAre
<1>. QED  BY <1>4, <1>5, <1>8, <1>9 DEF Result, Unknown
-----------------------------------------------------------------------------
(* The invariant                                                            *)

Recoveries == [hand : Int, wrist : Optional(Int), at : Times]

\* What a pending motion has waited for: a whole window, a stride for every further
\* confirmation and the frames since the last inference.
Waited(p, n, st) ==
    st >= Least(Enough, History + (p.count - 1) * Stride + ((n - MinWindow) % Stride))

PendingHolds(p, n, st) ==
    /\ p.count \in 0 .. Confirmations - 1
    /\ p.motion = None <=> p.count = 0
    /\ p.count > 0 => Waited(p, n, st)

\* The newest frame has a hand that was seen, or one that was seen not long ago.
HandHolds(s, h) ==
    LET f == s.window[Len(s.window)]
    IN s.window # <<>> /\ Observed(f.point.hand) > f.weight.hand =>
          h # None /\ s.sampledAt - h \in 0 .. FillTime

IsSequence(s) ==
    s = [sampledAt |-> s.sampledAt, smooth |-> s.smooth, recovery |-> s.recovery,
         window |-> s.window, pending |-> s.pending, last |-> s.last]

\* A sequence s, with n frames counted, is what an observer with st and h saw.
Holds(s, n, st, h) ==
    /\ n \in 0 .. Stride - 1 /\ st \in 0 .. Enough /\ h \in Optional(Times)
    /\ IsSequence(s)
    /\ s.window \in Seq(Frames) /\ Len(s.window) = Least(st, History)
    /\ s.window = <<>> => s = Fresh
    /\ s.window # <<>> => s.sampledAt \in Times /\ s.smooth \in Points
    /\ s.recovery # None => s.recovery \in Recoveries /\ h = s.recovery.at
    /\ HandHolds(s, h)
    /\ PendingHolds(s.pending, n, st)

Inv ==
    /\ lastAt \in Optional(Times)
    /\ emitted \in [Motions -> Optional(Times)]
    /\ heard = emitted
    /\ detected = None \/ detected.motion \in Motions
    /\ Holds(sequence, sampled, stretch, handAt)
    /\ DetectionIsConfirmed
LEMMA EngineNumbers ==
    /\ Unit \in Nat \ {0} /\ MinWidth \in Nat \ {0}
    /\ AlphaOf \in Nat \ {0} /\ Alpha \in 1 .. AlphaOf
    /\ FillTime \in Nat \ {0} /\ FillLeast \in Nat \ {0} /\ FillWeight \in FillLeast .. FullWeight
    /\ Interval \in Nat \ {0} /\ MinWindow \in Nat \ {0}
    /\ Window \in Nat \ {0} /\ Stride \in Nat \ {0}
    /\ Confirmations \in Nat \ {0} /\ Gap \in Nat \ {0} /\ MaxTime \in Nat /\ Cooldown \in Nat
    /\ MinWindow <= Window
BY EngineConstants

LEMMA HistoryIs ==
    /\ History \in Nat \ {0} /\ Window <= History
    /\ Enough \in Nat \ {0} /\ History <= Enough
<1>. DEFINE f == [t \in Templates |-> Len(t.frames)]
            L == {f[t] : t \in Templates}
            S == {Window} \cup L
<1>1. History = Max(S)
  <2>1. L = {Len(t.frames) : t \in Templates}
    OBVIOUS
  <2>. HIDE DEF L
  <2>. QED  BY <2>1 DEF History
<1>2. \A t \in Templates : f[t] \in Nat
  BY TemplatesAre
<1>3. f = [t \in Templates |-> f[t]]
  OBVIOUS
<1>. HIDE DEF f
<1>4. IsFiniteSet(L)
  BY <1>3, TemplatesAre, ImageIsFinite
<1>5. L \in SUBSET Nat
  BY <1>2
<1>. HIDE DEF L
<1>6. IsFiniteSet(S)
  <2>1. S = L \cup {Window}
    OBVIOUS
  <2>. QED  BY <1>4, <2>1, FS_AddElement
<1>7. S \in SUBSET Nat /\ Window \in S
  BY <1>5, EngineNumbers
<1>. HIDE DEF S
<1>8. Max(S) \in S /\ \A m \in S : m <= Max(S)
  BY <1>6, <1>7, Greatest
<1>9. History \in Nat /\ Window <= History
  BY <1>1, <1>7, <1>8
<1>10. (Confirmations - 1) * Stride \in Nat
  <2>1. Confirmations - 1 \in Nat
    BY EngineNumbers
  <2>. QED  BY <2>1, EngineNumbers
<1>11. History \in Nat \ {0}
  BY <1>9, EngineNumbers
<1>. QED  BY <1>9, <1>10, <1>11 DEF Enough

\* A remainder is the one that is left.
LEMMA Remainder ==
    ASSUME NEW a \in Int, NEW d \in Nat \ {0}, NEW q \in Int, NEW r \in 0 .. d - 1, a = d * q + r
    PROVE  a % d = r
<1>. DEFINE k == a \div d
            m == a % d
<1>1. k \in Int /\ m \in 0 .. d - 1 /\ a = d * k + m
  BY Division
<1>. HIDE DEF k, m
<1>2. d * k \in Int /\ d * q \in Int /\ d * (k - q) = d * k - d * q /\ d * (q - k) = d * q - d * k
  BY <1>1
<1>3. CASE k = q
  BY <1>1, <1>2, <1>3 DEF m
<1>4. CASE k > q
  <2>1. d * (k - q) >= d
    <3>1. k - q - 1 \in Nat
      BY <1>1, <1>4
    <3>2. d * (k - q - 1) >= 0
      BY <3>1
    <3>3. d * (k - q - 1) = d * (k - q) - d
      BY <1>1
    <3>4. d * (k - q) \in Int
      BY <1>1
    <3>. QED  BY <3>2, <3>3, <3>4
  <2>. QED  BY <1>1, <1>2, <2>1
<1>5. CASE k < q
  <2>1. d * (q - k) >= d
    <3>1. q - k - 1 \in Nat
      BY <1>1, <1>5
    <3>2. d * (q - k - 1) >= 0
      BY <3>1
    <3>3. d * (q - k - 1) = d * (q - k) - d
      BY <1>1
    <3>4. d * (q - k) \in Int
      BY <1>1
    <3>. QED  BY <3>2, <3>3, <3>4
  <2>. QED  BY <1>1, <1>2, <2>1
<1>. QED  BY <1>1, <1>3, <1>4, <1>5

\* The frames since the last inference, one frame on.
LEMMA OneFrameOn ==
    ASSUME NEW a \in 0 .. Stride - 1
    PROVE  /\ (a + 1) % Stride \in 0 .. Stride - 1
           /\ (a - MinWindow) % Stride \in 0 .. Stride - 1
           /\ (((a + 1) % Stride) - MinWindow) % Stride =
                 IF (a - MinWindow) % Stride = Stride - 1 THEN 0
                 ELSE ((a - MinWindow) % Stride) + 1
<1>0. Stride \in Nat \ {0} /\ MinWindow \in Nat
  BY EngineNumbers
<1>. DEFINE n == (a + 1) % Stride
            q == (a - MinWindow) \div Stride
            v == (a - MinWindow) % Stride
<1>1. n = IF a + 1 = Stride THEN 0 ELSE a + 1
  <2>1. CASE a + 1 = Stride
    <3>1. a + 1 = Stride * 1 + 0 /\ 0 \in 0 .. Stride - 1
      BY <1>0, <2>1
    <3>. QED  BY <1>0, <2>1, <3>1, Remainder
  <2>2. CASE a + 1 # Stride
    <3>1. a + 1 = Stride * 0 + (a + 1) /\ a + 1 \in 0 .. Stride - 1
      BY <1>0, <2>2
    <3>. QED  BY <1>0, <2>2, <3>1, Remainder
  <2>. QED  BY <2>1, <2>2
<1>2. a - MinWindow \in Int
  BY <1>0
<1>3. q \in Int /\ v \in 0 .. Stride - 1 /\ a - MinWindow = Stride * q + v
  BY <1>0, <1>2, Division
<1>. HIDE DEF n, q, v
<1>4. n \in 0 .. Stride - 1
  BY <1>0, <1>1
<1>5. PICK e \in 0 .. 1 : n - MinWindow = Stride * (q - e) + (v + 1)
  <2>1. CASE a + 1 = Stride
    <3>1. Stride * (q - 1) = Stride * q - Stride /\ Stride * q \in Int
      BY <1>0, <1>3
    <3>2. n - MinWindow = Stride * (q - 1) + (v + 1)
      BY <1>0, <1>1, <1>3, <2>1, <3>1
    <3>. QED  BY <3>2
  <2>2. CASE a + 1 # Stride
    <3>1. Stride * q \in Int /\ q - 0 = q
      BY <1>0, <1>3
    <3>2. n - MinWindow = Stride * (q - 0) + (v + 1)
      BY <1>0, <1>1, <1>3, <2>2, <3>1
    <3>. QED  BY <3>2
  <2>. QED  BY <2>1, <2>2
<1>6. n - MinWindow \in Int
  BY <1>0, <1>4
<1>7. CASE v = Stride - 1
  <2>1. Stride * (q - e + 1) = Stride * (q - e) + Stride /\ Stride * (q - e) \in Int
    BY <1>0, <1>3
  <2>2. n - MinWindow = Stride * (q - e + 1) + 0 /\ q - e + 1 \in Int /\ 0 \in 0 .. Stride - 1
    BY <1>0, <1>3, <1>5, <1>7, <2>1
  <2>3. (n - MinWindow) % Stride = 0
    BY <1>0, <1>6, <2>2, Remainder
  <2>. QED  BY <1>3, <1>4, <1>7, <2>3 DEF n, v
<1>8. CASE v # Stride - 1
  <2>1. v + 1 \in 0 .. Stride - 1 /\ q - e \in Int
    BY <1>0, <1>3, <1>8
  <2>2. (n - MinWindow) % Stride = v + 1
    BY <1>0, <1>5, <1>6, <2>1, Remainder
  <2>. QED  BY <1>3, <1>4, <1>8, <2>2 DEF n, v
<1>. QED  BY <1>7, <1>8
-----------------------------------------------------------------------------
(* A frame that is taken                                                    *)

\* A coordinate stays one, a missing landmark stays missing: normalised, averaged and
\* smoothed.
LEMMA NormalisedTyped ==
    ASSUME NEW shot \in Shots, Usable(shot), NEW x \in Optional(Int)
    PROVE  /\ Normalised(shot, x) \in Optional(Int)
           /\ Normalised(shot, x) = None <=> x = None
<1>1. shot.left \in Int /\ shot.right \in Int
  BY EngineConstants DEF Usable, Optional
<1>2. Apart(shot.left, shot.right) \in Nat \ {0}
  BY <1>1, EngineNumbers DEF Usable, Apart
<1>3. x # None => x \in Int
  BY DEF Optional
<1>4. ASSUME NEW n \in Int, NEW d \in Nat \ {0} PROVE n \div d \in Int
  OBVIOUS
<1>5. 2 * Apart(shot.left, shot.right) \in Nat \ {0}
  BY <1>2
<1>6. x # None => (2 * x - shot.left - shot.right) * Unit \in Int
  BY <1>1, <1>3, EngineNumbers
<1>7. x # None =>
        ((2 * x - shot.left - shot.right) * Unit) \div (2 * Apart(shot.left, shot.right)) \in Int
  BY <1>4, <1>5, <1>6
<1>. QED  BY <1>7, Numbers DEF Normalised, Optional

LEMMA AverageTyped ==
    ASSUME NEW x \in Optional(Int), NEW y \in Optional(Int)
    PROVE  /\ Average(y, x) \in Optional(Int)
           /\ Average(y, x) = None <=> x = None
<1>1. CASE x = None \/ y = None
  BY <1>1 DEF Average
<1>2. CASE x # None /\ y # None
  <2>1. x \in Int /\ y \in Int
    BY <1>2 DEF Optional
  <2>2. Alpha * x + (AlphaOf - Alpha) * y \in Int
    BY <2>1, EngineNumbers
  <2>3. (Alpha * x + (AlphaOf - Alpha) * y) \div AlphaOf \in Int
    <3>1. \A n \in Int, d \in Nat \ {0} : n \div d \in Int
      OBVIOUS
    <3>. QED  BY <2>2, <3>1, EngineNumbers
  <2>. QED  BY <1>2, <2>3, Numbers DEF Average, Optional
<1>. QED  BY <1>1, <1>2

LEMMA SmoothedTyped ==
    ASSUME NEW shot \in Shots, Usable(shot), NEW smooth, smooth = None \/ smooth \in Points
    PROVE  /\ Smoothed(smooth, shot) \in Points
           /\ Smoothed(smooth, shot).hand = None <=> shot.hand = None
<1>. DEFINE point == [wrist |-> Normalised(shot, shot.wrist), hand |-> Normalised(shot, shot.hand)]
<1>1. shot.wrist \in Optional(Int) /\ shot.hand \in Optional(Int)
  BY EngineConstants
<1>2. /\ Normalised(shot, shot.wrist) \in Optional(Int)
      /\ Normalised(shot, shot.hand) \in Optional(Int)
      /\ Normalised(shot, shot.hand) = None <=> shot.hand = None
  BY <1>1, NormalisedTyped
<1>3. point \in Points /\ point["hand"] = Normalised(shot, shot.hand)
  BY <1>2 DEF Points, Features, Optional
<1>4. Smoothed(smooth, shot) =
        IF smooth = None THEN point ELSE [p \in Features |-> Average(smooth[p], point[p])]
  BY DEF Smoothed
<1>. HIDE DEF point
<1>5. CASE smooth = None
  BY <1>2, <1>3, <1>4, <1>5
<1>6. CASE smooth # None
  <2>1. ASSUME NEW p \in Features
        PROVE  /\ Average(smooth[p], point[p]) \in Optional(Int)
               /\ Average(smooth[p], point[p]) = None <=> point[p] = None
    <3>1. smooth[p] \in Optional(Int) /\ point[p] \in Optional(Int)
      BY <1>3, <1>6 DEF Points, Optional
    <3>. QED  BY <3>1, AverageTyped
  <2>2. "hand" \in Features
    BY DEF Features
  <2>3. Smoothed(smooth, shot) = [p \in Features |-> Average(smooth[p], point[p])]
    BY <1>4, <1>6
  <2>4. Smoothed(smooth, shot) \in Points
    BY <2>1, <2>3 DEF Points, Optional
  <2>5. Smoothed(smooth, shot).hand = Average(smooth["hand"], point["hand"])
    BY <2>2, <2>3
  <2>. QED  BY <1>2, <1>3, <2>1, <2>2, <2>4, <2>5
<1>. QED  BY <1>5, <1>6

LEMMA FadedTyped ==
    ASSUME NEW at \in Times, NEW r \in Recoveries, at - r.at \in 0 .. FillTime
    PROVE  Faded(r, at) \in 0 .. FullWeight
<1>. DEFINE a == FillWeight - FillLeast
            x == (a * (at - r.at)) \div FillTime
<1>1. a \in Nat /\ FillWeight \in Nat /\ FillLeast \in Nat /\ FillWeight <= FullWeight
  BY EngineNumbers, Numbers
<1>2. at - r.at \in Nat
  BY EngineNumbers
<1>3. x \in Nat
  <2>1. \A n \in Nat, d \in Nat \ {0} : n \div d \in Nat
    OBVIOUS
  <2>2. a * (at - r.at) \in Nat
    <3>. HIDE DEF a
    <3>. QED  BY <1>1, <1>2
  <2>. QED  BY <2>1, <2>2, EngineNumbers
<1>4. Faded(r, at) = Most(FillLeast, FillWeight - x)
  BY DEF Faded
<1>. HIDE DEF x, a
<1>. QED  BY <1>1, <1>3, <1>4, EngineNumbers, Numbers DEF Most

\* A frame, and the hand it is filled with.
LEMMA FilledTyped ==
    ASSUME NEW at \in Times, NEW point \in Points, NEW r, r = None \/ r \in Recoveries
    PROVE  /\ Filled(r, point, at) \in Frames
           /\ Observed(Filled(r, point, at).point.hand) > Filled(r, point, at).weight.hand
                => Fills(r, point, at)
<1>1. "wrist" \in Features /\ "hand" \in Features /\ Features = {"wrist", "hand"}
  BY DEF Features
<1>2. \A x : Observed(x) \in 0 .. FullWeight
  BY Numbers DEF Observed
<1>3. CASE ~Fills(r, point, at)
  <2>1. Filled(r, point, at) =
          [point |-> point,
           weight |-> [wrist |-> Observed(point.wrist), hand |-> Observed(point.hand)]]
    BY <1>3 DEF Filled
  <2>2. [wrist |-> Observed(point.wrist), hand |-> Observed(point.hand)]
            \in [Features -> 0 .. FullWeight]
    BY <1>1, <1>2
  <2>3. /\ Filled(r, point, at).point = point
        /\ Filled(r, point, at).weight.hand = Observed(point.hand)
    BY <2>1
  <2>4. ~(Observed(point.hand) > Observed(point.hand))
    <3>1. Observed(point.hand) \in 0 .. FullWeight
      BY <1>2
    <3>. QED  BY <3>1, Numbers
  <2>. QED  BY <2>1, <2>2, <2>3, <2>4 DEF Frames
<1>4. CASE Fills(r, point, at)
  <2>1. r # None /\ r \in Recoveries /\ at - r.at \in 0 .. FillTime
    BY <1>4 DEF Fills
  <2>2. Moved(r, point) \in Int
    <3>1. r.hand \in Int /\ r.wrist \in Optional(Int) /\ point.wrist \in Optional(Int)
      BY <2>1, <1>1 DEF Recoveries, Points, Optional
    <3>2. point.wrist # None /\ r.wrist # None => point.wrist \in Int /\ r.wrist \in Int
      BY <3>1 DEF Optional
    <3>. QED  BY <3>1, <3>2 DEF Moved
  <2>3. Faded(r, at) \in 0 .. FullWeight
    BY <2>1, FadedTyped
  <2>4. Filled(r, point, at) =
          [point |-> [point EXCEPT !.hand = Moved(r, point)],
           weight |-> [wrist |-> Observed(point.wrist), hand |-> Faded(r, at)]]
    BY <1>4 DEF Filled
  <2>5. [point EXCEPT !.hand = Moved(r, point)] \in Points
    BY <2>2 DEF Points
  <2>6. [wrist |-> Observed(point.wrist), hand |-> Faded(r, at)] \in [Features -> 0 .. FullWeight]
    BY <1>1, <1>2, <2>3
  <2>. QED  BY <1>4, <2>4, <2>5, <2>6 DEF Frames
<1>. QED  BY <1>3, <1>4

LEMMA SlideIs ==
    ASSUME NEW w \in Seq(Frames), NEW f \in Frames, Len(w) <= History
    PROVE  /\ Slide(w, f) \in Seq(Frames) /\ Slide(w, f) # <<>>
           /\ Len(Slide(w, f)) = Least(Len(w) + 1, History)
           /\ Slide(w, f)[Len(Slide(w, f))] = f
<1>1. Len(w) \in Nat
  OBVIOUS
<1>2. CASE Len(w) < History
  <2>1. Slide(w, f) = Append(w, f)
    BY <1>2 DEF Slide
  <2>2. Append(w, f) \in Seq(Frames) /\ Len(Append(w, f)) = Len(w) + 1
    OBVIOUS
  <2>3. Append(w, f)[Len(w) + 1] = f
    OBVIOUS
  <2>4. Append(w, f) # <<>>
    BY <2>2, <1>1, EmptySeq
  <2>. QED  BY <1>1, <1>2, <2>1, <2>2, <2>3, <2>4, HistoryIs DEF Least
<1>3. CASE ~(Len(w) < History)
  <2>1. Slide(w, f) = Append(Tail(w), f) /\ Len(w) = History /\ Len(w) \in Nat \ {0}
    BY <1>1, <1>3, HistoryIs DEF Slide
  <2>2. w # <<>>
    BY <2>1, EmptySeq
  <2>3. Tail(w) \in Seq(Frames) /\ Len(Tail(w)) = Len(w) - 1
    BY <2>2
  <2>. DEFINE v == Tail(w)
  <2>4. v \in Seq(Frames) /\ Len(v) = Len(w) - 1
    BY <2>3
  <2>. HIDE DEF v
  <2>5. /\ Append(v, f) \in Seq(Frames) /\ Len(Append(v, f)) = Len(v) + 1
        /\ Append(v, f)[Len(v) + 1] = f
    BY <2>4
  <2>6. Len(Append(v, f)) = Len(w)
    BY <1>1, <2>4, <2>5
  <2>7. Append(v, f) # <<>>
    BY <2>1, <2>5, <2>6, EmptySeq
  <2>8. Slide(w, f) = Append(v, f)
    BY <2>1 DEF v
  <2>. QED  BY <1>1, <1>3, <2>1, <2>5, <2>6, <2>7, <2>8, HistoryIs DEF Least
<1>. QED  BY <1>2, <1>3
\* What an observer knows of the sequence before and after a frame.
Seen(at) == Continued(at, stretch, 0)
SeenHand(at) == Continued(at, handAt, None)
Longer(st) == Least(st + 1, Enough)
Later(shot, at, h) == IF shot.hand # None THEN at ELSE h

LEMMA FreshHolds ==
    ASSUME NEW n \in 0 .. Stride - 1
    PROVE  Holds(Fresh, n, 0, None)
<1>1. 0 \in 0 .. Enough /\ Least(0, History) = 0
  BY HistoryIs DEF Least
<1>2. None \in Optional(Times) /\ <<>> \in Seq(Frames) /\ Len(<<>>) = 0
  BY DEF Optional
<1>3. HandHolds(Fresh, None) /\ IsSequence(Fresh)
  BY DEF HandHolds, IsSequence, Fresh
<1>4. PendingHolds(NotPending, n, 0)
  BY EngineNumbers DEF PendingHolds, NotPending
<1>. QED  BY <1>1, <1>2, <1>3, <1>4 DEF Holds, Fresh

LEMMA BegunHolds ==
    ASSUME Holds(sequence, sampled, stretch, handAt), lastAt \in Optional(Times), NEW at \in Times
    PROVE  /\ Holds(Begun(at), Counted(at), Seen(at), SeenHand(at))
           /\ Seen(at) \in Nat
<1>1. Interrupted(at) <=> lastAt # None /\ at - lastAt \notin 0 .. Gap
  <2>1. CASE lastAt = None
    BY <2>1 DEF Interrupted
  <2>2. CASE lastAt # None
    <3>1. lastAt \in Nat /\ at \in Nat /\ Gap \in Nat
      BY <2>2, EngineNumbers DEF Optional, Times
    <3>. QED  BY <2>2, <3>1 DEF Interrupted
  <2>. QED  BY <2>1, <2>2
<1>2. CASE Interrupted(at)
  <2>1. Begun(at) = Fresh /\ Counted(at) = 0 /\ Seen(at) = 0 /\ SeenHand(at) = None
    BY <1>1, <1>2 DEF Begun, Counted, Seen, SeenHand, Continued
  <2>2. 0 \in 0 .. Stride - 1
    BY EngineNumbers
  <2>. QED  BY <2>1, <2>2, FreshHolds
<1>3. CASE ~Interrupted(at)
  <2>1. /\ Begun(at) = sequence /\ Counted(at) = sampled
        /\ Seen(at) = stretch /\ SeenHand(at) = handAt
    BY <1>1, <1>3 DEF Begun, Counted, Seen, SeenHand, Continued
  <2>2. stretch \in Nat
    BY HistoryIs DEF Holds
  <2>. QED  BY <2>1, <2>2
<1>. QED  BY <1>2, <1>3

\* A frame more makes a pending motion wait a frame more.
LEMMA WaitsOn ==
    ASSUME NEW p, NEW n \in 0 .. Stride - 1, NEW st \in 0 .. Enough, PendingHolds(p, n, st)
    PROVE  /\ PendingHolds(p, (n + 1) % Stride, Longer(st))
           /\ Inference((n + 1) % Stride) /\ p.count > 0 =>
                Longer(st) >= Least(Enough, History + p.count * Stride)
<1>. DEFINE c == p.count
            v == (n - MinWindow) % Stride
            m == (n + 1) % Stride
            w == (m - MinWindow) % Stride
            z == (c - 1) * Stride
<1>1. m \in 0 .. Stride - 1 /\ v \in 0 .. Stride - 1 /\ w = IF v = Stride - 1 THEN 0 ELSE v + 1
  BY OneFrameOn
<1>2. /\ c \in 0 .. Confirmations - 1 /\ (p.motion = None <=> c = 0)
      /\ c > 0 => st >= Least(Enough, History + z + v)
  BY DEF PendingHolds, Waited
<1>3. /\ Enough \in Nat /\ History \in Nat /\ st \in Nat /\ st <= Enough
      /\ Stride \in Nat \ {0} /\ Confirmations \in Nat \ {0}
  BY HistoryIs, EngineNumbers
<1>4. c \in Int /\ z \in Int /\ c * Stride = z + Stride /\ c * Stride \in Int
  BY <1>2, <1>3
<1>5. Inference(m) <=> w = 0
  BY DEF Inference
<1>. HIDE DEF v, m, w, z, c
<1>6. c > 0 => Longer(st) >= Least(Enough, History + z + w)
  BY <1>1, <1>2, <1>3, <1>4 DEF Longer, Least
<1>7. w = 0 /\ c > 0 => Longer(st) >= Least(Enough, History + c * Stride)
  BY <1>1, <1>2, <1>3, <1>4 DEF Longer, Least
<1>8. PendingHolds(p, m, Longer(st))
  BY <1>2, <1>6 DEF PendingHolds, Waited, c, z, w
<1>. QED  BY <1>5, <1>7, <1>8 DEF m, c

LEMMA TakenHolds ==
    ASSUME NEW b, NEW n, NEW st, NEW h, Holds(b, n, st, h),
           NEW shot \in Shots, Usable(shot), NEW at \in Times
    PROVE  /\ Holds(Taken(b, shot, at), (n + 1) % Stride, Longer(st), Later(shot, at, h))
           /\ Taken(b, shot, at).window # <<>>
           /\ Taken(b, shot, at).pending = b.pending
<1>. DEFINE s == Taken(b, shot, at)
            point == Smoothed(b.smooth, shot)
            f == Filled(b.recovery, point, at)
<1>1. /\ n \in 0 .. Stride - 1 /\ st \in 0 .. Enough /\ h \in Optional(Times) /\ IsSequence(b)
      /\ b.window \in Seq(Frames) /\ Len(b.window) = Least(st, History)
      /\ b.window = <<>> => b = Fresh
      /\ b.window # <<>> => b.smooth \in Points
      /\ b.recovery # None => b.recovery \in Recoveries /\ h = b.recovery.at
      /\ PendingHolds(b.pending, n, st)
  BY DEF Holds
<1>2. b.smooth = None \/ b.smooth \in Points
  BY <1>1 DEF Fresh
<1>3. point \in Points /\ (point.hand = None <=> shot.hand = None)
  BY <1>2, SmoothedTyped
<1>4. f \in Frames /\ (Observed(f.point.hand) > f.weight.hand => Fills(b.recovery, point, at))
  BY <1>1, <1>3, FilledTyped
<1>5. s = [sampledAt |-> at, smooth |-> point, recovery |-> Recovery(b.recovery, point, at),
           window |-> Slide(b.window, f), pending |-> b.pending, last |-> b.last]
  <2>. HIDE DEF point, f
  <2>1. s = [b EXCEPT !.sampledAt = at, !.smooth = point,
                      !.recovery = Recovery(b.recovery, point, at),
                      !.window = Slide(b.window, f)]
    BY DEF Taken, point, f
  <2>. QED  BY <1>1, <2>1 DEF IsSequence
<1>. HIDE DEF s, point, f
<1>6. /\ Slide(b.window, f) \in Seq(Frames) /\ Slide(b.window, f) # <<>>
      /\ Len(Slide(b.window, f)) = Least(Len(b.window) + 1, History)
      /\ Slide(b.window, f)[Len(Slide(b.window, f))] = f
  <2>1. Len(b.window) <= History
    BY <1>1, HistoryIs DEF Least
  <2>. QED  BY <1>1, <1>4, <2>1, SlideIs
<1>7. Least(Len(b.window) + 1, History) = Least(Longer(st), History)
  BY <1>1, HistoryIs DEF Longer, Least
<1>8. Longer(st) \in 0 .. Enough /\ Later(shot, at, h) \in Optional(Times)
  BY <1>1, HistoryIs DEF Longer, Least, Later, Optional
<1>9. (n + 1) % Stride \in 0 .. Stride - 1
  BY <1>1, OneFrameOn
<1>10. ASSUME s.recovery # None
       PROVE  s.recovery \in Recoveries /\ Later(shot, at, h) = s.recovery.at
  <2>1. CASE point.hand # None
    <3>1. s.recovery = [hand |-> point.hand, wrist |-> point.wrist, at |-> at]
      BY <1>5, <2>1 DEF Recovery
    <3>2. point.hand \in Int /\ point.wrist \in Optional(Int)
      BY <1>3, <2>1 DEF Points, Features, Optional
    <3>. QED  BY <1>3, <2>1, <3>1, <3>2 DEF Recoveries, Later
  <2>2. CASE point.hand = None
    <3>1. s.recovery = b.recovery /\ b.recovery # None
      BY <1>5, <1>10, <2>2 DEF Recovery, Fills
    <3>. QED  BY <1>1, <1>3, <2>2, <3>1 DEF Later
  <2>. QED  BY <2>1, <2>2
<1>11. HandHolds(s, Later(shot, at, h))
  <2>. SUFFICES ASSUME Observed(f.point.hand) > f.weight.hand
                PROVE  /\ Later(shot, at, h) # None
                       /\ at - Later(shot, at, h) \in 0 .. FillTime
    BY <1>5, <1>6 DEF HandHolds
  <2>1. point.hand = None /\ b.recovery # None /\ at - b.recovery.at \in 0 .. FillTime
    BY <1>4 DEF Fills
  <2>2. Later(shot, at, h) = b.recovery.at /\ b.recovery.at \in Times
    BY <1>1, <1>3, <2>1 DEF Later, Recoveries
  <2>3. None \notin Times
    BY Numbers DEF Times
  <2>. QED  BY <2>1, <2>2, <2>3
<1>12. PendingHolds(s.pending, (n + 1) % Stride, Longer(st))
  BY <1>1, <1>5, WaitsOn
<1>13. IsSequence(s) /\ s.window # <<>> /\ s.sampledAt \in Times /\ s.smooth \in Points
  BY <1>3, <1>5, <1>6 DEF IsSequence
<1>14. Holds(s, (n + 1) % Stride, Longer(st), Later(shot, at, h))
  BY <1>5, <1>6, <1>7, <1>8, <1>9, <1>10, <1>11, <1>12, <1>13 DEF Holds
<1>. QED  BY <1>5, <1>13, <1>14 DEF s

\* A classification changes what is pending, and what came last.
LEMMA ClassifiedHolds ==
    ASSUME NEW s, NEW n, NEW st, NEW h, Holds(s, n, st, h), s.window # <<>>,
           NEW p, PendingHolds(p, n, st), NEW r
    PROVE  Holds([[s EXCEPT !.last = r] EXCEPT !.pending = p], n, st, h)
<1>. DEFINE t == [[s EXCEPT !.last = r] EXCEPT !.pending = p]
<1>1. t = [sampledAt |-> s.sampledAt, smooth |-> s.smooth, recovery |-> s.recovery,
           window |-> s.window, pending |-> p, last |-> r]
  <2>. DEFINE u == [s EXCEPT !.last = r]
  <2>1. IsSequence(s)
    BY DEF Holds
  <2>2. u = [sampledAt |-> s.sampledAt, smooth |-> s.smooth, recovery |-> s.recovery,
             window |-> s.window, pending |-> s.pending, last |-> r]
    BY <2>1 DEF IsSequence
  <2>. HIDE DEF u
  <2>3. [u EXCEPT !.pending = p] =
            [sampledAt |-> s.sampledAt, smooth |-> s.smooth, recovery |-> s.recovery,
             window |-> s.window, pending |-> p, last |-> r]
    BY <2>2
  <2>. QED  BY <2>3 DEF u
<1>. HIDE DEF t
<1>2. IsSequence(t) /\ HandHolds(t, h)
  BY <1>1 DEF IsSequence, HandHolds, Holds
<1>3. Holds(t, n, st, h)
  BY <1>1, <1>2 DEF Holds
<1>. QED  BY <1>3 DEF t
-----------------------------------------------------------------------------
(* The steps                                                                *)

\* A step that detects names a motion that has rested, with enough behind it.
Sound(at) ==
    /\ lastAt' = at
    /\ \/ NoDetection
       \/ \E r : /\ r.motion \in Motions
                 /\ Rested(r.motion, at)
                 /\ emitted' = [emitted EXCEPT ![r.motion] = at]
                 /\ heard' = [heard EXCEPT ![r.motion] = at]
                 /\ detected'.motion = r.motion /\ detected'.near = r.near
                 /\ detected'.after = Longer(Seen(at))
                 /\ detected'.after = Enough \/ (r.near /\ MinWindow < Window)

HoldsNext == Holds(sequence', sampled', stretch', handAt')

\* A result that was reached: what Confirm makes of it.
LEMMA ConfirmHolds ==
    ASSUME NEW s, NEW n, NEW shot \in Shots, NEW at \in Times, NEW r,
           lastAt' = at,
           Holds(s, n, Longer(Seen(at)), Later(shot, at, SeenHand(at))), s.window # <<>>,
           r.motion \in Optional(Motions),
           Strong(r) \/ Longer(Seen(at)) >= History,
           s.pending.count > 0 =>
               Strong(r) \/ Longer(Seen(at)) >= Least(Enough, History + s.pending.count * Stride),
           Inference(n) \/ Strong(r),
           Confirm([s EXCEPT !.last = r], n, r, shot, at)
    PROVE  HoldsNext /\ Sound(at)
<1>. DEFINE t == [s EXCEPT !.last = r]
            st == Longer(Seen(at))
            h == Later(shot, at, SeenHand(at))
            p == Pending(t, r)
<1>1. t.pending = s.pending /\ IsSequence(s)
  <2>1. IsSequence(s)
    BY DEF Holds
  <2>. QED  BY <2>1 DEF IsSequence
<1>2. /\ n \in 0 .. Stride - 1 /\ st \in 0 .. Enough
      /\ s.pending.count \in 0 .. Confirmations - 1
      /\ (s.pending.motion = None <=> s.pending.count = 0)
  BY DEF Holds, PendingHolds
<1>. HIDE DEF t, st, h
<1>. DEFINE c == s.pending.count
            e == s.pending.motion
<1>3. /\ p.motion = r.motion /\ p.count \in Nat \ {0}
      /\ p.count = IF Strong(r) THEN Confirmations ELSE IF r.motion = e THEN c + 1 ELSE 1
      /\ c \in Nat /\ c <= Confirmations - 1 /\ (e = None <=> c = 0)
  <2>1. p = [motion |-> r.motion,
             count |-> IF Strong(r) THEN Confirmations ELSE IF r.motion = e THEN c + 1 ELSE 1]
    BY <1>1 DEF Pending
  <2>2. c \in 0 .. Confirmations - 1 /\ (e = None <=> c = 0)
    BY <1>2
  <2>. HIDE DEF p, c, e
  <2>3. Confirmations \in Nat \ {0}
    BY EngineNumbers
  <2>4. c + 1 \in Nat \ {0} /\ c \in Nat /\ c <= Confirmations - 1
    BY <2>2, <2>3
  <2>. QED  BY <2>1, <2>2, <2>3, <2>4
<1>. HIDE DEF c, e
<1>. HIDE DEF p
<1>4. /\ History \in Nat \ {0} /\ Enough \in Nat \ {0} /\ Stride \in Nat \ {0}
      /\ Confirmations \in Nat \ {0} /\ History <= Enough
      /\ Enough = History + (Confirmations - 1) * Stride
  BY HistoryIs, EngineNumbers DEF Enough
<1>5. CASE Waits(t, n, r, shot, at)
  <2>. DEFINE q == IF r.motion = None THEN NotPending ELSE p
  <2>1. /\ sequence' = [t EXCEPT !.pending = q]
        /\ sampled' = n /\ stretch' = st /\ handAt' = h /\ NoDetection
        /\ r.motion # None => p.count < Confirmations
    BY <1>5 DEF Waits, Observe, Seen, SeenHand, Longer, Later, st, h, p
  <2>2. PendingHolds(q, n, st)
    <3>1. CASE r.motion = None
      BY <1>4, <3>1 DEF PendingHolds, NotPending
    <3>2. CASE r.motion # None
      <4>1. ~Strong(r) /\ p.count < Confirmations
        BY <1>3, <1>4, <2>1, <3>2
      <4>2. (n - MinWindow) % Stride = 0 /\ st >= History
        BY <4>1 DEF Inference, st
      <4>3. st >= Least(Enough, History + (p.count - 1) * Stride)
        <5>1. CASE r.motion = e
          <6>1. p.count - 1 = c /\ c > 0
            BY <1>3, <3>2, <4>1, <5>1
          <6>2. st >= Least(Enough, History + c * Stride)
            BY <4>1, <6>1 DEF st, c
          <6>. QED  BY <6>1, <6>2
        <5>2. CASE r.motion # e
          <6>1. p.count - 1 = 0 /\ 0 * Stride = 0
            BY <1>3, <1>4, <4>1, <5>2
          <6>2. Least(Enough, History + (p.count - 1) * Stride) = History
            BY <1>4, <6>1 DEF Least
          <6>. QED  BY <4>2, <6>2
        <5>. QED  BY <5>1, <5>2
      <4>4. (p.count - 1) * Stride \in Int
        BY <1>3, <1>4
      <4>5. History + (p.count - 1) * Stride + 0 = History + (p.count - 1) * Stride
        BY <1>4, <4>4
      <4>6. Waited(p, n, st)
        BY <4>2, <4>3, <4>5 DEF Waited
      <4>7. p.count \in 0 .. Confirmations - 1
        BY <1>3, <1>4, <4>1
      <4>. QED  BY <1>3, <3>2, <4>6, <4>7 DEF PendingHolds
    <3>. QED  BY <3>1, <3>2
  <2>. HIDE DEF q
  <2>3. Holds(s, n, st, h)
    BY DEF st, h
  <2>4. Holds([t EXCEPT !.pending = q], n, st, h)
    BY <2>2, <2>3, ClassifiedHolds DEF t
  <2>. QED  BY <2>1, <2>4 DEF HoldsNext, Sound
<1>6. CASE HoldsOff(t, n, r)
  <2>1. sequence' = Fresh /\ sampled' = n /\ stretch' = 0 /\ handAt' = None /\ NoDetection
    BY <1>6 DEF HoldsOff, Forget
  <2>. QED  BY <1>2, <2>1, FreshHolds DEF HoldsNext, Sound
<1>7. CASE Detects(t, r)
  <2>1. /\ sequence' = Fresh /\ sampled' = 0 /\ stretch' = 0 /\ handAt' = None
        /\ r.motion # None /\ p.count >= Confirmations /\ Rested(r.motion, at)
        /\ emitted' = [emitted EXCEPT ![r.motion] = at]
        /\ heard' = [heard EXCEPT ![r.motion] = at]
        /\ detected' = [motion |-> r.motion, near |-> r.near, own |-> r.own, after |-> st]
    BY <1>7 DEF Detects, Forget, Seen, Longer, st, p
  <2>2. r.motion \in Motions
    BY <2>1 DEF Optional
  <2>3. st = Enough \/ (r.near /\ MinWindow < Window)
    <3>. SUFFICES ASSUME ~Strong(r) PROVE st = Enough
      BY DEF Strong
    <3>1. CASE r.motion = e
      <4>0. r.motion # None /\ p.count >= Confirmations /\ p.count = c + 1
        BY <1>3, <2>1, <3>1
      <4>1. c = Confirmations - 1 /\ c > 0
        BY <1>3, <1>4, <3>1, <4>0
      <4>2. st >= Least(Enough, History + c * Stride)
        BY <4>1 DEF st, c
      <4>3. Least(Enough, History + c * Stride) = Enough
        BY <1>4, <4>1 DEF Least
      <4>. QED  BY <1>2, <1>4, <4>2, <4>3
    <3>2. CASE r.motion # e
      <4>1. Confirmations = 1 /\ 0 * Stride = 0
        BY <1>3, <1>4, <2>1, <3>2
      <4>2. Enough = History
        BY <1>4, <4>1
      <4>3. st >= History
        BY DEF st
      <4>. QED  BY <1>2, <1>4, <4>2, <4>3
    <3>. QED  BY <3>1, <3>2
  <2>4. HoldsNext
    <3>1. 0 \in 0 .. Stride - 1
      BY <1>4
    <3>. QED  BY <2>1, <3>1, FreshHolds DEF HoldsNext
  <2>5. /\ detected'.motion = r.motion /\ detected'.near = r.near /\ detected'.after = st
    BY <2>1
  <2>6. Sound(at)
    BY <2>1, <2>2, <2>3, <2>5 DEF Sound, st
  <2>. QED  BY <2>4, <2>6
<1>8. Confirm(t, n, r, shot, at)
  BY DEF t
<1>. QED  BY <1>5, <1>6, <1>7, <1>8 DEF Confirm
LEMMA SkipHolds ==
    ASSUME Inv, NEW at \in Times, lastAt' = at, Skip(at)
    PROVE  HoldsNext /\ Sound(at)
<1>1. /\ sequence' = Begun(at) /\ sampled' = Counted(at)
      /\ stretch' = Seen(at) /\ handAt' = SeenHand(at) /\ NoDetection
  BY DEF Skip, Seen, SeenHand
<1>2. Holds(Begun(at), Counted(at), Seen(at), SeenHand(at))
  BY BegunHolds DEF Inv
<1>. QED  BY <1>1, <1>2 DEF HoldsNext, Sound

LEMMA RejectHolds ==
    ASSUME NEW shot \in Shots, NEW at \in Times, lastAt' = at, Reject(shot, at)
    PROVE  HoldsNext /\ Sound(at)
<1>1. sequence' = Fresh /\ sampled' = 0 /\ stretch' = 0 /\ handAt' = None /\ NoDetection
  BY DEF Reject, Forget
<1>2. 0 \in 0 .. Stride - 1
  BY EngineNumbers
<1>. QED  BY <1>1, <1>2, FreshHolds DEF HoldsNext, Sound

LEMMA SampleHolds ==
    ASSUME Inv, NEW shot \in Shots, NEW at \in Times, lastAt' = at, Sample(shot, at)
    PROVE  HoldsNext /\ Sound(at)
<1>. DEFINE b == Begun(at)
            s == Taken(b, shot, at)
            n == (Counted(at) + 1) % Stride
            st == Longer(Seen(at))
            h == Later(shot, at, SeenHand(at))
<1>1. Usable(shot) /\ (Collect(s, n, shot, at) \/ Infer(s, n, shot, at) \/ Refine(s, n, shot, at))
  BY DEF Sample
<1>2. Holds(b, Counted(at), Seen(at), SeenHand(at))
  BY BegunHolds DEF Inv
<1>3. Holds(s, n, st, h) /\ s.window # <<>> /\ s.pending = b.pending
  BY <1>1, <1>2, TakenHolds
<1>4. /\ Inference(n) /\ b.pending.count > 0 => st >= Least(Enough, History + b.pending.count * Stride)
  BY <1>2, WaitsOn DEF Holds
<1>. HIDE DEF b, s, n
<1>5. /\ s.window \in Seq(Frames) /\ Len(s.window) = Least(st, History)
      /\ st \in 0 .. Enough /\ n \in 0 .. Stride - 1
  BY <1>3 DEF Holds
<1>6. Len(s.window) >= History => st >= History
  BY <1>5, HistoryIs DEF Least
<1>. HIDE DEF st, h
<1>7. Observe(shot, at) => stretch' = st /\ handAt' = h
  BY DEF Observe, st, h, Seen, SeenHand, Longer, Later
<1>8. CASE Collect(s, n, shot, at)
  BY <1>3, <1>7, <1>8 DEF Collect, HoldsNext, Sound
<1>9. CASE Infer(s, n, shot, at)
  <2>. DEFINE r == Classify(s.window)
              t == [s EXCEPT !.last = r]
  <2>1. r.motion \in Optional(Motions)
    BY <1>3, <1>5, ClassifyNames DEF Optional
  <2>2. /\ Inference(n)
        /\ \/ /\ Warm(s, r)
              /\ sequence' = [t EXCEPT !.pending = NotPending]
              /\ sampled' = n
              /\ Observe(shot, at)
              /\ NoDetection
           \/ ~Warm(s, r) /\ Confirm(t, n, r, shot, at)
    BY <1>9 DEF Infer
  <2>. HIDE DEF r
  <2>3. CASE Warm(s, r) /\ sequence' = [t EXCEPT !.pending = NotPending]
             /\ sampled' = n /\ Observe(shot, at) /\ NoDetection
    <3>1. PendingHolds(NotPending, n, st)
      BY EngineNumbers DEF PendingHolds, NotPending
    <3>2. Holds([t EXCEPT !.pending = NotPending], n, st, h)
      BY <1>3, <3>1, ClassifiedHolds
    <3>. QED  BY <1>7, <2>3, <3>2 DEF HoldsNext, Sound
  <2>4. CASE ~Warm(s, r) /\ Confirm(t, n, r, shot, at)
    <3>1. Strong(r) \/ st >= History
      <4>1. Strong(r) \/ ~(Len(s.window) < History)
        BY <2>4 DEF Warm
      <4>2. Len(s.window) \in Nat
        BY <1>5
      <4>. QED  BY <1>6, <4>1, <4>2, HistoryIs
    <3>2. s.pending.count > 0 =>
            Strong(r) \/ st >= Least(Enough, History + s.pending.count * Stride)
      BY <1>3, <1>4, <2>2
    <3>. QED  BY <1>3, <2>1, <2>2, <2>4, <3>1, <3>2, ConfirmHolds DEF st, h
  <2>. QED  BY <2>2, <2>3, <2>4
<1>10. CASE Refine(s, n, shot, at)
  <2>. DEFINE r == IF Promising(s) THEN Classify(s.window) ELSE Unknown
              t == [s EXCEPT !.last = r]
  <2>1. \/ /\ ~r.near
           /\ sequence' = s
           /\ sampled' = n
           /\ Observe(shot, at)
           /\ NoDetection
        \/ r.near /\ (HoldsOff(t, n, r) \/ Detects(t, r))
    BY <1>10 DEF Refine
  <2>2. r.motion \in Optional(Motions) /\ (r.near => Strong(r))
    <3>1. CASE Promising(s)
      BY <3>1, <1>3, <1>5, ClassifyNames DEF Optional, Promising, Strong
    <3>2. CASE ~Promising(s)
      BY <3>2 DEF Unknown, Optional
    <3>. QED  BY <3>1, <3>2
  <2>. HIDE DEF r
  <2>3. CASE sequence' = s /\ sampled' = n /\ Observe(shot, at) /\ NoDetection
    BY <1>3, <1>7, <2>3 DEF HoldsNext, Sound
  <2>4. CASE r.near /\ (HoldsOff(t, n, r) \/ Detects(t, r))
    <3>1. Strong(r) /\ Confirm(t, n, r, shot, at)
      BY <2>2, <2>4 DEF Confirm
    <3>. QED  BY <1>3, <2>2, <3>1, ConfirmHolds DEF st, h
  <2>. QED  BY <2>1, <2>3, <2>4
<1>. QED  BY <1>1, <1>8, <1>9, <1>10

\* Every step keeps the invariant and is sound.
LEMMA InvInit == Init => Inv
<1>. SUFFICES ASSUME Init PROVE Inv
  OBVIOUS
<1>1. 0 \in 0 .. Stride - 1
  BY EngineNumbers
<1>2. Holds(sequence, sampled, stretch, handAt)
  BY <1>1, FreshHolds DEF Init
<1>. QED  BY <1>2 DEF Init, Inv, DetectionIsConfirmed, Optional

LEMMA InvNext ==
    ASSUME Inv, Next
    PROVE  Inv' /\ \E at \in Times : Sound(at)
<1>1. PICK shot \in Shots, at \in Times : Frame(shot, at)
  BY DEF Next
<1>2. HoldsNext /\ Sound(at)
  BY <1>1, SkipHolds, RejectHolds, SampleHolds DEF Frame
<1>3. lastAt' \in Optional(Times)
  BY <1>2 DEF Sound, Optional
<1>4. /\ emitted' \in [Motions -> Optional(Times)]
      /\ heard' = emitted'
      /\ detected' = None \/ detected'.motion \in Motions
      /\ DetectionIsConfirmed'
  <2>1. CASE NoDetection
    BY <2>1 DEF NoDetection, Inv, DetectionIsConfirmed
  <2>2. CASE ~NoDetection
    <3>1. PICK r : /\ r.motion \in Motions
                   /\ emitted' = [emitted EXCEPT ![r.motion] = at]
                   /\ heard' = [heard EXCEPT ![r.motion] = at]
                   /\ detected'.motion = r.motion /\ detected'.near = r.near
                   /\ detected'.after = Enough \/ (r.near /\ MinWindow < Window)
      BY <1>2, <2>2 DEF Sound
    <3>2. emitted' \in [Motions -> Optional(Times)]
      BY <3>1 DEF Inv, Optional
    <3>3. heard' = emitted'
      BY <3>1 DEF Inv
    <3>. QED  BY <3>1, <3>2, <3>3 DEF DetectionIsConfirmed
  <2>. QED  BY <2>1, <2>2
<1>. QED  BY <1>2, <1>3, <1>4 DEF Inv, HoldsNext

LEMMA InvStutters ==
    ASSUME Inv, UNCHANGED vars
    PROVE  Inv'
BY DEF Inv, vars, Holds, HandHolds, IsSequence, PendingHolds, Waited, DetectionIsConfirmed

\* Every reachable state of the template engine satisfies the inductive invariant: the window,
\* the pending evidence, the cooldowns and the times of the last detections are those a run of
\* frames in order can have left (temporal.py and temporal_engine.py, one frame at a time).
THEOREM EngineInvariant == Spec => []Inv
<1>1. Inv /\ [Next]_vars => Inv'
  BY InvNext, InvStutters
<1>. QED  BY InvInit, <1>1, PTL DEF Spec
-----------------------------------------------------------------------------
(* The theorems                                                             *)

\* The engine keeps its types; the window, the pending motion and the smoothed points
\* are cleared together (temporal_engine.py:150-151, _clear_sequence).
THEOREM EngineTypes == Spec => []EngineTypeOK
<1>1. Inv => EngineTypeOK
  <2>. SUFFICES ASSUME Inv PROVE EngineTypeOK
    OBVIOUS
  <2>1. /\ sampled \in 0 .. Stride - 1 /\ stretch \in 0 .. Enough
        /\ sequence.window \in Seq(Frames) /\ Len(sequence.window) = Least(stretch, History)
        /\ sequence.window = <<>> => sequence = Fresh
        /\ sequence.window # <<>> => sequence.sampledAt \in Times /\ sequence.smooth \in Points
        /\ PendingHolds(sequence.pending, sampled, stretch)
    BY DEF Inv, Holds
  <2>2. Len(sequence.window) <= History
    BY <2>1, HistoryIs DEF Least
  <2>3. sequence.pending.count < Confirmations
    BY <2>1, EngineNumbers DEF PendingHolds
  <2>. QED  BY <2>1, <2>2, <2>3 DEF EngineTypeOK, Inv, PendingHolds
<1>. QED  BY <1>1, EngineInvariant, PTL

\* The window is one uninterrupted stretch of sampled frames and a filled hand was seen
\* in it, not long ago, whatever the camera and the clock do.
THEOREM Evidence == Spec => []EvidenceIsOneStretch
<1>1. Inv => EvidenceIsOneStretch
  BY DEF Inv, Holds, HandHolds, EvidenceIsOneStretch
<1>. QED  BY <1>1, EngineInvariant, PTL

\* No motion is detected from a prefix of a window or before it is confirmed as often as
\* configured, unless a sample is matched nearly exactly.
THEOREM Confirmed == Spec => []DetectionIsConfirmed
<1>1. Inv => DetectionIsConfirmed
  BY DEF Inv
<1>. QED  BY <1>1, EngineInvariant, PTL

\* Two detections of one motion reach the caller a cooldown apart on the clock of the
\* frames, which may jump and go back: the record of the cooldowns is what the caller
\* was told, through every reset of the sequence.
THEOREM Spaced == Spec => DetectionsSpaced
<1>. DEFINE A == \A m \in Motions :
                   detected' # None /\ detected'.motion = m /\ heard[m] # None =>
                       lastAt' - heard[m] >= Cooldown
<1>1. ASSUME Inv, Next PROVE A
  <2>1. PICK at \in Times : Sound(at)
    BY <1>1, InvNext
  <2>2. CASE NoDetection
    BY <2>2 DEF NoDetection
  <2>3. CASE ~NoDetection
    <3>1. PICK r : /\ r.motion \in Motions
                   /\ Rested(r.motion, at)
                   /\ detected'.motion = r.motion
      BY <2>1, <2>3 DEF Sound
    <3>2. heard = emitted /\ lastAt' = at
      BY <1>1, <2>1 DEF Inv, Sound
    <3>. QED  BY <3>1, <3>2 DEF Rested
  <2>. QED  BY <2>2, <2>3
<1>2. ASSUME Inv, [Next]_vars PROVE [A]_vars
  BY <1>1, <1>2
<1>3. DetectionsSpaced <=> [][A]_vars
  BY DEF DetectionsSpaced
<1>. HIDE DEF A
<1>. QED  BY <1>2, <1>3, EngineInvariant, PTL DEF Spec

\* For all windows and all samples the table the distance is read from ends with the
\* cost of the best warping path and the length of one that has that cost.
THEOREM Best == Spec => []AlignmentIsBest
<1>1. Inv => AlignmentIsBest
  <2>. SUFFICES ASSUME Inv, sequence.last # None, NEW t \in Templates
                PROVE  LET local == Local(Resample(sequence.window), Resample(t.frames))
                           a == Alignment(local)
                           cost(p) == PathCosts(local, p)[Len(p)]
                       IN /\ \A p \in WarpingPaths : cost(p) >= a.cost
                          /\ \E p \in WarpingPaths : cost(p) = a.cost /\ Len(p) = a.length
    BY DEF AlignmentIsBest
  <2>1. sequence.window \in Seq(Frames) /\ sequence.window # <<>>
    BY DEF Inv, Holds, Fresh
  <2>2. /\ Resample(sequence.window) \in [1 .. Compared -> Frames]
        /\ Resample(t.frames) \in [1 .. Compared -> Frames]
    BY <2>1, TemplatesAre, ResampleTyped
  <2>. DEFINE local == Local(Resample(sequence.window), Resample(t.frames))
  <2>3. local \in Tables
    BY <2>2, LocalTyped
  <2>. HIDE DEF local
  <2>4. /\ \A p \in WarpingPaths : PathCosts(local, p)[Len(p)] >= Alignment(local).cost
        /\ \E p \in WarpingPaths : /\ PathCosts(local, p)[Len(p)] = Alignment(local).cost
                                   /\ Len(p) = Alignment(local).length
    BY <2>3, AlignmentBest
  <2>. QED  BY <2>4 DEF local
<1>. QED  BY <1>1, EngineInvariant, PTL
=================================================================================
