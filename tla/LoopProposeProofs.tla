--------------------------- MODULE LoopProposeProofs ---------------------------
(***************************************************************************)
(* Proofs about the loop picker, for every energy profile and every value   *)
(* of the constants: it is well typed, its loops never overlap, it never    *)
(* proposes more than NumLoops of them, build-ups are the steepest ones     *)
(* that keep apart, and the rounded segments tile the rest of the track.    *)
(***************************************************************************)
EXTENDS LoopPropose, FiniteSetTheorems, TLAPS

\* Picks keep their distance, whichever phase took them.
PairwiseApart == \A i, k \in Picks : i # k => Apart(i, k)

\* The counts behind AtMostNumLoops: each segment adds one window at most, and
\* there are only as many segments as build-ups are missing.
Counted == /\ IsFiniteSet(buildups) /\ IsFiniteSet(variety)
           /\ Cardinality(buildups) <= NumBuildups
           /\ phase = "buildups" => /\ Cardinality(buildups) < NumBuildups
                                    /\ variety = {} /\ seg = 0
           /\ Cardinality(variety) <= seg
           /\ seg <= Segments

Inv == TypeOK /\ PairwiseApart /\ Counted

\* Adding an admissible window to the picks keeps them apart.
LEMMA AdmissibleKeepsApart ==
  ASSUME NEW P, NEW W, W \subseteq Int, P \subseteq W, NEW i \in W,
         \A p \in P : Apart(i, p),
         \A a, b \in P : a # b => Apart(a, b)
  PROVE  \A a, b \in P \cup {i} : a # b => Apart(a, b)
<1> SUFFICES ASSUME NEW a \in P \cup {i}, NEW b \in P \cup {i}, a # b
             PROVE  Apart(a, b)
  OBVIOUS
<1>1. CASE a = i
  BY <1>1
<1>2. CASE b = i
  BY <1>2, PickerAssumption DEF Apart
<1>3. CASE a \in P /\ b \in P
  BY <1>3
<1> QED
  BY <1>1, <1>2, <1>3

LEMMA AddingOne ==
  ASSUME NEW S, NEW x, IsFiniteSet(S)
  PROVE  /\ IsFiniteSet(S \cup {x}) /\ Cardinality(S \cup {x}) \in Nat
         /\ Cardinality(S \cup {x}) <= Cardinality(S) + 1
<1>1. /\ IsFiniteSet(S \cup {x})
      /\ Cardinality(S \cup {x}) = IF x \in S THEN Cardinality(S) ELSE Cardinality(S) + 1
  BY FS_AddElement
<1>2. Cardinality(S) \in Nat /\ Cardinality(S \cup {x}) \in Nat
  BY <1>1, FS_CardinalityType
<1> QED
  BY <1>1, <1>2

LEMMA WindowsAreIntegers ==
  ASSUME TypeOK
  PROVE  Windows(bars) \subseteq Int /\ bars \in Int
BY PickerAssumption DEF TypeOK, Windows

LEMMA InitInv == Init => Inv
<1> SUFFICES ASSUME Init PROVE Inv
  OBVIOUS
<1>1. TypeOK
  BY PickerAssumption DEF Init, TypeOK
<1>2. PairwiseApart
  BY DEF Init, PairwiseApart, Picks
<1>3. Cardinality({}) = 0 /\ IsFiniteSet({})
  BY FS_EmptySet
<1>4. Counted
  BY <1>3, PickerAssumption DEF Init, Counted, Segments
<1> QED
  BY <1>1, <1>2, <1>4 DEF Inv

LEMMA NextInv == Inv /\ [Next]_vars => Inv'
<1> SUFFICES ASSUME Inv, [Next]_vars PROVE Inv'
  OBVIOUS
<1> USE DEF Inv
<1>0. /\ Windows(bars) \subseteq Int
      /\ Cardinality(buildups) \in Nat /\ Cardinality(variety) \in Nat
  BY WindowsAreIntegers, FS_CardinalityType DEF Counted
<1>1. CASE PickBuildup
  <2> PICK i \in Windows(bars) :
        /\ ranked' = ranked \cup {i}
        /\ buildups' = IF Admissible(i) THEN buildups \cup {i} ELSE buildups
    BY <1>1 DEF PickBuildup
  <2>1. /\ phase = "buildups" /\ UNCHANGED <<bars, energy, variety, seg>>
        /\ phase' = IF Cardinality(buildups') >= NumBuildups THEN "variety" ELSE phase
    BY <1>1 DEF PickBuildup, input
  <2>2. /\ IsFiniteSet(buildups') /\ Cardinality(buildups') \in Nat
        /\ Cardinality(buildups') <= Cardinality(buildups) + 1
    <3>1. CASE buildups' = buildups
      BY <3>1, <1>0 DEF Counted
    <3>2. CASE buildups' = buildups \cup {i}
      BY <3>2, AddingOne DEF Counted
    <3> QED
      BY <3>1, <3>2
  <2>3. TypeOK'
    BY <2>1 DEF TypeOK, Windows
  <2>4. PairwiseApart'
    <3>1. CASE Admissible(i)
      <4>1. Picks' = Picks \cup {i}
        BY <3>1, <2>1 DEF Picks
      <4>2. Picks \subseteq Windows(bars)
        BY DEF Picks, TypeOK
      <4>3. \A a, b \in Picks \cup {i} : a # b => Apart(a, b)
        BY <1>0, <3>1, <4>2, AdmissibleKeepsApart DEF Admissible, PairwiseApart
      <4> QED
        BY <4>1, <4>3 DEF PairwiseApart, Apart
    <3>2. CASE ~Admissible(i)
      BY <3>2, <2>1 DEF PairwiseApart, Picks, Apart
    <3> QED
      BY <3>1, <3>2
  <2>5. Counted'
    BY <2>1, <2>2, <1>0, PickerAssumption DEF Counted, Segments
  <2> QED
    BY <2>3, <2>4, <2>5
<1>2. CASE NoMoreBuildups
  <2>1. UNCHANGED <<bars, energy, ranked, buildups, variety, seg>> /\ phase' = "variety"
    BY <1>2 DEF NoMoreBuildups, input
  <2> QED
    BY <2>1 DEF TypeOK, Windows, PairwiseApart, Picks, Apart, Counted, Segments
<1>3. CASE PickVariety
  <2>1. /\ phase = "variety" /\ seg < Segments /\ seg' = seg + 1
        /\ UNCHANGED <<bars, energy, phase, ranked, buildups>>
    BY <1>3 DEF PickVariety, input
  <2>2. CASE UNCHANGED variety
    <3>1. TypeOK'
      BY <2>1, <2>2, <1>0, PickerAssumption DEF TypeOK, Windows, Segments
    <3>2. PairwiseApart'
      BY <2>1, <2>2 DEF PairwiseApart, Picks, Apart
    <3>3. Counted'
      BY <2>1, <2>2, <1>0, PickerAssumption DEF Counted, Segments, TypeOK
    <3> QED
      BY <3>1, <3>2, <3>3
  <2>3. ASSUME NEW i \in Windows(bars), Admissible(i), variety' = variety \cup {i}
        PROVE  Inv'
    <3>1. TypeOK'
      BY <2>1, <2>3, <1>0, PickerAssumption DEF TypeOK, Windows, Segments
    <3>2. PairwiseApart'
      <4>1. Picks' = Picks \cup {i}
        BY <2>1, <2>3 DEF Picks
      <4>2. Picks \subseteq Windows(bars)
        BY DEF Picks, TypeOK
      <4>3. \A a, b \in Picks \cup {i} : a # b => Apart(a, b)
        BY <1>0, <2>3, <4>2, AdmissibleKeepsApart DEF Admissible, PairwiseApart
      <4> QED
        BY <4>1, <4>3 DEF PairwiseApart, Apart
    <3>3. /\ IsFiniteSet(variety') /\ Cardinality(variety') \in Nat
          /\ Cardinality(variety') <= Cardinality(variety) + 1
      BY <2>3, AddingOne DEF Counted
    <3>4. Counted'
      BY <2>1, <3>3, <1>0, PickerAssumption DEF Counted, Segments, TypeOK
    <3> QED
      BY <3>1, <3>2, <3>4
  <2>4. \/ UNCHANGED variety
        \/ \E i \in Windows(bars) : Admissible(i) /\ variety' = variety \cup {i}
    BY <1>3 DEF PickVariety, Segment
  <2> QED
    BY <2>2, <2>3, <2>4
<1>4. CASE Finish
  <2>1. UNCHANGED <<bars, energy, ranked, buildups, variety, seg>> /\ phase' = "done"
    BY <1>4 DEF Finish, input
  <2> QED
    BY <2>1 DEF TypeOK, Windows, PairwiseApart, Picks, Apart, Counted, Segments
<1>5. CASE UNCHANGED vars
  BY <1>5 DEF vars, input, TypeOK, Windows, PairwiseApart, Picks, Apart, Counted, Segments
<1> QED
  BY <1>1, <1>2, <1>3, <1>4, <1>5 DEF Next

LEMMA Invariance == Spec => []Inv
BY InitInv, NextInv, PTL DEF Spec

\* The picker's state is well typed; above all, every pick is the start of a
\* window that fits (loop_propose).
THEOREM TypeCorrect == Spec => []TypeOK
<1>1. Inv => TypeOK
  BY DEF Inv
<1> QED
  BY <1>1, Invariance, PTL

\* No two proposed loops overlap, of whatever phase ("loops overlap 2026-06-09").
THEOREM NoOverlap == Spec => []LoopsDisjoint
<1>1. Inv => LoopsDisjoint
  <2> SUFFICES ASSUME Inv, NEW i \in Picks, NEW k \in Picks, i # k
               PROVE  i + LoopBars <= k \/ k + LoopBars <= i
    BY DEF LoopsDisjoint
  <2>1. i \in Int /\ k \in Int
    BY WindowsAreIntegers DEF Inv, TypeOK, Picks
  <2>2. Apart(i, k)
    BY DEF Inv, PairwiseApart
  <2> QED
    BY <2>1, <2>2, PickerAssumption DEF Apart
<1> QED
  BY <1>1, Invariance, PTL

\* Never more than NumLoops cues, however many build-ups were found.
THEOREM NeverTooMany == Spec => []AtMostNumLoops
<1>1. Inv => AtMostNumLoops
  <2> SUFFICES ASSUME Inv PROVE Cardinality(Picks) <= NumLoops
    BY DEF AtMostNumLoops
  <2>1. /\ Cardinality(buildups) \in Nat /\ Cardinality(variety) \in Nat
        /\ IsFiniteSet(buildups) /\ IsFiniteSet(variety)
    BY FS_CardinalityType DEF Inv, Counted
  <2>2. /\ IsFiniteSet(buildups \cap variety)
        /\ Cardinality(buildups \cap variety) \in Nat
    BY <2>1, FS_Intersection, FS_CardinalityType
  <2>3. Cardinality(Picks) = Cardinality(buildups) + Cardinality(variety)
                              - Cardinality(buildups \cap variety)
    BY <2>1, FS_Union DEF Picks
  <2>4. Cardinality(variety) <= seg /\ seg <= NumLoops - Cardinality(buildups) /\ seg \in Nat
    BY DEF Inv, Counted, Segments, TypeOK
  <2> QED
    BY <2>1, <2>2, <2>3, <2>4, PickerAssumption
<1> QED
  BY <1>1, Invariance, PTL
-------------------------------------------------------------------------------
\* What the ranking has passed is steeper than the rest, and left out only for a
\* build-up taken before it; it stops at NumBuildups, or when nothing rises.
Ranking ==
  /\ ranked \subseteq FirstHalf /\ buildups \subseteq ranked
  /\ \A i \in ranked, k \in FirstHalf \ ranked : Before(i, k)
  /\ \A i \in ranked \ buildups : \E p \in buildups : Before(p, i) /\ ~Apart(p, i)
  /\ phase # "buildups" => \/ Cardinality(buildups) = NumBuildups
                           \/ \A i \in FirstHalf \ ranked : Slope(i) <= 0

LEMMA SlopeIsInteger ==
  ASSUME TypeOK, NEW i \in FirstHalf
  PROVE  Slope(i) \in Int
<1> USE PickerAssumption
<1>1. bars \in Nat /\ LoopBars \in Nat /\ Count \in Int /\ i \in Int
  BY DEF TypeOK, Count, FirstHalf
<1>2. 0 <= i /\ i < Count
  BY <1>1 DEF FirstHalf
<1>3. \A k \in 0..(Count - 1) : energy[k] \in Int
  <2>1. Windows(bars) = 0..(Count - 1)
    BY <1>1 DEF Windows, Count
  <2>2. energy \in [Windows(bars) -> Levels] /\ Levels \subseteq Int
    BY DEF TypeOK
  <2> QED
    BY <2>1, <2>2
<1> QED
  BY <1>1, <1>2, <1>3 DEF Slope

LEMMA InputFixed ==
  ASSUME UNCHANGED input
  PROVE  /\ FirstHalf' = FirstHalf
         /\ \A i : Slope(i)' = Slope(i)
         /\ \A i, k : Before(i, k)' <=> Before(i, k)
BY DEF input, FirstHalf, Slope, Count, Before

LEMMA RankingInit == Init => Ranking
<1> SUFFICES ASSUME Init PROVE Ranking
  OBVIOUS
<1>1. CASE phase = "buildups"
  BY <1>1 DEF Init, Ranking
<1>2. CASE bars < LoopBars + 1
  <2>1. FirstHalf = {}
    BY <1>2, PickerAssumption DEF Init, FirstHalf, Count
  <2> QED
    BY <2>1 DEF Init, Ranking
<1> QED
  BY <1>1, <1>2 DEF Init

LEMMA RankingNext == Inv /\ Ranking /\ [Next]_vars => Ranking'
<1> SUFFICES ASSUME Inv, Ranking, [Next]_vars PROVE Ranking'
  OBVIOUS
<1>inv. Inv'
  BY NextInv
<1>0. /\ UNCHANGED input
      /\ FirstHalf' = FirstHalf
      /\ \A i : Slope(i)' = Slope(i)
      /\ \A i, k : Before(i, k)' <=> Before(i, k)
  <2>1. UNCHANGED input
    BY DEF Next, PickBuildup, NoMoreBuildups, PickVariety, Finish, vars
  <2> QED
    BY <2>1, InputFixed
<1>1. CASE PickBuildup
  <2> PICK i \in Windows(bars) :
        /\ Steepest(i)
        /\ ranked' = ranked \cup {i}
        /\ buildups' = IF Admissible(i) THEN buildups \cup {i} ELSE buildups
    BY <1>1 DEF PickBuildup
  <2>1. i \in FirstHalf \ ranked /\ \A k \in FirstHalf \ ranked : Before(i, k)
    BY DEF Steepest
  <2>2. ranked' \subseteq FirstHalf' /\ buildups' \subseteq ranked'
    BY <1>0, <2>1 DEF Ranking
  <2>3. \A h \in ranked', k \in FirstHalf' \ ranked' : Before(h, k)'
    BY <1>0, <2>1 DEF Ranking
  <2>4. \A h \in ranked' \ buildups' :
           \E p \in buildups' : Before(p, h)' /\ ~Apart(p, h)'
    <3> SUFFICES ASSUME NEW h \in ranked' \ buildups'
                 PROVE  \E p \in buildups' : Before(p, h) /\ ~Apart(p, h)
      BY <1>0 DEF Apart
    <3>1. CASE h \in ranked
      BY <3>1 DEF Ranking
    <3>2. CASE h = i
      <4>1. Picks = buildups /\ ~Admissible(i) /\ buildups' = buildups
        BY <1>1, <3>2 DEF PickBuildup, Inv, Counted, Picks
      <4>2. PICK p \in buildups : ~Apart(i, p)
        BY <4>1 DEF Admissible
      <4>3. p \in Int /\ i \in Int
        BY WindowsAreIntegers DEF Inv, TypeOK
      <4>4. ~Apart(p, i)
        BY <4>2, <4>3, PickerAssumption DEF Apart
      <4>5. Before(p, i)
        BY <2>1 DEF Ranking
      <4> QED
        BY <3>2, <4>1, <4>4, <4>5
    <3> QED
      BY <3>1, <3>2
  <2>5. phase' # "buildups" => Cardinality(buildups)' = NumBuildups
    <3>1. phase' # "buildups" => Cardinality(buildups') >= NumBuildups
      BY <1>1 DEF PickBuildup
    <3>2. Cardinality(buildups') <= NumBuildups /\ Cardinality(buildups') \in Nat
      BY <1>inv, FS_CardinalityType DEF Inv, Counted
    <3> QED
      BY <3>1, <3>2, PickerAssumption
  <2> QED
    BY <2>2, <2>3, <2>4, <2>5 DEF Ranking
<1>2. CASE NoMoreBuildups
  BY <1>0, <1>2 DEF NoMoreBuildups, Ranking, Apart
<1>3. CASE PickVariety \/ Finish
  BY <1>0, <1>3 DEF PickVariety, Finish, Ranking, Apart
<1>4. CASE UNCHANGED vars
  BY <1>0, <1>4 DEF vars, Ranking, Apart
<1> QED
  BY <1>1, <1>2, <1>3, <1>4 DEF Next

\* A rising window of the first half is left out only for a steeper one too near to
\* it, or because NumBuildups steeper ones were found.
THEOREM SteepestFirst == Spec => []BuildupsSteepest
<1>1. Inv /\ Ranking => BuildupsSteepest
  <2> SUFFICES ASSUME Inv, Ranking, phase # "buildups",
                      NEW i \in FirstHalf \ buildups, Slope(i) > 0
               PROVE  \/ \E p \in buildups : Before(p, i) /\ ~Apart(p, i)
                      \/ /\ Cardinality(buildups) = NumBuildups
                         /\ \A p \in buildups : Before(p, i)
    BY DEF BuildupsSteepest
  <2>1. CASE i \in ranked
    BY <2>1 DEF Ranking
  <2>2. CASE i \notin ranked
    <3>1. ~(Slope(i) <= 0)
      BY SlopeIsInteger DEF Inv
    <3> QED
      BY <2>2, <3>1 DEF Ranking
  <2> QED
    BY <2>1, <2>2
<1> QED
  BY <1>1, RankingInit, RankingNext, Invariance, PTL DEF Spec
-------------------------------------------------------------------------------
\* Multiplying by a positive number keeps the order, in both directions.
LEMMA Cancel ==
  ASSUME NEW s \in Int, s > 0, NEW p \in Int, NEW q \in Int, s * p <= s * q
  PROVE  p <= q
OBVIOUS

LEMMA Grows ==
  ASSUME NEW s \in Int, s > 0, NEW p \in Int, NEW q \in Int, p < q
  PROVE  s * p + s <= s * q
OBVIOUS

LEMMA Division ==
  ASSUME NEW a \in Nat, NEW b \in Nat, b > 0
  PROVE  /\ a = b * (a \div b) + (a % b) /\ 0 <= a % b /\ a % b < b
         /\ a \div b \in Nat /\ a % b \in Nat
OBVIOUS

\* round() is off by half at most.
LEMMA Rounding ==
  ASSUME NEW a \in Nat, NEW b \in Nat, b > 0
  PROVE  /\ Rounded(a, b) \in Int
         /\ 2 * a - b <= 2 * (b * Rounded(a, b))
         /\ 2 * (b * Rounded(a, b)) <= 2 * a + b
<1> DEFINE q == a \div b
           r == 2 * (a % b)
<1>1. /\ a = b * q + (a % b) /\ 0 <= a % b /\ a % b < b
      /\ q \in Nat /\ a % b \in Nat
  BY Division
<1>2. b * (q + 1) = b * q + b /\ b * q \in Int
  BY <1>1
<1> HIDE DEF q
<1>3. CASE r > b \/ (r = b /\ q % 2 = 1)
  <2>1. Rounded(a, b) = q + 1
    BY <1>3 DEF Rounded, q
  <2> QED
    BY <1>1, <1>2, <1>3, <2>1
<1>4. CASE ~(r > b \/ (r = b /\ q % 2 = 1))
  <2>1. Rounded(a, b) = q
    BY <1>4 DEF Rounded, q
  <2>2. r <= b
    BY <1>1, <1>4
  <2> QED
    BY <1>1, <1>2, <2>1, <2>2
<1> QED
  BY <1>3, <1>4

\* s borders over n >= s windows, the k-th at k * n / s rounded: they run from 0
\* to n and never fall, and every x below n lies between two of them.
LEMMA Borders ==
  ASSUME NEW n \in Nat, NEW s \in Nat, s > 0, s <= n
  PROVE  /\ Rounded(0 * n, s) = 0 /\ Rounded(s * n, s) = n
         /\ \A k \in Nat : Rounded(k * n, s) \in Int
         /\ \A k, l \in Nat : k < l => Rounded(k * n, s) <= Rounded(l * n, s)
         /\ \A x \in 0..(n - 1) : \E k \in 0..(s - 1) :
               Rounded(k * n, s) <= x /\ x < Rounded((k + 1) * n, s)
<1> DEFINE R(k) == Rounded(k * n, s)
<1>1. \A k \in Nat : /\ k * n \in Nat /\ R(k) \in Int
                     /\ 2 * (k * n) - s <= 2 * (s * R(k))
                     /\ 2 * (s * R(k)) <= 2 * (k * n) + s
  <2> TAKE k \in Nat
  <2>1. k * n \in Nat
    OBVIOUS
  <2> QED
    BY <2>1, Rounding
<1> HIDE DEF R
\* What a bound on 2 * s * R(k) says of R(k).
<1>2. ASSUME NEW k \in Nat, NEW x \in Int, 2 * (s * R(k)) <= 2 * (s * x) + s
      PROVE  R(k) <= x
  <2>1. R(k) \in Int
    BY <1>1
  <2>2. s * R(k) \in Int /\ s * x \in Int
    BY <2>1
  <2>3. s * x + s <= s * R(k) \/ R(k) <= x
    BY <2>1, Grows
  <2> QED
    BY <1>2, <2>1, <2>2, <2>3
<1>3. ASSUME NEW k \in Nat, NEW x \in Int, 2 * (s * x) - s <= 2 * (s * R(k))
      PROVE  x <= R(k)
  <2>1. R(k) \in Int
    BY <1>1
  <2>2. s * R(k) \in Int /\ s * x \in Int
    BY <2>1
  <2>3. s * R(k) + s <= s * x \/ x <= R(k)
    BY <2>1, Grows
  <2> QED
    BY <1>3, <2>1, <2>2, <2>3
<1>4. R(0) = 0
  <2>1. 0 * n = 0 /\ s * 0 = 0
    OBVIOUS
  <2> QED
    BY <1>1, <1>2, <1>3, <2>1
<1>5. R(s) = n
  <2>1. s * n \in Nat /\ s * R(s) \in Int /\ R(s) \in Int
    BY <1>1
  <2>2. 2 * (s * n) - s <= 2 * (s * R(s)) /\ 2 * (s * R(s)) <= 2 * (s * n) + s
    BY <1>1
  <2>3. R(s) <= n
    BY <1>2, <2>2
  <2>4. n <= R(s)
    BY <1>3, <2>2
  <2> QED
    BY <2>1, <2>3, <2>4
<1>6. ASSUME NEW k \in Nat, NEW l \in Nat, k < l PROVE R(k) <= R(l)
  <2>1. k * n + n <= l * n
    <3>1. k + 1 <= l /\ (k + 1) * n = k * n + n
      BY <1>6
    <3>2. n * (k + 1) <= n * l
      BY <3>1
    <3> QED
      BY <3>1, <3>2
  <2>2. 2 * (s * R(k)) <= 2 * (s * R(l))
    <3>1. s * R(k) \in Int /\ s * R(l) \in Int /\ k * n \in Nat /\ l * n \in Nat
      BY <1>1
    <3>2. 2 * (s * R(k)) <= 2 * (k * n) + s
      BY <1>1
    <3>3. 2 * (l * n) - s <= 2 * (s * R(l))
      BY <1>1
    <3> QED
      BY <2>1, <3>1, <3>2, <3>3
  <2>3. R(k) \in Int /\ R(l) \in Int /\ s * R(k) \in Int /\ s * R(l) \in Int
    BY <1>1
  <2>4. s * R(k) <= s * R(l)
    BY <2>2, <2>3
  <2> QED
    BY <2>3, <2>4, Cancel
<1>7. ASSUME NEW x \in 0..(n - 1)
      PROVE  \E k \in 0..(s - 1) : R(k) <= x /\ x < R(k + 1)
  <2> DEFINE k == (x * s) \div n
  <2>1. /\ x * s \in Nat /\ n > 0
        /\ x * s = s * x
    OBVIOUS
  <2>2. k \in Nat /\ n * k <= x * s /\ x * s < n * k + n
    BY <2>1, Division
  <2> HIDE DEF k
  <2>3. R(k) <= x
    <3>1. k * n = n * k /\ n * k \in Int
      BY <2>2
    <3>2. 2 * (s * R(k)) <= 2 * (k * n) + s /\ s * R(k) \in Int
      BY <1>1, <2>2
    <3>3. 2 * (s * R(k)) <= 2 * (s * x) + s
      BY <2>1, <2>2, <3>1, <3>2
    <3> QED
      BY <1>2, <2>2, <3>3
  <2>4. k < s
    <3>1. x * s + s <= n * s
      <4>1. s * x + s <= s * n
        BY Grows
      <4> QED
        BY <4>1
    <3>2. n * k < n * s
      BY <2>2, <3>1
    <3>3. ~(s <= k)
      <4>1. s <= k => n * s <= n * k
        BY <2>2
      <4> QED
        BY <2>2, <3>2, <4>1
    <3> QED
      BY <2>2, <3>3
  <2>5. x < R(k + 2)
    <3>1. (k + 2) * n = n * k + 2 * n /\ n * k \in Int /\ k + 2 \in Nat
      BY <2>2
    <3>2. s * (x + 1) = x * s + s
      OBVIOUS
    <3>3. 2 * (s * (x + 1)) - s <= 2 * (s * R(k + 2))
      <4>1. s * R(k + 2) \in Int
        BY <1>1, <3>1
      <4>2. 2 * ((k + 2) * n) - s <= 2 * (s * R(k + 2))
        BY <1>1, <3>1
      <4> QED
        BY <2>1, <2>2, <3>1, <3>2, <4>1, <4>2
    <3>4. x + 1 \in Int
      OBVIOUS
    <3>5. x + 1 <= R(k + 2)
      BY <1>3, <3>1, <3>3, <3>4
    <3> QED
      BY <1>1, <3>1, <3>5
  <2>6. CASE x < R(k + 1)
    BY <2>2, <2>3, <2>4, <2>6
  <2>7. CASE ~(x < R(k + 1))
    <3>1. R(k + 1) <= x
      BY <1>1, <2>2, <2>7
    <3>2. k + 1 # s
      BY <1>5, <3>1
    <3>3. k + 1 \in 0..(s - 1) /\ (k + 1) + 1 = k + 2
      BY <2>2, <2>4, <3>2
    <3> QED
      BY <2>5, <3>1, <3>3
  <2> QED
    BY <2>6, <2>7
<1> QED
  BY <1>1, <1>4, <1>5, <1>6, <1>7 DEF R

\* The segments cover the rest of the track without gap or overlap: borders are
\* rounded once for both neighbours, and the last one is the end of the track.
THEOREM SegmentsCover == Spec => []SegmentsTile
<1>1. Inv => SegmentsTile
  <2> SUFFICES ASSUME Inv, Enough, NEW i \in RestFrom..(Count - 1)
               PROVE  Cardinality({k \in 0..(Segments - 1) : i \in Segment(k)}) = 1
    BY DEF SegmentsTile
  <2> DEFINE n == Count - RestFrom
             x == i - RestFrom
             R(k) == Rounded(k * n, Segments)
  <2>1. /\ Count \in Int /\ RestFrom \in Int /\ Segments \in Int /\ i \in Int
        /\ bars \in Nat /\ LoopBars \in Nat
    <3>1. bars \in Nat /\ LoopBars \in Nat /\ Cardinality(buildups) \in Nat
      BY PickerAssumption, FS_CardinalityType DEF Inv, TypeOK, Counted
    <3> QED
      BY <3>1, PickerAssumption DEF Count, RestFrom, Segments
  <2>2. /\ n \in Nat /\ Segments \in Nat /\ Segments > 0 /\ Segments <= n
        /\ x \in 0..(n - 1)
    BY <2>1 DEF Enough
  <2>3. i \in Windows(bars)
    <3>1. 0 <= RestFrom
      BY <2>1 DEF RestFrom
    <3> QED
      BY <2>1, <3>1 DEF Windows, Count
  <2>4. \A k \in Nat : R(k) \in Int
    BY <2>2, Borders
  <2>5. \A k \in Nat : R(k) \in Int /\ (i \in Segment(k) <=> R(k) <= x /\ x < R(k + 1))
    <3> TAKE k \in Nat
    <3>1. R(k) \in Int /\ R(k + 1) \in Int
      BY <2>4
    <3>2. Border(k) = RestFrom + R(k) /\ Border(k + 1) = RestFrom + R(k + 1)
      BY DEF Border
    <3> QED
      BY <2>1, <2>3, <3>1, <3>2 DEF Segment
  <2>6. \A k, l \in Nat : k < l => R(k) <= R(l)
    BY <2>2, Borders
  <2>7. \E k \in 0..(Segments - 1) : R(k) <= x /\ x < R(k + 1)
    BY <2>2, Borders
  <2> HIDE DEF x, n, R
  <2>8. PICK k \in 0..(Segments - 1) : R(k) <= x /\ x < R(k + 1)
    BY <2>7
  <2>9. \A l \in 0..(Segments - 1) : i \in Segment(l) => l = k
    <3> SUFFICES ASSUME NEW l \in 0..(Segments - 1), i \in Segment(l) PROVE l = k
      OBVIOUS
    <3>1. R(l) <= x /\ x < R(l + 1) /\ l \in Nat /\ k \in Nat
      BY <2>1, <2>5
    <3>2. x \in Int /\ R(l) \in Int /\ R(k) \in Int /\ R(l + 1) \in Int /\ R(k + 1) \in Int
      BY <2>2, <2>5, <3>1
    <3>3. ~(l < k)
      <4>1. l < k => l + 1 = k \/ l + 1 < k
        BY <3>1
      <4>2. l < k => R(l + 1) <= R(k)
        BY <2>6, <3>1, <3>2, <4>1
      <4> QED
        BY <2>8, <3>1, <3>2, <4>2
    <3>4. ~(k < l)
      <4>1. k < l => k + 1 = l \/ k + 1 < l
        BY <3>1
      <4>2. k < l => R(k + 1) <= R(l)
        BY <2>6, <3>1, <3>2, <4>1
      <4> QED
        BY <2>8, <3>1, <3>2, <4>2
    <3> QED
      BY <3>1, <3>3, <3>4
  <2>10. {l \in 0..(Segments - 1) : i \in Segment(l)} = {k}
    BY <2>1, <2>5, <2>8, <2>9
  <2> QED
    BY <2>10, FS_Singleton
<1> QED
  BY <1>1, Invariance, PTL
===============================================================================
