------------------------------ MODULE LoopPropose ------------------------------
(***************************************************************************)
(* The deterministic loop picker of the worker (plugins/loop_propose.py).  *)
(* A window is a downbeat from which LoopBars bars fit; its energy is the  *)
(* mean loudness, here a natural number.  One step is one iteration of one *)
(* of its loops: the ranked candidates for build-ups, then the segments of *)
(* the rest.  The float arithmetic of the segment borders rounds exact     *)
(* halves to even, as round() does.                                        *)
(***************************************************************************)
EXTENDS Integers, FiniteSets

CONSTANTS
  LoopBars, MinGap,       \* LOOP_BARS, MIN_GAP_DOWNBEATS (8 and 8)
  NumLoops, NumBuildups,  \* NUM_LOOPS, NUM_BUILDUPS (6 and 3)
  MaxBars,                \* bound on the downbeats of a track
  Levels                  \* energies

ASSUME PickerAssumption == /\ LoopBars \in Nat \ {0} /\ MinGap \in Nat
                           /\ LoopBars <= MinGap
                           /\ NumBuildups \in Nat \ {0} /\ NumLoops \in Nat
                           /\ NumBuildups < NumLoops
                           /\ MaxBars \in Nat /\ Levels \subseteq Nat

VARIABLES
  bars,         \* bar_count: the downbeats found by the structure stage
  energy,       \* per window
  phase,        \* "buildups", "variety", "done"
  ranked,       \* windows of the first half the ranking has passed
  buildups,     \* buildup_idx
  variety,      \* variety_idx
  seg           \* k, the segment at hand

input == <<bars, energy>>
vars == <<input, phase, ranked, buildups, variety, seg>>

Windows(n) == 0..(n - LoopBars - 1)
Count == bars - LoopBars                    \* n_windows
FirstHalf == 0..((Count \div 2) - 1)
RestFrom == Count \div 2
Picks == buildups \cup variety

TypeOK == /\ bars \in 0..MaxBars
          /\ energy \in [Windows(bars) -> Levels]
          /\ phase \in {"buildups", "variety", "done"}
          /\ ranked \subseteq Windows(bars)
          /\ buildups \subseteq Windows(bars) /\ variety \subseteq Windows(bars)
          /\ seg \in 0..NumLoops

\* Too few downbeats for one window: nothing is picked.
Init == /\ bars \in 0..MaxBars
        /\ energy \in [Windows(bars) -> Levels]
        /\ phase = IF bars < LoopBars + 1 THEN "done" ELSE "buildups"
        /\ ranked = {} /\ buildups = {} /\ variety = {} /\ seg = 0

-------------------------------------------------------------------------------
Slope(i) == energy[IF i + LoopBars < Count THEN i + LoopBars ELSE Count - 1]
            - energy[IF i < LoopBars THEN 0 ELSE i - LoopBars]

Apart(i, k) == i - k >= MinGap \/ k - i >= MinGap
ClearOfBuildups(i) ==                       \* the check before "loops overlap"
  \A p \in buildups : Apart(i, p)
Admissible(i) == \A p \in Picks : Apart(i, p)

EarliestRising(i) ==                        \* ranked by time, not by slope
  /\ i \in FirstHalf \ ranked /\ Slope(i) > 0
  /\ \A k \in FirstHalf \ ranked : Slope(k) > 0 => i <= k
\* sorted() is stable: among equal slopes the earlier window comes first.
Before(i, k) == \/ Slope(k) < Slope(i)
                \/ Slope(k) = Slope(i) /\ i <= k
Steepest(i) == /\ i \in FirstHalf \ ranked
               /\ \A k \in FirstHalf \ ranked : Before(i, k)

\* The candidate is taken when it rises and is far enough from those chosen.
PickBuildup ==
  /\ phase = "buildups"
  /\ \E i \in Windows(bars) :
       /\ Steepest(i) /\ Slope(i) > 0
       /\ ranked' = ranked \cup {i}
       /\ buildups' = IF Admissible(i) THEN buildups \cup {i} ELSE buildups
  /\ phase' = IF Cardinality(buildups') >= NumBuildups THEN "variety" ELSE phase
  /\ UNCHANGED <<input, variety, seg>>

NoMoreBuildups == /\ phase = "buildups"
                  /\ \A i \in FirstHalf \ ranked : Slope(i) <= 0
                  /\ phase' = "variety"
                  /\ UNCHANGED <<input, ranked, buildups, variety, seg>>

\* round(): to the nearest, halves to even.
Rounded(a, b) == LET q == a \div b
                     r == 2 * (a % b)
                 IN IF r > b \/ (r = b /\ q % 2 = 1) THEN q + 1 ELSE q

AllSegments == NumLoops                     \* build-ups not counted
Segments == NumLoops - Cardinality(buildups)
Border(k) == RestFrom + Rounded(k * (Count - RestFrom), Segments)
ClosedSegment(k) == {i \in Windows(bars) : Border(k) <= i /\ i <= Border(k + 1)}
Segment(k) == {i \in Windows(bars) : Border(k) <= i /\ i < Border(k + 1)}
Enough == Segments > 0 /\ Count - RestFrom >= Segments

\* max() takes the first of the loudest.
Loudest(i, S) == /\ i \in S
                 /\ \A k \in S : \/ energy[k] < energy[i]
                                 \/ energy[k] = energy[i] /\ i <= k

OneTooMany ==                               \* for k in range(seg_count + 1)
  /\ phase = "variety" /\ Enough /\ seg <= Segments
  /\ seg' = seg + 1
  /\ UNCHANGED <<input, phase, ranked, buildups, variety>>
\* The loudest window of the segment that keeps clear of every pick so far, if
\* there is one.
PickVariety ==
  /\ phase = "variety" /\ Enough /\ seg < Segments
  /\ LET candidates == {i \in Segment(seg) : Admissible(i)}
     IN \/ candidates = {} /\ UNCHANGED variety
        \/ \E i \in candidates : Loudest(i, candidates) /\ variety' = variety \cup {i}
  /\ seg' = seg + 1
  /\ UNCHANGED <<input, phase, ranked, buildups>>

Finish == /\ phase = "variety"
          /\ ~Enough \/ seg = Segments
          /\ phase' = "done"
          /\ UNCHANGED <<input, ranked, buildups, variety, seg>>

Next == PickBuildup \/ NoMoreBuildups \/ PickVariety \/ Finish

Spec == Init /\ [][Next]_vars

-------------------------------------------------------------------------------
\* No two loops overlap, be they build-ups or variety ("loops overlap
\* 2026-06-09"): their windows share no bar.
LoopsDisjoint == \A i, k \in Picks : i # k => i + LoopBars <= k \/ k + LoopBars <= i

\* The segments cover the rest of the track without gap or overlap, whatever
\* the rounding: every window of it gets its chance exactly once.
SegmentsTile ==
  phase = "variety" /\ Enough =>
    \A i \in RestFrom..(Count - 1) :
      Cardinality({k \in 0..(Segments - 1) : i \in Segment(k)}) = 1

\* The ranking is greedy but not blind: a rising window of the first half is
\* left out only for a steeper (or equally steep, earlier) one that is too near,
\* or because NumBuildups such were found.
BuildupsSteepest ==
  phase # "buildups" =>
    \A i \in FirstHalf \ buildups : Slope(i) > 0 =>
      \/ \E p \in buildups : Before(p, i) /\ ~Apart(p, i)
      \/ /\ Cardinality(buildups) = NumBuildups
         /\ \A p \in buildups : Before(p, i)

\* At most NumLoops cues, however the segments fall.
AtMostNumLoops == Cardinality(Picks) <= NumLoops

===============================================================================
