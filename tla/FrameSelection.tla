--------------------------- MODULE FrameSelection ---------------------------
(***************************************************************************)
(* Which frames of a clip the AI is shown (analyzer/base.py): how finely   *)
(* the clip is sampled, how many of the frames are sent, and which, by the *)
(* strategies "smart", "adaptive" and "uniform".                           *)
(*                                                                         *)
(* Frames are 1..n; diffs[i] is the motion between frames i and i + 1.     *)
(* Times are tenths of a second and an interval is a fraction of them.     *)
(***************************************************************************)
EXTENDS Integers, Sequences, FiniteSets, SequencesExt, FiniteSetsExt, TLC

LOCAL CeilDiv(a, b) == (a + b - 1) \div b
LOCAL Ascending(set) == SelectSeq([i \in 1..Max(set \cup {0}) |-> i], LAMBDA i : i \in set)
LOCAL Abs(i) == IF i < 0 THEN -i ELSE i

-----------------------------------------------------------------------------
(* Sampling.  clip.duration is 0 when it is not known.                     *)
Oversampling == {"smart", "adaptive"}
MinInterval  == 5      \* _MIN_FRAME_INTERVAL
MaxExtracted == 240    \* _MAX_EXTRACTED_FRAMES
Coverage     == 600    \* _MAX_CLIP_COVERAGE_SECONDS
LongClip     == 300    \* _LONG_CLIP_THRESHOLD_SECONDS

PoolSize(clip) == IF clip.strategy \in Oversampling THEN 2 * clip.maxFrames ELSE clip.maxFrames

Interval(clip) ==
    LET pool  == PoolSize(clip)
        floor == IF MinInterval < clip.interval THEN MinInterval ELSE clip.interval
    IN IF clip.duration = 0 \/ CeilDiv(clip.duration, clip.interval) >= pool
         THEN [num |-> clip.interval, den |-> 1]
       ELSE IF floor * pool >= clip.duration
         THEN [num |-> floor, den |-> 1]
       ELSE [num |-> clip.duration, den |-> pool]

Spaced(time, interval) == CeilDiv(time * interval.den, interval.num)

ExtractCount(clip) ==
    LET span   == IF clip.duration > Coverage THEN clip.duration ELSE Coverage
        wanted == Max({PoolSize(clip), Spaced(span, Interval(clip))})
    IN IF wanted < MaxExtracted THEN wanted ELSE MaxExtracted

(* ffmpeg's fps filter stops at the end of the clip, which is length long  *)
(* whether its duration is known or not.                                   *)
Emitted(clip) ==
    Min({ExtractCount(clip), Spaced(clip.length, Interval(clip))})

TargetFrameCount(clip) ==
    LET estimate == IF clip.duration > 0 THEN clip.duration ELSE Emitted(clip) * clip.interval
    IN IF estimate <= LongClip THEN clip.maxFrames ELSE 2 * clip.maxFrames

-----------------------------------------------------------------------------
(* Choosing target of the n = Len(diffs) + 1 frames.                       *)
Frames(diffs) == 1..(Len(diffs) + 1)

(* The first of the largest differences; the frame after it.               *)
Peak(diffs) ==
    1 + CHOOSE i \in DOMAIN diffs :
            /\ \A j \in DOMAIN diffs : diffs[j] <= diffs[i]
            /\ \A j \in 1..(i - 1) : diffs[j] < diffs[i]

(* The seeds, in order, as far as the budget goes.                         *)
TakeUpTo(budget, seq) ==
    FoldLeft(LAMBDA s, i : IF Cardinality(s) < budget THEN s \cup {i} ELSE s, {}, seq)

Seeds(diffs) == <<Peak(diffs), 1, Len(diffs) + 1>>

(* (diff, frame) pairs in decreasing order, without the seeds.             *)
Ranked(diffs, seeded) ==
    SortSeq(Ascending(Frames(diffs) \ (seeded \cup {1})), LAMBDA i, j :
        \/ diffs[i - 1] > diffs[j - 1]
        \/ diffs[i - 1] = diffs[j - 1] /\ i > j)

\* Mutant: only the frames that keep their distance.
FillSpread(selected, ranked, target, minGap) ==
    FoldLeft(LAMBDA s, i :
        IF Cardinality(s) < target /\ \A c \in s : Abs(i - c) >= minGap
          THEN s \cup {i} ELSE s, selected, ranked)

FillByMotion(selected, ranked, target, minGap) ==
    LET spread == FoldLeft(LAMBDA s, i :
                      IF Cardinality(s) < target /\ \A c \in s : Abs(i - c) >= minGap
                        THEN s \cup {i} ELSE s, selected, ranked)
    IN FoldLeft(LAMBDA s, i : IF Cardinality(s) < target THEN s \cup {i} ELSE s,
                spread, ranked)

ByMotion(diffs, target) ==
    LET seeded == TakeUpTo(target, Seeds(diffs))
        gap    == (Len(diffs) + 1) \div target
    IN FillByMotion(seeded, Ranked(diffs, seeded), target, IF gap < 1 THEN 1 ELSE gap)

(* The narrowest run of differences with 0.6 of the motion, found by a     *)
(* sliding window.  sums[i] is the motion of the first i differences.      *)
Sums(diffs) ==
    LET f[i \in 0..Len(diffs)] == IF i = 0 THEN 0 ELSE f[i - 1] + diffs[i] IN f

HasShare(sums, a, b) == 10 * (sums[b] - sums[a - 1]) >= 6 * sums[Max(DOMAIN sums)]

Shrunk(sums, start, end) ==   \* the inner loop: drop what is not needed
    CHOOSE s \in start..end :
        /\ \A t \in start..(s - 1) : HasShare(sums, t + 1, end)
        /\ ~HasShare(sums, s + 1, end)

MotionWindow(diffs) ==
    LET sums == Sums(diffs)
        slide(w, end) ==
            LET start == Shrunk(sums, w.start, end)
            IN [start |-> start,
                best  |-> IF HasShare(sums, start, end) /\ end - start < w.best[2] - w.best[1]
                            THEN <<start, end>> ELSE w.best]
        found == FoldLeft(slide, [start |-> 1, best |-> <<1, Len(diffs)>>],
                          [i \in DOMAIN diffs |-> i]).best
    IN IF sums[Len(diffs)] = 0 THEN <<>> ELSE <<found[1], found[2] + 1>>

(* The preference list of the adaptive strategy, then the frames furthest  *)
(* from what was chosen.                                                   *)
Nearest(window, peak) ==
    SortSeq(Ascending(window[1]..window[2]), LAMBDA i, j :
        \/ Abs(i - peak) < Abs(j - peak)
        \/ Abs(i - peak) = Abs(j - peak) /\ i < j)

AddFurthest(diffs, chosen) ==
    LET distance(i) == Min({Abs(i - c) : c \in chosen})
        left == Frames(diffs) \ chosen
        far  == {i \in left : \A j \in left : distance(j) <= distance(i)}
    IN chosen \cup {Min(far)}

Localised(diffs, target) ==
    /\ target > 2
    /\ LET w == MotionWindow(diffs)
       IN w # <<>> /\ 10 * (w[2] - w[1] + 1) <= 3 * (Len(diffs) + 1)

AroundEvent(diffs, target) ==
    IF ~Localised(diffs, target) THEN ByMotion(diffs, target)
    ELSE LET preferred == TakeUpTo(target,
                 Seeds(diffs) \o Nearest(MotionWindow(diffs), Peak(diffs)))
         IN FoldLeft(LAMBDA s, k : AddFurthest(diffs, s), preferred,
                     [k \in 1..(target - Cardinality(preferred)) |-> k])

(* Without PIL: a fixed stride from the first frame, and the last.         *)
EvenlySpaced(diffs, target) ==
    LET n    == Len(diffs) + 1
        step == IF n \div target < 1 THEN 1 ELSE n \div target
    IN IF target <= 1 THEN {1}
       ELSE {1, n} \cup {1 + k * step : k \in {k \in 1..(target - 2) : k * step < n - 1}}

(* round(i * step), ties going to the even neighbour.                      *)
RoundHalfEven(a, b) ==
    LET q == a \div b  r == a % b
    IN IF 2 * r > b \/ (2 * r = b /\ q % 2 = 1) THEN q + 1 ELSE q

Uniform(diffs, target) ==
    IF target <= 1 THEN {1}
    ELSE {1 + RoundHalfEven(i * Len(diffs), target - 1) : i \in 0..(target - 1)}

Selected(s) ==
    IF Len(s.diffs) + 1 <= s.target THEN Frames(s.diffs)
    ELSE CASE s.how = "smart"    -> ByMotion(s.diffs, s.target)
           [] s.how = "adaptive" -> AroundEvent(s.diffs, s.target)
           [] s.how = "uniform"  -> Uniform(s.diffs, s.target)
           [] s.how = "no PIL"   -> EvenlySpaced(s.diffs, s.target)

-----------------------------------------------------------------------------
Clips ==
    {c \in [strategy : {"smart", "uniform"}, maxFrames : {1, 5, 16},
            interval : {2, 5, 7, 20, 100}, duration : {0, 8, 50, 100, 190, 320, 600, 1100},
            length : {8, 50, 100, 190, 320, 600, 1100}] :
        c.duration \in {0, c.length}}

(* Every short clip, and ten frames with one or two spikes.                *)
Short  == UNION {[1..n -> {0, 2, 5}] : n \in 1..5}
Spiked == {[i \in 1..9 |-> IF i \in spikes THEN 7 ELSE IF i \in some THEN 1 ELSE 0] :
              spikes \in {{p, q} : p \in 1..9, q \in {3, 4, 8}}, some \in SUBSET {1, 4, 5, 9}}
Selections == [diffs : Short \cup Spiked, target : 1..6,
               how : {"smart", "adaptive", "uniform", "no PIL"}]

(* "sample finer until it can - never coarser": a clip whose duration is   *)
(* known yields the frames the strategy wants to rank, or every frame the  *)
(* floor allows (_extraction_interval, extract_frames).                    *)
PoolIsFilled(clip) ==
    LET floor == [num |-> Min({MinInterval, clip.interval}), den |-> 1] IN
    clip.duration > 0 =>
        /\ Emitted(clip) >= Min({PoolSize(clip), Spaced(clip.length, floor)})
        /\ Interval(clip).num <= clip.interval * Interval(clip).den

(* The frames reach the end of the clip unless the cap stops them, or a    *)
(* clip of unknown duration is longer than Blink records.                  *)
WholeClipCovered(clip) ==
    \/ Emitted(clip) = MaxExtracted
    \/ clip.duration = 0 /\ clip.length > Coverage
    \/ Emitted(clip) * Interval(clip).num >= clip.length * Interval(clip).den

(* A clip gets the budget of a long one by its length, whether its         *)
(* duration is known or estimated, but for less than an interval.          *)
LengthSetsTheBudget(clip) ==
    (clip.length > LongClip + clip.interval \/ clip.length + clip.interval <= LongClip) =>
        (TargetFrameCount(clip) = 2 * clip.maxFrames <=> clip.length > LongClip)

(* Exactly the budget is spent, and whatever the motion strategies leave   *)
(* out the moment of most motion is not.                                   *)
BudgetSpent(s) ==
    /\ Selected(s) \subseteq Frames(s.diffs)
    /\ Cardinality(Selected(s)) = Min({s.target, Len(s.diffs) + 1})

PeakKept(s) == s.how \in {"smart", "adaptive"} => Peak(s.diffs) \in Selected(s)

(* "The narrowest run of frames holding" 0.6 of the motion.                *)
WindowIsNarrowest(s) ==
    LET d     == s.diffs
        sums  == Sums(d)
        holds == {w \in (DOMAIN d) \X (DOMAIN d) : w[1] <= w[2] /\ HasShare(sums, w[1], w[2])}
        found == MotionWindow(d)
    IN s.how = "adaptive" /\ sums[Len(d)] > 0 =>
        /\ <<found[1], found[2] - 1>> \in holds
        /\ \A w \in holds : found[2] - 1 - found[1] <= w[2] - w[1]

(* "never worse than smart": the adaptive strategy shows at least as many  *)
(* frames of the event it aims at.                                         *)
NeverWorseThanSmart(s) ==
    LET w    == MotionWindow(s.diffs)
        seen == IF w = <<>> THEN {} ELSE w[1]..w[2]
    IN s.how = "adaptive" =>
        Cardinality(Selected(s) \cap seen)
            >= Cardinality(Selected([s EXCEPT !.how = "smart"]) \cap seen)
=============================================================================
