---------------------------- MODULE StageAnswers ----------------------------
(***************************************************************************)
(* What the four optional vision stages make of a model's raw output: the  *)
(* stretch of sound that is classified and whether it is sound at all      *)
(* (vision/audio.py), whether two boxes are equally far away               *)
(* (vision/depth.py), how far apart two outlines are (vision/contact.py)   *)
(* and what a body is doing (vision/pose.py).  Each takes one input.       *)
(***************************************************************************)
EXTENDS Integers, Sequences, FiniteSets, FiniteSetsExt, Folds, Functions

Magnitude(n) == IF n < 0 THEN -n ELSE n

-----------------------------------------------------------------------------
(* Audio: a clip is a sequence of sample powers; a window is eight samples *)
(* (10 s in the code) and a level frame two (0.1 s).                       *)
WindowLength == 8
LevelFrame == 2
SilencePower == 1
Clips == UNION {[1..n -> {0, 2}] : n \in 0..11}

Energy(samples) == FoldFunction(LAMBDA power, sum : power + sum, 0, samples)
Stretch(samples, first, length) == SubSeq(samples, first, first + length - 1)

(* Mean power, as a fraction of the level frame's length.                  *)
LevelOf(samples) ==
    IF samples = <<>> THEN 0 ELSE (LevelFrame * Energy(samples)) \div Len(samples)

\* Mutant: windows at the stride only.
StridedStarts(size) == {n \in 1..size - WindowLength + 1 : n % (WindowLength \div 2) = 1}

(* Half-window strides, and the very last window.                          *)
WindowStarts(size) ==
    {n \in 1..size - WindowLength + 1 : n % (WindowLength \div 2) = 1}
        \cup {size - WindowLength + 1}

LoudestWindow(samples) ==
    IF Len(samples) <= WindowLength THEN samples
    ELSE LET energy(n) == Energy(Stretch(samples, n, WindowLength))
             starts == WindowStarts(Len(samples))
             loudest == {n \in starts : \A m \in starts : energy(m) <= energy(n)}
         IN Stretch(samples, Min(loudest), WindowLength)

(* The loudest aligned frame, or the trailing one.                         *)
PeakLevel(samples) ==
    IF Len(samples) < LevelFrame THEN LevelOf(samples)
    ELSE LET whole == {n \in 1..Len(samples) - LevelFrame + 1 : n % LevelFrame = 1}
         IN Max({LevelOf(Stretch(samples, n, LevelFrame)) :
                    n \in whole \cup {Len(samples) - LevelFrame + 1}})

Silent(samples) == PeakLevel(LoudestWindow(samples)) < SilencePower * LevelFrame

-----------------------------------------------------------------------------
(* Depth: a strip of depth values, brighter being nearer, and two stretches*)
(* of it as boxes, which may reach out of the picture.                     *)
Width == 3
Boxes == {<<a, b>> \in (-1..Width) \X (0..Width + 1) : a < b}
DepthViews == [depth : [0..Width - 1 -> {0, 2, 10, 13}], subject : Boxes, vehicle : Boxes]

Region(box) == {x \in 0..Width - 1 : box[1] <= x /\ x < box[2]}
RegionSum(depth, box) == FoldFunctionOnSet(+, 0, depth, Region(box))
DepthSpan(depth) == Max(Range(depth)) - Min(Range(depth))

DepthRange(depth) == DepthSpan(depth)

(* The difference of the two means as a percentage of the picture's range: *)
(* under 15 they are together, from 30 apart, and between nothing is said. *)
CompareDepth(view) ==
    LET n == Cardinality(Region(view.subject))
        k == Cardinality(Region(view.vehicle))
        difference == Magnitude(RegionSum(view.depth, view.subject) * k
                                  - RegionSum(view.depth, view.vehicle) * n)
        range == DepthRange(view.depth) * n * k
    IN CASE n = 0 \/ k = 0 -> "unknown"
         [] difference = 0 \/ 100 * difference < 15 * range -> "together"
         [] 100 * difference >= 30 * range -> "apart"
         [] OTHER -> "unclear"

-----------------------------------------------------------------------------
(* Contact: the person's outline grows three pixels a step, at most ten    *)
(* times, until it meets the vehicle's.                                    *)
Masks == {{p, <<p[1] + 2, p[2]>>} : p \in {0, 3, 7, 29, 31, 34, 40} \X {0, 2, 5}}
Outlines == [person : {m \in Masks : <<0, 0>> \in m}, vehicle : Masks]

Apart(p, v) == Max({Magnitude(p[1] - v[1]), Magnitude(p[2] - v[2])})
Dilated(person, step, v) == \E p \in person : Apart(p, v) <= 3 * step

GapAfter(step) == 3 * (step - 1)

CheckContact(o) ==
    LET met == {step \in 1..10 : \E v \in o.vehicle : Dilated(o.person, step, v)}
    IN IF met = {} THEN [touching |-> FALSE, gap |-> GapAfter(11)]
       ELSE [touching |-> Min(met) = 1, gap |-> GapAfter(Min(met))]

-----------------------------------------------------------------------------
(* Pose: joints the model did not place confidently are Unseen.  The       *)
(* subject's box is Tall high; the asset is the middle of its box.         *)
Unseen == <<>>
Tall == 12
LeftShoulders == {<<-2, 4>>, Unseen}
RightShoulders == {<<2, 4>>, <<-2, 4>>, <<1, 3>>, Unseen}
Wrists == {<<-6, 3>>, <<1, 2>>, <<4, 8>>, <<5, 4>>, Unseen}
Hips == {<<0, 7>>, <<0, 9>>, Unseen}
Ankles == {<<0, 11>>, Unseen}
Bodies == [ls : LeftShoulders, rs : RightShoulders, lw : Wrists, rw : Wrists,
           lh : Hips, rh : {<<0, 8>>, Unseen}, la : Ankles, ra : Ankles \cup {<<0, 12>>},
           asset : {-9, 9}, height : {Tall}]

Seen(joints) == joints \ {Unseen}
Heights(joints) == {j[2] : j \in joints}

DirectionOf(body) == IF 2 * body.asset > body.ls[1] + body.rs[1] THEN 1 ELSE -1

Reaching(body) ==
    LET width == Magnitude(body.ls[1] - body.rs[1])
        torso2 == body.ls[1] + body.rs[1]
    IN /\ Unseen \notin {body.ls, body.rs} /\ width > 0
       /\ \E w \in Seen({body.lw, body.rw}) :
             10 * (2 * w[1] - torso2) * DirectionOf(body) > 12 * width

(* In hundredths: six percent of the body's height.                        *)
ArmRise(body) == 6 * body.height

Posture(body) ==
    LET shoulders == Seen({body.ls, body.rs})
        wrists == Seen({body.lw, body.rw})
        hips == Seen({body.lh, body.rh})
        ankles == Seen({body.la, body.ra})
    IN [reaching |-> Reaching(body),
        raised |-> shoulders # {} /\ \E w \in wrists :
                     100 * (Min(Heights(shoulders)) - w[2]) > ArmRise(body),
        crouching |-> hips # {} /\ ankles # {} /\
                        100 * (Min(Heights(ankles)) - Max(Heights(hips))) < 33 * body.height]

-----------------------------------------------------------------------------
(* No sound of half a window or less outweighs everything that is          *)
(* classified: where the loudest moment is, the model listens to it.       *)
NothingLouderMissed(clip) ==
    \A length \in 1..WindowLength \div 2, first \in 1..Len(clip) :
        first + length - 1 <= Len(clip) =>
            Energy(Stretch(clip, first, length)) <= Energy(LoudestWindow(clip))

(* A sound as short as a level frame, and twice as strong as silence, is   *)
(* never thrown away as silence, wherever in the window it falls.          *)
BriefSoundIsHeard(clip) ==
    LET window == LoudestWindow(clip)
    IN (\E n \in 1..Len(window) - LevelFrame + 1 :
            Energy(Stretch(window, n, LevelFrame)) >= 2 * SilencePower * LevelFrame)
        => ~Silent(clip)

(* Depth has no unit: neither its zero nor its scale changes the answer.   *)
DepthHasNoUnit(view) ==
    \A zero \in {1, 50}, scale \in {1, 3} :
        CompareDepth([view EXCEPT !.depth = [x \in DOMAIN view.depth |->
                                                scale * view.depth[x] + zero]])
            = CompareDepth(view)

(* The reported gap is never more than the real one, and at most three     *)
(* pixels less while it is one the search reaches; touching outlines are   *)
(* those within one step.                                                  *)
GapNeverOverstated(o) ==
    LET real == Min({Apart(p, v) : p \in o.person, v \in o.vehicle})
        told == CheckContact(o)
    IN /\ told.gap <= real /\ (real <= 30 => real - told.gap <= 3)
       /\ told.touching <=> real <= 3

Mirrored(body) ==
    LET turned(j) == IF j = Unseen THEN Unseen ELSE <<-j[1], j[2]>>
    IN [body EXCEPT !.ls = turned(body.rs), !.rs = turned(body.ls), !.lw = turned(body.rw),
                    !.rw = turned(body.lw), !.lh = turned(body.rh), !.rh = turned(body.lh),
                    !.la = turned(body.ra), !.ra = turned(body.la), !.asset = -body.asset]
Closer(body) ==
    LET grown(j) == IF j = Unseen THEN Unseen ELSE <<4 * j[1], 4 * j[2]>>
    IN [body EXCEPT !.ls = grown(body.ls), !.rs = grown(body.rs), !.lw = grown(body.lw),
                    !.rw = grown(body.rw), !.lh = grown(body.lh), !.rh = grown(body.rh),
                    !.la = grown(body.la), !.ra = grown(body.ra), !.asset = 4 * body.asset,
                    !.height = 4 * body.height]

(* A mirrored body does the same, unless the asset is straight ahead.      *)
MirroredTheSame(body) == Posture(Mirrored(body)) = Posture(body)

(* The same posture reads identically whether it fills the frame or a      *)
(* part of it (pose.py:260).                                               *)
PostureHasNoSize(body) == Posture(Closer(body)) = Posture(body)
=============================================================================
