--------------------------- MODULE VisionPipeline ---------------------------
(***************************************************************************)
(* One clip through the vision stages (vision/pipeline.py): which frames   *)
(* are scanned, which subject and asset the costly stages examine, what    *)
(* every stage is recorded as having done, and what the prompt is told     *)
(* (vision/detection.py).                                                  *)
(*                                                                         *)
(* A detection is a label, a box, a frame and a track id (0 for none).  A  *)
(* stage answers "yes", "no", "unsure", or "failed" when it could not run. *)
(***************************************************************************)
EXTENDS SecurityDetector

AtAssetFeet    == 3
NearMarkedFeet == 8

(* _select_scan_frames takes every step-th frame, and says the interval is *)
(* step times that of the frames.                                          *)
ScanStep(frames, cap) ==
    IF cap <= 0 \/ frames <= cap THEN 1 ELSE (frames + cap - 1) \div cap
Scanned(frames, cap) == {i \in 0..(frames - 1) : i % ScanStep(frames, cap) = 0}

-----------------------------------------------------------------------------
(* How far in front of an asset's base the feet are, four times the square.*)
InFrontGap(subject, asset) ==
    LET f  == Foot(subject)
        dx == Max({asset[1] - f[1], f[1] - asset[3], 0})
        dy == Max({0, f[2] - asset[4]})
    IN 4 * dx * dx + 25 * dy * dy

FeetFrom(d, a) == InFrontGap(d.box, StandingBox(a))
WithinReach(d, a, feet) == WithinFeet(a, FeetFrom(d, a), feet)

IsAt(d, a) ==
    \/ WithinReach(d, a, AtAssetFeet)
    \/ \E z \in a.zone : a.marked /\ 4 * Intersection(d.box, z) >= Area(d.box)

(* The earliest of a sequence's elements that no other beats.              *)
LOCAL Best(seq, beats(_, _)) ==
    seq[Min({i \in DOMAIN seq : \A j \in DOMAIN seq : ~beats(seq[j], seq[i])})]

SightingsOf(chosen, subjects) ==
    IF chosen.id = 0 THEN <<chosen>>
    ELSE SelectSeq(subjects, LAMBDA d : d.id = chosen.id)

(* The sighting at which the chosen one's outline came closest.            *)
Examine(a, chosen, subjects, key) ==
    LET nearer(d, e) == BoxGap(d.box, a.box) < BoxGap(e.box, a.box)
        nearest == Best(SightingsOf(chosen, subjects), nearer)
    IN {[subject |-> nearest, box |-> a.box, asset |-> key]}

(* A person at the car, then the least gap in front of it, then outlines.  *)
VehiclePair(car, subjects) ==
    LET atCar(d) == d.label = "person" /\ WithinFeet(car, InFrontGap(d.box, car.box), AtAssetFeet)
        gap(d) == InFrontGap(d.box, car.box)
        beats(d, e) ==
            \/ atCar(d) /\ ~atCar(e)
            \/ atCar(d) = atCar(e) /\ gap(d) < gap(e)
            \/ /\ atCar(d) = atCar(e) /\ gap(d) = gap(e)
               /\ BoxGap(d.box, car.box) < BoxGap(e.box, car.box)
    IN Examine(car, Best(subjects, beats), subjects, "vehicle")

LOCAL Pairs(marked, candidates) ==
    FoldLeftDomain(LAMBDA acc, i : acc \o
        [j \in DOMAIN candidates |-> [asset |-> marked[i], subject |-> candidates[j]]], <<>>, marked)

(* Nearer in feet: each asset's own width is its yardstick.                *)
LOCAL Nearer(p, r) ==
    LET wide(x) == x.asset.box[3] - x.asset.box[1]
        feet(x, y) == FeetFrom(x.subject, x.asset) * WidthFeet[x.asset.type]
                        * WidthFeet[x.asset.type] * wide(y) * wide(y)
    IN feet(p, r) < feet(r, p)

(* The least routinely handled of the assets someone is at, then the       *)
(* nearest; with nobody at any, the nearest within reach.                  *)
MarkedPairAt(marked, candidates) ==
    LET at == SelectSeq(Pairs(marked, candidates), LAMBDA p : IsAt(p.subject, p.asset))
        routine(p) == p.asset.type \in HandledRoutinely
        beats(p, r) == \/ ~routine(p) /\ routine(r)
                       \/ routine(p) = routine(r) /\ Nearer(p, r)
    IN IF at = <<>> THEN {} ELSE {Best(at, beats)}

MarkedPairNear(marked, subjects) ==
    LET near == SelectSeq(Pairs(marked, subjects),
                          LAMBDA p : WithinReach(p.subject, p.asset, NearMarkedFeet))
    IN IF near = <<>> THEN {} ELSE {Best(near, Nearer)}

(* Without any asset, the closest subject and car of one frame.            *)
LegacyPair(detections) ==
    LET both == {p \in ToSet(detections) \X ToSet(detections) :
                    p[1].label \in Subjects /\ p[2].label = "car" /\ p[1].frame = p[2].frame}
        closest == {p \in both : \A r \in both : BoxGap(p[1].box, p[2].box) <= BoxGap(r[1].box, r[2].box)}
    IN IF both = {} THEN {}
       ELSE {[subject |-> p[1], box |-> p[2].box, asset |-> "vehicle"] : p \in {CHOOSE p \in closest : TRUE}}

LOCAL SubjectsOf(c) == SelectSeq(c.detections, LAMBDA d : d.label \in Subjects)
LOCAL PeopleOf(c) == SelectSeq(c.detections, LAMBDA d : d.label = "person")

(* The pair for somebody at the car, or else at a marked asset.            *)
PairAt(c, some) ==
    LET examined(p) == Examine(p.asset, p.subject, SubjectsOf(c), p.asset.name) IN
    IF \E v \in c.vehicle : \E d \in ToSet(some) : IsAt(d, v)
      THEN VehiclePair(CHOOSE v \in c.vehicle : TRUE, SubjectsOf(c))
      ELSE UNION {examined(p) : p \in MarkedPairAt(c.marked, some)}

(* Whoever came closest when nobody is at anything.                        *)
PairNear(c) ==
    IF c.vehicle # {} THEN VehiclePair(CHOOSE v \in c.vehicle : TRUE, SubjectsOf(c))
    ELSE UNION {Examine(p.asset, p.subject, SubjectsOf(c), p.asset.name) :
                    p \in MarkedPairNear(c.marked, SubjectsOf(c))}

LOCAL OrElse(first, second) == IF first # {} THEN first ELSE second

(* At most one pair is examined: people first, then any subject.           *)
SelectPair(c) ==
    IF c.vehicle = {} /\ c.marked = <<>> THEN LegacyPair(c.detections)
    ELSE IF SubjectsOf(c) = <<>> THEN {}
    ELSE OrElse(PairAt(c, PeopleOf(c)), OrElse(PairAt(c, SubjectsOf(c)), PairNear(c)))

-----------------------------------------------------------------------------
(* What is recorded: the sources that did not run although they should     *)
(* have, those with nothing to do, and those that answered.                *)
Detector   == "object detection"
PairStages == {"depth estimation", "contact segmentation", "pose estimation"}
FaceSource == "face recognition"

(* The two stages with a model of their own do not run remotely.           *)
LostStages(c) ==
    {s \in PairStages :
        \/ c.answer[s] = "failed"
        \/ IF s = "pose estimation" THEN ~c.pose ELSE c.remote}

Ran(c) == c.enabled /\ c.detector # "failed"
RunDetectionStages(c, pair) ==
    CASE ~Ran(c)             -> [unavailable |-> {Detector} \cup PairStages, idle |-> {}]
      [] Ran(c) /\ pair = {} -> [unavailable |-> {}, idle |-> PairStages]
      [] Ran(c) /\ pair # {} -> [unavailable |-> LostStages(c), idle |-> {}]

RunFaceStage(c) == IF c.faces THEN {} ELSE {FaceSource}

(* Lingering or passing through, by the share of the scanned frames the    *)
(* most seen person is in; nothing in between.                             *)
TrackingHint(c) ==
    LET ids == {d.id : d \in {d \in ToSet(PeopleOf(c)) : d.id # 0}}
        seen(id) == Cardinality({d.frame : d \in {d \in ToSet(PeopleOf(c)) : d.id = id}})
        most == Max({seen(id) : id \in ids})
    IN IF c.scanned < 3 \/ ids = {} THEN {}
       ELSE IF 10 * most >= 6 * c.scanned THEN {"lingering"}
       ELSE IF 10 * most <= 3 * c.scanned THEN {"passing through"} ELSE {}

NoSubjectSentence(c) ==
    IF SubjectsOf(c) = <<>> THEN {"nobody was detected"} ELSE {}

Recording(c, pair, stages) ==
    [unavailable |-> stages.unavailable \cup RunFaceStage(c), idle |-> stages.idle, pair |-> pair,
     says |-> IF Ran(c) THEN NoSubjectSentence(c) \cup TrackingHint(c) ELSE {}]

Processed(c, pair) == Recording(c, pair, RunDetectionStages(c, pair))
ProcessClip(c) == Processed(c, IF Ran(c) THEN SelectPair(c) ELSE {})

-----------------------------------------------------------------------------
(* Inputs: up to three detections around a car, a door in its own zone and *)
(* a window, and every answer of the stages.                               *)
LOCAL Spots == {<<2, 8, 6, 16>>, <<10, 9, 14, 17>>, <<16, 14, 20, 22>>, <<26, 8, 30, 16>>}
LOCAL Spotted(label, id) ==
    {[label |-> label, box |-> b, frame |-> f, id |-> id] : b \in Spots, f \in {0, 4}}
LOCAL Someone == Spotted("person", 1) \cup Spotted("person", 0) \cup Spotted("dog", 2)
LOCAL OtherCar == [label |-> "car", box |-> <<22, 10, 32, 18>>, frame |-> 4, id |-> 9]
LOCAL A(name, type, box, marked, zone) ==
    [name |-> name, type |-> type, box |-> box, marked |-> marked, zone |-> zone,
     location |-> "detected"]
LOCAL TheCar   == A("car", "vehicle", <<12, 8, 22, 18>>, FALSE, {})
LOCAL TheDoor  == A("door", "door", <<3, 6, 6, 16>>, TRUE, {<<3, 6, 6, 16>>})
LOCAL TheWindow == A("window", "window", <<27, 4, 31, 10>>, TRUE, {<<27, 4, 31, 10>>})
LookOver(detections, vehicle, marked) ==
    [detections |-> detections, vehicle |-> vehicle, marked |-> marked, enabled |-> TRUE,
     detector |-> "ran", remote |-> FALSE, pose |-> TRUE, faces |-> TRUE, scanned |-> 6,
     answer |-> [s \in PairStages |-> "yes"]]
LookedAt ==
    {LookOver(ds, v, m) : ds \in {<<>>, <<OtherCar>>} \cup {<<a, b>> : a, b \in Someone}
                        \cup {<<a, OtherCar, b>> : a, b \in Spotted("person", 1) \cup Spotted("dog", 2)},
                      v \in {{}, {TheCar}}, m \in {<<>>, <<TheDoor>>, <<TheWindow, TheDoor>>}}
Recorded ==
    {[LookOver(ds, {TheCar}, <<>>) EXCEPT !.enabled = e, !.detector = d, !.remote = r, !.pose = p,
                                      !.faces = f, !.answer = ans] :
        ds \in {<<>>, <<OtherCar>>, <<CHOOSE x \in Someone : TRUE>>},
        e, r, p, f \in BOOLEAN, d \in {"ran", "failed"},
        ans \in [PairStages -> {"yes", "unsure", "failed"}]}
Scans == [frames : 1..45, cap : 0..14]

(* A dog at the car never keeps the stages from looking at a person who is *)
(* at something protected: the pair is of that person's track, and of an   *)
(* asset that somebody is at.                                              *)
PeopleComeFirst(c) ==
    LET assets == c.vehicle \cup ToSet(c.marked)
        at(d) == {a \in assets : IsAt(d, a)}
    IN \A p \in SelectPair(c) :
          (\E d \in ToSet(c.detections) : d.label = "person" /\ at(d) # {}) =>
              \E d \in ToSet(c.detections) :
                 /\ d.label = "person" /\ (d = p.subject \/ (d.id # 0 /\ d.id = p.subject.id))
                 /\ \E a \in at(d) : a.box = p.box

(* What the prompt is told fits together: with nobody detected no pair is  *)
(* examined and nobody lingers.                                            *)
HintsAgree(c) ==
    \A told \in {ProcessClip(c)} :
        "nobody was detected" \in told.says => told.pair = {} /\ told.says = {"nobody was detected"}

(* Every stage that gave no answer is reported either as unavailable or as *)
(* having had nothing to do, never as both: the two count differently in   *)
(* the evidence's quality.                                                 *)
SilenceIsExplained(c) ==
    \A told \in {ProcessClip(c)} :
    LET answered == IF told.pair = {} \/ c.detections = <<>> THEN {}
                    ELSE {s \in PairStages : c.answer[s] # "failed" /\
                             (IF s = "pose estimation" THEN c.pose ELSE ~c.remote)}
    IN /\ told.unavailable \cap told.idle = {}
       /\ PairStages \ answered = (told.unavailable \cup told.idle) \cap PairStages
       /\ told.idle # {} => Detector \notin told.unavailable

(* The scan never exceeds its cap and leaves no gap at the end longer than *)
(* one between its frames.                                                 *)
ScanFits(s) ==
    /\ s.cap > 0 => Cardinality(Scanned(s.frames, s.cap)) <= s.cap
    /\ s.frames - 1 - Max(Scanned(s.frames, s.cap)) < ScanStep(s.frames, s.cap)
=============================================================================
