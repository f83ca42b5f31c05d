-------------------------- MODULE SecurityDetector --------------------------
(***************************************************************************)
(* The events of a clip (security/detector.py) around the assets its camera*)
(* protects (security/assets.py), and the whole assessment of a clip       *)
(* (security/pipeline.py): tracks, events, evidence, score.                *)
(*                                                                         *)
(* The three-valued answers of the vision stages are "yes", "no" and       *)
(* "unknown".                                                              *)
(***************************************************************************)
EXTENDS Tracks, RiskScoring

Animals  == {"dog", "cat", "bird", "horse"}
Subjects == {"person"} \cup Animals

WidthFeet == [vehicle |-> 6, door |-> 3, window |-> 3, equipment |-> 3]

HandledRoutinely == {"door", "gate", "garage", "package_area", "mailbox"}
Fixtures == {"door", "window", "garage", "gate", "mailbox"}

Present(a)        == a.location \in {"detected", "zone"}
LocatedExactly(a) == a.location = "detected" \/ (a.marked /\ a.type \in Fixtures)
StandingBox(a)    ==
    IF a.type # "window" THEN a.box
    ELSE <<a.box[1], a.box[4], a.box[3], 2 * a.box[4] - a.box[2]>>

(* A gap of at most f feet.  The gap is a square of half pixels.           *)
WithinFeet(a, gap, f) ==
    LET w == a.box[3] - a.box[1]
    IN gap * WidthFeet[a.type] * WidthFeet[a.type] <= 4 * f * f * w * w

LoiterSeconds     == 12
OpenLoiterSeconds == 15
BareOverlap       == 45
ConfirmedContact  == 60

-----------------------------------------------------------------------------
(* Events.  A clip c has tracks, an interval, a frame count, the assets,   *)
(* and the answers of the vision stages about the one pair they examined.  *)
About(t, a, type, severity, confidence, start) ==
    [type |-> type, severity |-> severity, confidence |-> confidence, confirmed |-> FALSE,
     label |-> t.label, track |-> t.id, asset |-> a.name, start |-> start]

Nowhere == [name |-> ""]
Sure(t, if, else) == IF t.tracked THEN if ELSE else

SubjectTracks(c) == SelectSeq(c.tracks, LAMBDA t : t.label \in Subjects)

Presence(c, t) ==
    About(t, Nowhere, "subject_present", Routine, t.confidence, Offset(t, 1, c.interval))

OpenLoiter(c, t) ==
    IF Dwell(t, c.interval) >= OpenLoiterSeconds /\ Stationary(t)
      THEN {About(t, Nowhere, "loitering", Noteworthy, 55, Offset(t, 1, c.interval))} ELSE {}

Several(c) ==
    LET people  == {t \in ToSet(c.tracks) : t.label = "person" /\ t.tracked}
        sure(t) == t.confidence
    IN IF Cardinality(people) < 2 THEN {}
       ELSE {About(CHOOSE t \in people : TRUE, Nowhere, "multiple_subjects", Noteworthy,
                   Min({90, Mean(people, sure)}), 0)}

(* near: within three feet, or hidden behind the asset and found by depth  *)
(* to be at its distance.                                                  *)
FeetHidden(t, profile, a) == Foot(t.points[profile.closest].box)[2] <= a.box[4]

Nearness(t, profile, standing, a, depth) ==
    LET behind == /\ depth = "yes"
                  /\ profile.boxGap <= 0
                  /\ ~WithinFeet(a, standing.minGap, 3)
                  /\ FeetHidden(t, profile, a)
        by(f) == depth # "no" /\ (WithinFeet(a, standing.minGap, f) \/ behind)
    IN [near |-> by(3), close |-> by(1), approachable |-> by(8)]

ZoneEvent(c, t, a, depth) ==
    {About(t, a, "zone_entered", Noteworthy, Sure(t, 80, 50), Offset(t, 1, c.interval)) :
        z \in {z \in a.zone : /\ EverInZone(t, z)
                              /\ ~(depth = "no" /\ (a.location = "detected" \/ a.marked))}}

LoiterEvent(c, t, a, near) ==
    LET inZone == \E z \in a.zone : EverInZone(t, z)
        dwell  == IF inZone THEN ZoneDwell(t, CHOOSE z \in a.zone : TRUE, c.interval)
                  ELSE Dwell(t, c.interval)
    IN IF dwell >= LoiterSeconds /\ (near \/ inZone)
         THEN {About(t, a, "loitering", Suspicious, Sure(t, 70, 45), Offset(t, 1, c.interval))}
         ELSE {}

ProximityEvent(c, t, a, standing, close, depth) ==
    About(t, a, "asset_proximity",
          IF close /\ a.type \notin HandledRoutinely THEN Suspicious ELSE Noteworthy,
          Min({95, (IF LocatedExactly(a) THEN 75 ELSE 50) + (IF depth = "yes" THEN 15 ELSE 0)}),
          Offset(t, standing.minAt, c.interval))

(* The confidence of a contact, 0 for none.                                *)
OverlapIsDeep(t, profile) ==
    -100 * profile.boxGap >= 15 * Height(t.points[profile.closest].box)

\* Mutant: the outlines decide before the distance does.
OutlinesFirst(c, t, profile, a, examined, near) ==
    CASE examined /\ c.touching = "yes"                        -> 80
      [] examined /\ c.touching # "yes" /\ c.depth = "no"      -> 0
      [] ~(examined /\ (c.touching = "yes" \/ c.depth = "no")) ->
            IF \/ profile.boxGap > 0 \/ ~OverlapIsDeep(t, profile)
               \/ ~near /\ ~FeetHidden(t, profile, a)
               \/ examined /\ c.touching = "no"
              THEN 0
            ELSE IF examined /\ c.depth = "yes" THEN 70 ELSE BareOverlap

ContactBasis(c, t, profile, a, examined, near) ==
    CASE examined /\ c.depth = "no"                            -> 0
      [] examined /\ c.depth # "no" /\ c.touching = "yes"      -> 80
      [] ~(examined /\ (c.touching = "yes" \/ c.depth = "no")) ->
            IF \/ profile.boxGap > 0 \/ ~OverlapIsDeep(t, profile)
               \/ ~near /\ ~FeetHidden(t, profile, a)
               \/ examined /\ c.touching = "no"
              THEN 0
            ELSE IF examined /\ c.depth = "yes" THEN 70 ELSE BareOverlap

(* A person's contact a stage confirmed, with an arm raised, a sudden start*)
(* or the car's image altered.                                             *)

IsImpact(c, t, a, examined, basis) ==
    /\ examined /\ a.type = "vehicle" /\ t.label = "person"
    /\ basis >= ConfirmedContact
    /\ SharpAt(t, a.box, c.interval) \/ c.altered \/ c.raised

ContactEvent(c, t, profile, a, basis) ==
    LET animal == t.label \in Animals
        proven == basis >= ConfirmedContact
    IN [About(t, a, IF animal THEN "animal_asset_interaction" ELSE "contact_candidate",
              IF ~animal /\ proven THEN Suspicious ELSE Noteworthy, basis,
              Offset(t, profile.closest, c.interval)) EXCEPT !.confirmed = proven]

ImpactEvent(c, t, profile, a, basis) ==
    About(t, a, "impact_candidate", Critical, Min({85, basis + 10}),
          Offset(t, profile.minAt, c.interval))

(* Moving away after the contact is as serious as the contact, no more.    *)
RetreatAfterContact(c, t, standing, a, contact) ==
    [About(t, a, "retreat_after_contact", Min({Suspicious, contact.severity}),
           Min({60, contact.confidence}), Offset(t, standing.minAt, c.interval))
        EXCEPT !.confirmed = contact.confirmed]

RetreatEvent(c, t, standing, a) ==
    About(t, a, "retreat", Noteworthy, 60, Offset(t, standing.minAt, c.interval))

TouchGiven(c, t, profile, standing, a, examined, basis, contact) ==
    {contact}
    \cup (IF IsImpact(c, t, a, examined, basis)
            THEN {ImpactEvent(c, t, profile, a, basis)} ELSE {})
    \cup (IF standing.retreated
            THEN {RetreatAfterContact(c, t, standing, a, contact)} ELSE {})

TouchEvents(c, t, profile, standing, a, examined, near) ==
    LET basis == ContactBasis(c, t, profile, a, examined, near)
    IN IF basis # 0
         THEN TouchGiven(c, t, profile, standing, a, examined, basis,
                         ContactEvent(c, t, profile, a, basis))
       ELSE IF near /\ standing.retreated THEN {RetreatEvent(c, t, standing, a)} ELSE {}

(* One person's single, brief trip through a marked door.                  *)
Unseen(c, t) ==
    LET after == c.frames - 1 - LastPoint(t).frame
    IN after >= 2 /\ after * c.interval >= 3 /\ ~TouchesFrameEdge(LastPoint(t).box)

IsDoorUse(c, t, profile, a, depth, zone) ==
    /\ depth # "no" /\ t.label = "person" /\ t.tracked /\ Sightings(t) >= 3
    /\ Entries(t, zone) = 1
    /\ ZoneDwell(t, zone, c.interval) + 2 * c.interval <= LoiterSeconds
    /\ LET inside == Membership(t, zone) IN
       IF inside[Len(inside)] THEN Unseen(c, t)
       ELSE inside[1] /\ profile.retreated /\ ~TouchesFrameEdge(t.points[1].box)

DoorUseEvents(c, t, profile, a, depth) ==
    {About(t, a, "door_used", Routine, t.confidence,
           FrameOf(t, Min(Inside(t, z))) * c.interval) :
        z \in {z \in a.zone : /\ c.detectDoorUse /\ a.type = "door"
                              /\ IsDoorUse(c, t, profile, a, depth, z)}}

ApproachEvent(c, t, a) ==
    About(t, a, "asset_approached", Noteworthy, Sure(t, 70, 45), Offset(t, 1, c.interval))

ReachEvent(c, t, standing, a) ==
    About(t, a, "asset_reach", Suspicious, 65, Offset(t, standing.minAt, c.interval))

(* What one subject did at one asset, given how close it came.             *)
EventsGiven(c, t, a, examined, depth, profile, standing, at) ==
    LET always   == ZoneEvent(c, t, a, depth) \cup LoiterEvent(c, t, a, at.near /\ Present(a))
        nearby   == IF at.near THEN {ProximityEvent(c, t, a, standing, at.close, depth)} ELSE {}
        approach == IF standing.approached /\ depth # "no" /\ at.approachable
                      THEN {ApproachEvent(c, t, a)} ELSE {}
        handled  == IF at.near /\ profile.retreated THEN {RetreatEvent(c, t, standing, a)} ELSE {}
        reach    == IF at.near /\ examined /\ c.reaching
                      THEN {ReachEvent(c, t, standing, a)} ELSE {}
    IN always \cup
       (IF ~Present(a) THEN {}
        ELSE nearby \cup approach \cup
             (IF a.type \in HandledRoutinely
                THEN handled \cup DoorUseEvents(c, t, profile, a, depth)
              ELSE reach \cup TouchEvents(c, t, profile, standing, a, examined, at.near)))

EventsClose(c, t, a, examined, depth, profile, standing) ==
    EventsGiven(c, t, a, examined, depth, profile, standing,
                Nearness(t, profile, standing, a, depth))

AssetTrackEvents(c, t, a, examined) ==
    EventsClose(c, t, a, examined, IF examined THEN c.depth ELSE "unknown",
                ApproachTo(t, a.box), ApproachTo(t, StandingBox(a)))

(* The stages examined one asset and one subject: the one they named, or   *)
(* the subject that came closest.                                          *)
Examined(c, subjects, i, a) ==
    /\ a.name = c.examinedAsset
    /\ IF c.examinedTrack # 0 THEN subjects[i].id = c.examinedTrack
       ELSE LET gap(k) == ApproachTo(subjects[k], a.box).boxGap
            IN /\ \A k \in DOMAIN subjects : gap(i) <= gap(k)
               /\ \A k \in 1..(i - 1) : gap(i) < gap(k)

VisitEvents == {"zone_entered", "asset_proximity", "asset_reach", "contact_candidate",
                "animal_asset_interaction"}

Disturbed(c, a, events) ==
    LET visits == {e \in events : e.type \in VisitEvents}
        first  == CHOOSE e \in visits : \A f \in visits :
                     \/ e.severity > f.severity
                     \/ e.severity = f.severity /\ e.start <= f.start
    IN IF ~a.marked \/ ~a.changed \/ visits = {} THEN {}
       ELSE {[first EXCEPT !.type = "asset_disturbed", !.severity = Noteworthy,
                           !.confidence = 50, !.confirmed = FALSE]}

(* An asset that was only tentatively identified takes 40% off.            *)
Tentatively(a, events) ==
    IF a.confident THEN events
    ELSE {[e EXCEPT !.confidence = (60 * @) \div 100] : e \in events}

WithDisturbance(c, a, seen) == seen \cup Disturbed(c, a, seen)

EventsForAsset(c, a, subjects) ==
    Tentatively(a, WithDisturbance(c, a,
        UNION {AssetTrackEvents(c, subjects[i], a, Examined(c, subjects, i, a)) :
                  i \in DOMAIN subjects}))

(* Bags that were there and are gone, and the other way round.             *)
CarryableEvent(t, removed, start) ==
    IF removed THEN About(t, Nowhere, "object_removed", Suspicious, 45, start)
               ELSE About(t, Nowhere, "object_added", Routine, 45, start)

Carryable(c) ==
    LET end  == (c.frames - 1) * c.interval
        bags == {t \in ToSet(c.tracks) : t.label = "backpack"}
        from(t) == Offset(t, 1, c.interval)
        to(t)   == LastPoint(t).frame * c.interval
    IN IF c.frames < 3 \/ \A t \in ToSet(c.tracks) : t.label # "person" THEN {}
       ELSE {CarryableEvent(t, TRUE, from(t)) : t \in {t \in bags : from(t) = 0 /\ 2 * to(t) < end}}
            \cup {CarryableEvent(t, FALSE, from(t)) :
                t \in {t \in bags : 2 * from(t) > end /\ to(t) >= end}}

(* Nothing tracked and a view far from the usual one.                      *)
SceneEvents(c) ==
    IF c.sceneChanged /\ c.tracks = <<>>
      THEN {[type |-> "camera_obstruction", severity |-> Suspicious, confidence |-> 35,
             confirmed |-> FALSE, label |-> "", track |-> 0, asset |-> "", start |-> 0]}
      ELSE {}

Everything(c, subjects, atAssets) ==
    LET loitering(t) == \E e \in atAssets :
            e.type = "loitering" /\ e.track = t.id /\ e.label = t.label
    IN {Presence(c, t) : t \in subjects}
       \cup UNION {OpenLoiter(c, t) : t \in {t \in subjects : ~loitering(t)}}
       \cup Several(c) \cup atAssets \cup Carryable(c) \cup SceneEvents(c)

Detect(c) ==
    Everything(c, ToSet(SubjectTracks(c)),
               UNION {EventsForAsset(c, c.assets[k], SubjectTracks(c)) : k \in DOMAIN c.assets})

-----------------------------------------------------------------------------
(* assess_clip: the score of what was seen and heard, on good evidence.    *)
Context(c) == [night |-> c.night, known |-> FALSE, otherVehicle |-> FALSE]
Assessed(c) == Detect(c) \cup DetectAudioEvents(c.sounds)
ClipScore(c) == Score(Assessed(c), 100, Context(c))

-----------------------------------------------------------------------------
(* One subject seen three times: at the picture's edge, beside the car,    *)
(* against it, walking by in front of it, behind it with the feet hidden.  *)
Places == {<<0, 8, 4, 16>>, <<9, 9, 13, 17>>, <<14, 9, 18, 17>>, <<16, 14, 20, 23>>,
           <<18, 2, 22, 10>>}
Walks == {w \in [1..3 -> Places] : w[3] \in {w[1], w[2]}}

Walker(label, tracked, walk) ==
    [id |-> 1, label |-> label, tracked |-> tracked, confidence |-> 80,
     points |-> [i \in 1..3 |-> [frame |-> i - 1, box |-> walk[i]]]]

Bodies == {<<"person", TRUE>>, <<"person", FALSE>>, <<"dog", TRUE>>}

CarBox == <<12, 8, 28, 16>>
Around == <<10, 6, 30, 18>>
Asset(type, location, confident, marked, box, zone) ==
    [name |-> type, type |-> type, location |-> location, confident |-> confident,
     marked |-> marked, box |-> box, zone |-> zone, changed |-> marked]

Cars == {Asset("vehicle", "detected", sure, FALSE, CarBox, {Around}) : sure \in BOOLEAN}
        \cup {Asset("vehicle", w, FALSE, FALSE, Around, {Around}) : w \in {"zone", "zone_absent"}}
Marked == {Asset(type, "zone", TRUE, TRUE, CarBox, {CarBox}) :
              type \in {"door", "window", "equipment"}}

Clip(body, walk, interval, frames, asset, touching, depth, posed) ==
    [tracks |-> <<Walker(body[1], body[2], walk)>>, interval |-> interval, frames |-> frames,
     assets |-> <<asset>>, examinedAsset |-> asset.name, examinedTrack |-> 0,
     touching |-> touching, depth |-> depth, reaching |-> posed, raised |-> posed,
     altered |-> FALSE, detectDoorUse |-> TRUE, sceneChanged |-> FALSE, night |-> TRUE,
     sounds |-> {}]

Answers == {"yes", "no", "unknown"}

Touchable(c) == c.touching = "yes" =>
    \E i \in 1..3 : BoxGap(c.tracks[1].points[i].box, c.assets[1].box) <= 4

WatchedClips ==
    {c \in {Clip(b, w, 1, 3, a, touching, depth, p) :
                b \in Bodies, w \in Walks, a \in Cars, touching \in Answers,
                depth \in Answers, p \in BOOLEAN} :
        Touchable(c) /\ (c.raised => c.tracks[1].label = "person")}
    \cup {Clip(<<"person", TRUE>>, w, i, f, a, "unknown", depth, FALSE) :
        w \in Walks, i \in {4, 6}, f \in {3, 6}, a \in Marked, depth \in Answers}
    \cup {Clip(<<"person", TRUE>>, w, 6, 3, a, "unknown", depth, FALSE) :
        w \in Walks, a \in Cars, depth \in Answers}

Lingers(c) == \E e \in Detect(c) : e.type = "loitering"

(* "The same precedence every other rule gives it": once depth places a    *)
(* subject elsewhere, nothing the outlines say changes any event.          *)
DepthOutranksOutlines(c) ==
    c.depth = "no" =>
        \A touching \in Answers : Detect([c EXCEPT !.touching = touching]) = Detect(c)

(* A yes from a stage never lowers a clip's score, a no never raises it.   *)
AnswersPointTheRightWay(c) ==
    LET unsure == ClipScore([c EXCEPT !.depth = "unknown"])
    IN /\ c.depth = "yes" => ClipScore(c) >= unsure
       /\ c.depth = "no"  => ClipScore(c) <= unsure

(* "Only its weight waits for evidence that a second stage confirmed it":  *)
(* what the projection alone shows of a subject who neither lingers nor    *)
(* reaches out, at night, with an arm raised or not, is no alert.          *)
ProjectionNeverAlerts(c) ==
    c.touching # "yes" /\ c.depth # "yes" /\ ~Lingers(c) =>
        LET events == Detect([c EXCEPT !.reaching = FALSE])
        IN ~InAlertBand(Score(events, 100, Context(c)))

(* "Provably brief": no visit could have been lingering, had the subject   *)
(* come just after a frame and left just before one.                       *)
VisitNeverLingers(c) ==
    (\E e \in Detect(c) : e.type = "door_used") =>
        /\ ~Lingers(c)
        /\ \A z \in UNION {a.zone : a \in ToSet(c.assets)} :
              LET inside == Inside(c.tracks[1], z)
              IN (Max(inside) - Min(inside) + 2) * c.interval <= LoiterSeconds

(* Being at a door is what doors are for: one person who does not linger   *)
(* there never alerts by what they do, even at night.                      *)
DoorVisitorNeverAlerts(c) ==
    c.assets[1].type = "door" /\ ~Lingers(c) => ~InAlertBand(ClipScore(c))
=============================================================================
