----------------------------- MODULE RiskScoring -----------------------------
(***************************************************************************)
(* The risk score of a clip (security/scoring.py), the quality of the      *)
(* evidence that damps it (security/evidence.py) and the events that come  *)
(* from its sound (security/sounds.py).                                    *)
(*                                                                         *)
(* Confidences, qualities and other shares are percentages.  A score is in *)
(* 100000ths of a point: an event's points are cut to thousandths and      *)
(* multiplied by a damping in percent.                                     *)
(***************************************************************************)
EXTENDS Integers, FiniteSets, FiniteSetsExt

Routine    == 0
Noteworthy == 1
Suspicious == 2
Critical   == 3

(* The event types that carry points, and their points.                    *)
EventPoints ==
    [subject_present |-> 2, multiple_subjects |-> 8, zone_entered |-> 20,
     asset_approached |-> 12, asset_proximity |-> 14, loitering |-> 15, retreat |-> 4,
     asset_reach |-> 24, contact_candidate |-> 32, impact_candidate |-> 40,
     retreat_after_contact |-> 18, object_removed |-> 25, object_added |-> 0,
     animal_asset_interaction |-> 18, asset_disturbed |-> 16, door_used |-> 0,
     camera_obstruction |-> 40, glass_break_heard |-> 82, gunshot_heard |-> 82,
     alarm_heard |-> 30]

AudioEvents   == {"glass_break_heard", "gunshot_heard", "alarm_heard"}
ContactEvents == {"contact_candidate", "animal_asset_interaction", "retreat_after_contact"}
OncePerClip   == DOMAIN EventPoints \ (AudioEvents \cup
                    {"multiple_subjects", "object_removed", "object_added", "door_used",
                     "camera_obstruction"})

NightPoints        == 8
KnownPersonPoints  == 32
OtherVehiclePoints == 15
CriticalScore      == 75

-----------------------------------------------------------------------------
(* One event's points, in thousandths: base, a severity multiplier in      *)
(* quarters, and 0.35 + 0.65 * confidence.                                 *)
Quarters == [s \in 0..3 |-> IF s = Routine THEN 2 ELSE 3 + s]

EventFactor(e) ==
    (EventPoints[e.type] * Quarters[e.severity] * (3500 + 65 * e.confidence)) \div 40

(* A clip's events are a set: of each kind that counts once the strongest  *)
(* is kept, ties going to one of them.                                     *)

Strongest(events) ==
    LET once == {e \in events : e.type \in OncePerClip}
        best(S) == CHOOSE f \in S : \A g \in S : EventFactor(g) <= EventFactor(f)
    IN (events \ once)
       \cup {best({e \in once : e.type = type}) : type \in {e.type : e \in once}}

Points(events) == MapThenSumSet(EventFactor, events)

(* 0.55 + 0.45 * quality, in percent; qualities are multiples of 20.       *)
Damping(quality) == 55 + 9 * (quality \div 20)

LOCAL AtMost100(score) == Min({Max({score, 0}), 100 * 100000})

Penalty(context) ==
    100000 * ((IF context.otherVehicle THEN OtherVehiclePoints ELSE 0)
                + (IF context.known THEN KnownPersonPoints ELSE 0))

Night(context) == IF context.night THEN 1000 * NightPoints ELSE 0

(* What the sound alone is worth: no damping and no discount.              *)

Heard(events) ==
    100 * Points({e \in Strongest(events) : e.type \in AudioEvents})

Seen(events, context) ==
    Points({e \in Strongest(events) : e.type \notin AudioEvents}) + Night(context)

Unconfirmed(events) ==
    {e \in Strongest(events) : e.type \in ContactEvents /\ ~e.confirmed}

Total(events, seen, quality, context) ==
    LET heard == 100 * Points({e \in Strongest(events) : e.type \in AudioEvents})
    IN AtMost100(Max({seen * Damping(quality) + heard - Penalty(context), Heard(events)}))

\* Mutant: every contact is taken out, confirmed or not.
WithoutContact(events, quality, context) ==
    LET contacts == {e \in Strongest(events) : e.type \in ContactEvents}
        full    == Total(events, Seen(events, context), quality, context)
        without == Total(events, Seen(events, context) - Points(contacts), quality, context)
    IN IF full >= CriticalScore * 100000 /\ without < CriticalScore * 100000
         THEN (CriticalScore - 1) * 100000 ELSE full

(* The score, held just below the alert band when it is only an unconfirmed*)
(* contact that carries it there.                                          *)
Score(events, quality, context) ==
    LET full    == Total(events, Seen(events, context), quality, context)
        without == Total(events, Seen(events, context) - Points(Unconfirmed(events)),
                         quality, context)
    IN IF full >= CriticalScore * 100000 /\ without < CriticalScore * 100000
         THEN (CriticalScore - 1) * 100000 ELSE full

InAlertBand(score) == score >= CriticalScore * 100000

BandForScore(score) ==
    CASE InAlertBand(score)      -> Critical
      [] score >= 50 * 100000 /\ ~InAlertBand(score) -> Suspicious
      [] score >= 25 * 100000 /\ score < 50 * 100000 -> Noteworthy
      [] OTHER                   -> Routine

WeakEvidence == 40

SeverityFor(events, quality, context) ==
    LET band  == BandForScore(Score(events, quality, context))
        floor == IF quality < WeakEvidence THEN Suspicious ELSE Critical
    IN IF \E e \in events : e.severity = Critical THEN Max({band, floor}) ELSE band

-----------------------------------------------------------------------------
(* The evidence.  A clip's subjects are records of how tall the largest    *)
(* view of them was, how sure the detector, how unbroken the track, and    *)
(* whether it is a real track; stages counts the optional sources.         *)
Scale(value, weak, strong) == Max({0, Min({100, (100 * (value - weak)) \div (strong - weak)})})

Mean(S, f(_)) == MapThenSumSet(f, S) \div Cardinality(S)

SubjectSize(subjects) == Scale(Max({s.height : s \in subjects}), 8, 35)
Continuity(s) == IF s.tracked THEN s.continuity ELSE s.continuity \div 2

StageCoverage(clip) ==
    Max({0, 100 - (100 * clip.unavailable) \div (4 - clip.notApplicable)})

(* The weighted factors that apply.                                        *)
Evidence(clip) ==
    LET size    == SubjectSize(clip.subjects)
        sure(s) == s.confidence
        sum == Min({100, (100 * clip.frames) \div clip.target}) * 20
               + (IF clip.notApplicable < 4 THEN StageCoverage(clip) * 10 ELSE 0)
               + (IF clip.subjects = {} THEN 0
                  ELSE size * 30 + Mean(clip.subjects, sure) * 20
                         + Mean(clip.subjects, Continuity) * 20)
        weight == 20 + (IF clip.notApplicable < 4 THEN 10 ELSE 0)
                     + (IF clip.subjects = {} THEN 0 ELSE 70)
    IN IF clip.subjects = {} THEN sum \div weight
       ELSE Min({sum \div weight, 35 + (65 * size) \div 100})

-----------------------------------------------------------------------------
(* A sound label is known by the keywords it matches: the first rule wins, *)
(* below half confidence it is nothing.                                    *)
Rules == <<[words |-> "glass", type |-> "glass_break_heard", severity |-> Critical],
           [words |-> "gunshot", type |-> "gunshot_heard", severity |-> Critical],
           [words |-> "alarm", type |-> "alarm_heard", severity |-> Suspicious]>>

AudioEvent(label) ==
    LET rule == Min({i \in DOMAIN Rules : Rules[i].words \in label.words})
    IN [type |-> Rules[rule].type, severity |-> Rules[rule].severity,
        confidence |-> label.score, confirmed |-> FALSE]

DetectAudioEvents(labels) ==
    {AudioEvent(l) : l \in {l \in labels : l.score >= 50
                               /\ \E i \in DOMAIN Rules : Rules[i].words \in l.words}}

-----------------------------------------------------------------------------
(* Events as the detector emits them.                                      *)
Event(type, severity, confidence, confirmed) ==
    [type |-> type, severity |-> severity, confidence |-> confidence, confirmed |-> confirmed]

PasserBy == {Event("subject_present", Routine, 90, FALSE),
             Event("zone_entered", Noteworthy, 80, FALSE),
             Event("asset_approached", Noteworthy, 70, FALSE),
             Event("asset_proximity", Suspicious, 75, FALSE)}

Detected ==
    {Event("loitering", Suspicious, 70, FALSE),
     Event("loitering", Noteworthy, 55, FALSE), Event("asset_reach", Suspicious, 65, FALSE),
     Event("contact_candidate", Suspicious, 80, TRUE),
     Event("contact_candidate", Noteworthy, 45, FALSE),
     Event("animal_asset_interaction", Noteworthy, 80, TRUE),
     Event("animal_asset_interaction", Noteworthy, 45, FALSE),
     Event("impact_candidate", Critical, 85, FALSE),
     Event("retreat_after_contact", Suspicious, 60, TRUE),
     Event("retreat_after_contact", Noteworthy, 45, FALSE),
     Event("multiple_subjects", Noteworthy, 90, FALSE),
     Event("glass_break_heard", Critical, 50, FALSE),
     Event("alarm_heard", Suspicious, 90, FALSE)}

ScoredClips ==
    [events : {walk \cup more : walk \in {{}, PasserBy},
                                more \in UNION {kSubset(k, Detected) : k \in 0..3}},
     context : {c \in [night : BOOLEAN, known : BOOLEAN, otherVehicle : BOOLEAN] :
                   c.otherVehicle => c.known}]

Qualities == {20, 40, 100}

Subject == [height : {5, 15, 40}, confidence : {40, 90}, continuity : {30, 100},
            tracked : BOOLEAN]
SeenClips ==
    {c \in [frames : {2, 6}, target : {6}, unavailable : 0..3, notApplicable : 0..4,
            subjects : {{}} \cup {{s, t} : s, t \in Subject}] :
        c.unavailable + c.notApplicable <= 4}

(* "Recognition reduces risk; it never erases it": neither a known face nor*)
(* another vehicle takes a clip with a critical event below the suspicious *)
(* band, or below what was heard.                                          *)
RecognitionErasesNothing(x) ==
    \A q \in Qualities :
        /\ (\E e \in x.events : e.severity = Critical)
              => SeverityFor(x.events, q, x.context) >= Suspicious
        /\ LET loud == {e \in x.events : e.type \in AudioEvents}
           IN Score(x.events, q, x.context)
                >= Min({100 * 100000, 100 * Points(Strongest(loud))})

(* "What the same clip scores without the unconfirmed claim decides": a    *)
(* clip is in the alert band exactly when it would be there had the        *)
(* unconfirmed contacts not been claimed, a second subject's among them.   *)
UnconfirmedContactDecidesNothing(x) ==
    \A q \in Qualities :
        LET claimed == {e \in x.events : e.type \in ContactEvents => e.confirmed}
        IN InAlertBand(Score(x.events, q, x.context)) <=>
               InAlertBand(Total(claimed, Seen(claimed, x.context), q, x.context))

(* "Evidence quality damps the score": the worse evidence never raises the *)
(* severity of a clip, nor brings it into the alert band.                  *)
WorseEvidenceNeverRaises(x) ==
    \A p, q \in Qualities : p < q =>
        /\ SeverityFor(x.events, p, x.context) <= SeverityFor(x.events, q, x.context)
        /\ InAlertBand(Score(x.events, p, x.context))
              => InAlertBand(Score(x.events, q, x.context))

(* "Summed, a family walking past the car at night scored 100": a second   *)
(* subject doing what the first did adds what its number says, no more.    *)
SecondSubjectAddsOnlyItsNumber(x) ==
    \A e \in x.events : e.type \in OncePerClip =>
        LET fainter == [e EXCEPT !.confidence = @ - 10]
        IN \A q \in Qualities : Score(x.events \cup {fainter}, q, x.context)
                                   = Score(x.events, q, x.context)

(* "Not applicable" is not "missing": a stage that had nothing to measure  *)
(* costs nothing, and a subject too small to read is never good evidence.  *)
OnlyMissingStagesCost(clip) ==
    /\ clip.unavailable = 0 /\ clip.notApplicable < 4 =>
          Evidence(clip) = Evidence([clip EXCEPT !.notApplicable = 0])
    /\ (\A s \in clip.subjects : s.height <= 15) /\ clip.subjects # {} => Evidence(clip) < 70
=============================================================================
