------------------------------ MODULE Verdict ------------------------------
(***************************************************************************)
(* From the models' replies to the verdict of a clip (analyzer/base.py,    *)
(* security/routine.py): reading a reply, the most alarming frame, the     *)
(* second tier, and what recognition, a routine door visit and the risk    *)
(* score then do to the flag.                                              *)
(*                                                                         *)
(* A reply is empty, prose, a JSON object or one that was cut off; it has  *)
(* the keywords in its text besides its own "suspicious" key, which is one *)
(* of the default keywords.  Confidences are percentages.                  *)
(***************************************************************************)
EXTENDS Integers, Sequences, FiniteSets, FiniteSetsExt

Kinds == {"empty", "prose", "json", "cut"}
Reply == [kind : Kinds, suspicious : BOOLEAN, confidence : {0, 40, 60, 90},
          described : BOOLEAN, words : 0..1]

LOCAL Unread == [suspicious |-> FALSE, confidence |-> 0, described |-> FALSE]

(* Only a whole object is read.                                            *)
TryParseJson(r) ==
    IF r.kind # "json" THEN Unread
    ELSE [suspicious |-> r.suspicious, confidence |-> r.confidence, described |-> r.described]

IsWellFormed(r) == r.kind = "json"

(* _model_confidence: none when the model gave no confidence of its own.   *)
NoConfidence == -1
ModelConfidence(r) ==
    IF TryParseJson(r).described /\ r.confidence > 0 THEN r.confidence ELSE NoConfidence

Matched(r) == r.words + (IF r.kind \in {"json", "cut"} THEN 1 ELSE 0)

ParseResponse(r) ==
    LET said   == TryParseJson(r)
        byWord == Min({100, 30 * Matched(r)})
    IN CASE r.kind = "empty"                    -> [suspicious |-> FALSE, confidence |-> 0]
         [] r.kind # "empty" /\ said.described  ->
              [suspicious |-> said.suspicious,
               confidence |-> IF said.suspicious /\ said.confidence = 0
                                THEN (IF Matched(r) > 0 THEN byWord ELSE 50)
                                ELSE said.confidence]
         [] r.kind # "empty" /\ ~said.described ->
              [suspicious |-> Matched(r) > 0,
               confidence |-> IF Matched(r) > 0 THEN byWord ELSE 10]

-----------------------------------------------------------------------------
(* _MostAlarming over the replies about each frame, 0 for no reply kept.   *)
LOCAL Nothing == [frame |-> 0, suspicious |-> FALSE, confidence |-> 0]

Offered(best, said, frame) ==
    IF \/ best.frame = 0
       \/ said.suspicious /\ ~best.suspicious
       \/ said.suspicious = best.suspicious /\ said.confidence > best.confidence
      THEN [frame |-> frame, suspicious |-> said.suspicious, confidence |-> said.confidence]
      ELSE best

OfferUnranked(best, frame) == IF best.frame = 0 THEN [best EXCEPT !.frame = frame] ELSE best

AnalyzeSequentially(replies) ==
    LET held[i \in 0..Len(replies)] ==
            IF i = 0 THEN Nothing
            ELSE LET said == TryParseJson(replies[i]) IN
                 IF replies[i].kind = "empty" THEN held[i - 1]
                 ELSE IF said.described THEN Offered(held[i - 1], said, i)
                 ELSE OfferUnranked(held[i - 1], i)
    IN held[Len(replies)].frame

-----------------------------------------------------------------------------
(* The second tier.  A protected camera asks it about every clip and takes *)
(* either tier's alarm; elsewhere it is asked about alarms, and decides.   *)
Asked(first, protected) == first.kind # "empty" /\ (TryParseJson(first).suspicious \/ protected)

MaybeEscalate(first, second, protected) ==
    IF ~Asked(first, protected) \/ ~IsWellFormed(second) THEN first
    ELSE IF ~protected \/ (TryParseJson(second).suspicious /\ ~TryParseJson(first).suspicious)
      THEN second ELSE first

-----------------------------------------------------------------------------
(* A clip's assessment: its risk score, the threshold (0 turns it off),    *)
(* its events about one door and the people seen, numbered, and what the   *)
(* faces say: all are approved, one was matched, nothing, or a stranger.   *)
RiskForcesAlert(a) == a.threshold > 0 /\ a.score >= a.threshold

ExplainedByAVisit == {"door_used", "subject_present", "zone_entered", "asset_approached",
                      "asset_proximity", "retreat", "asset_disturbed"}
BypassBlockingEvents == {"impact_candidate", "glass_break_heard", "gunshot_heard"}

(* The one event of a clip that is one person's trip through one door.     *)
RoutineDoorVisit(a) ==
    LET visits == {e \in a.events : e.type = "door_used"} IN
    /\ Cardinality(visits) = 1 /\ ~a.weak
    /\ \A visit \in visits, e \in a.events :
          /\ e.type \in ExplainedByAVisit /\ ~e.suspicious
          /\ e.asset \in {"", visit.asset}
          /\ e.person # 0 => e.person = visit.person

Confirmed(a) == a.face \in {"approved", "matched"}

MaxAnomaly == 35
DoorUseAllowed(a) == Confirmed(a) \/ a.anomaly < MaxAnomaly
FlagCanBeCleared(confidence, a) == confidence < (IF Confirmed(a) THEN 85 ELSE 70)

(* Door visits are only looked for where the faces and the clip's history  *)
(* allow them.                                                             *)
DoorUseApplies(a) == a.doorUse /\ a.face # "stranger" /\ DoorUseAllowed(a)

RoutineVisitClears(a, reply) ==
    /\ DoorUseApplies(a)
    /\ RoutineDoorVisit(a)
    /\ ModelConfidence(reply) # NoConfidence /\ FlagCanBeCleared(ModelConfidence(reply), a)

(* Only approved faces, and nothing they could not account for.            *)
BypassApplies(a) ==
    a.face = "approved" /\ \A e \in a.events : e.type \notin BypassBlockingEvents

RiskOverrideConfidence == 70

\* Mutant: the score is looked at before the flag is cleared, not after.
OverrideFirst(a, reply) ==
    LET said   == ParseResponse(reply)
        over   == RiskForcesAlert(a) /\ ~said.suspicious
        bypass == (said.suspicious \/ over) /\ BypassApplies(a)
        visit  == (said.suspicious \/ over) /\ ~bypass /\ RoutineVisitClears(a, reply)
    IN [suspicious |-> (said.suspicious \/ over) /\ ~bypass /\ ~visit,
        confidence |-> IF over THEN Max({said.confidence, RiskOverrideConfidence})
                       ELSE said.confidence,
        bypass |-> bypass, visit |-> visit, override |-> over]

AdjustVerdict(a, reply) ==
    LET said   == ParseResponse(reply)
        forced == RiskForcesAlert(a)
        bypass == said.suspicious /\ ~forced /\ BypassApplies(a)
        visit  == said.suspicious /\ ~forced /\ ~bypass /\ RoutineVisitClears(a, reply)
        over   == forced /\ ~said.suspicious
    IN [suspicious |-> (said.suspicious \/ over) /\ ~bypass /\ ~visit,
        confidence |-> IF over THEN Max({said.confidence, RiskOverrideConfidence})
                       ELSE said.confidence,
        bypass |-> bypass, visit |-> visit, override |-> over]

-----------------------------------------------------------------------------
(* Inputs.  What a clip shows is drawn from five events and a sound; only  *)
(* a suspicious one brings a high score.                                   *)
Replies == {r \in Reply :
    /\ r.kind # "json" => r.confidence = 0 /\ ~r.described
    /\ r.kind \in {"empty", "prose"} => ~r.suspicious
    /\ r.words > 0 => r.kind \in {"prose", "json"}}

Escalations == [first : Replies, second : Replies, protected : BOOLEAN]
Frames == UNION {[1..n -> {r \in Replies : r.words = 0}] : n \in 1..3}

LOCAL Event(type, suspicious, asset, person) ==
    [type |-> type, suspicious |-> suspicious, asset |-> asset, person |-> person]
Happenings == {Event("door_used", FALSE, "door", 1), Event("door_used", FALSE, "door", 2),
               Event("subject_present", FALSE, "", 2),
               Event("asset_approached", FALSE, "car", 1), Event("contact", TRUE, "car", 1),
               Event("glass_break_heard", FALSE, "", 0)}
Faces == {"approved", "matched", "none", "stranger"}
Judged ==
    {c \in [reply : {r \in Replies : r.kind # "empty" /\ (r.words > 0 => r.kind = "prose")},
            threshold : {0, 70},
            score : {20, 80}, events : {E \in SUBSET Happenings : Cardinality(E) <= 3},
            weak : BOOLEAN, face : Faces, doorUse : BOOLEAN, anomaly : {20, 40}] :
        /\ c.score = 80 <=> \E e \in c.events : e.suspicious
        /\ c.anomaly = 40 => c.doorUse
        /\ (\E e \in c.events : e.type = "door_used") => DoorUseApplies(c)}

(* A clip whose risk score alone justifies an alert is flagged, whoever    *)
(* was recognised and however routine the visit looked.                    *)
RiskIsNeverCleared(c) == RiskForcesAlert(c) => AdjustVerdict(c, c.reply).suspicious

(* No rule clears the alarm of a clip with the sound of breaking glass in  *)
(* it: neither the approved faces nor the trip through the door.           *)
BreakInIsNeverCleared(c) ==
    ParseResponse(c.reply).suspicious /\ (\E e \in c.events : e.type \in BypassBlockingEvents)
        => AdjustVerdict(c, c.reply).suspicious

(* Where nobody's faces account for the clip, an alarm the model gave no   *)
(* confidence for stands, although one is made up for the notification.    *)
UnsureModelClearsNothing(c) ==
    /\ ParseResponse(c.reply).suspicious
    /\ c.face # "approved"
    /\ c.reply.confidence = 0 \/ ~c.reply.described
    => AdjustVerdict(c, c.reply).suspicious

(* On a protected camera asking a second model never loses an alarm either *)
(* of them raised; elsewhere it never makes one out of a clear clip.       *)
SecondTierKeepsItsSide(e) ==
    LET final == ParseResponse(MaybeEscalate(e.first, e.second, e.protected)).suspicious IN
    IF e.protected
      THEN \/ e.first.kind = "empty" \/ final
           \/ ~ParseResponse(e.first).suspicious /\ ~TryParseJson(e.second).suspicious
      ELSE final => ParseResponse(e.first).suspicious

(* When any frame was described as an alarm, the clip is answered by such  *)
(* a frame, and by none less sure than another of them.                    *)
AlarmedFrameDecides(f) ==
    LET alarms == {i \in DOMAIN f : f[i].kind = "json" /\ f[i].suspicious /\ f[i].described}
        chosen == AnalyzeSequentially(f)
    IN alarms # {} => /\ chosen \in alarms
                      /\ \A i \in alarms : f[i].confidence <= f[chosen].confidence
=============================================================================
