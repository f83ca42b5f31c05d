---------------------------- MODULE MCAlgorithms ----------------------------
(***************************************************************************)
(* The algorithms of the pipeline on every input of a small set: `which`   *)
(* names the set, `input` is a member of it, and nothing happens to it.    *)
(***************************************************************************)
EXTENDS Integers

VARIABLES which, input

Picking  == INSTANCE FacePicking
Faces    == INSTANCE FaceRecognition
Frames   == INSTANCE FrameSelection
Risk     == INSTANCE RiskScoring
Tracked  == INSTANCE Tracks
Detector == INSTANCE SecurityDetector
Pipeline == INSTANCE VisionPipeline
Verdicts == INSTANCE Verdict
Calls    == INSTANCE Providers WITH MaxRetries <- 3
Stages   == INSTANCE StageAnswers
Zones    == INSTANCE ZoneGeometry
Learned  == INSTANCE Learning
Sent     == INSTANCE Alerts

Given(name, set) == which = name /\ input \in set

Init ==
    \/ Given("faces in a scan", Picking!Scans)
    \/ Given("album", Picking!Albums)
    \/ Given("faces in a clip", Faces!FaceClips)
    \/ Given("sampling", Frames!Clips)
    \/ Given("selection", Frames!Selections)
    \/ Given("scored", Risk!ScoredClips)
    \/ Given("seen", Risk!SeenClips)
    \/ Given("footage", Tracked!Footage)
    \/ Given("watched", Detector!WatchedClips)
    \/ Given("looked at", Pipeline!LookedAt)
    \/ Given("recorded", Pipeline!Recorded)
    \/ Given("scan", Pipeline!Scans)
    \/ Given("judged", Verdicts!Judged)
    \/ Given("escalation", Verdicts!Escalations)
    \/ Given("frames", Verdicts!Frames)
    \/ Given("attempts", Calls!Histories)
    \/ Given("frame by frame", Calls!FrameRuns)
    \/ Given("view", Calls!Views)
    \/ Given("sound", Stages!Clips)
    \/ Given("depth", Stages!DepthViews)
    \/ Given("contact", Stages!Outlines)
    \/ Given("body", Stages!Bodies)
    \/ Given("ring", Zones!Rings)
    \/ Given("rectangle", Zones!Rectangles)
    \/ Given("scenes", Learned!Histories)
    \/ Given("visits", Learned!Visits)
    \/ Given("answers", Learned!Answers)
    \/ Given("alert", Sent!Alerts)
    \/ Given("pictures", Sent!Pictures)

Next == UNCHANGED <<which, input>>

Spec == Init /\ [][Next]_<<which, input>>

-----------------------------------------------------------------------------
(* A clip's faces: strangers are counted as such, what the panel offers is *)
(* what a match then finds, and near-duplicates are hidden behind a better *)
(* photo.                                                                  *)
FacesAgree ==
    /\ which = "faces in a scan" => Picking!HiddenHaveTwins(input) /\ Picking!NoBridge(input)
    /\ which = "album" => Picking!PickerAgrees(input) /\ Picking!WarningIsTrue(input)
    /\ which = "faces in a clip" =>
         Faces!StrangersCount(input) /\ Faces!PanelKeepsItsPromise(input)
           /\ Faces!EvidenceAgrees(input) /\ Faces!NamesAreWhole(input)

(* The frames that are looked at: the whole clip is sampled, the budget    *)
(* spent, and the moment of most motion is never left out.                 *)
FramesTellTheStory ==
    /\ which = "sampling" =>
         Frames!PoolIsFilled(input) /\ Frames!WholeClipCovered(input) /\ Frames!LengthSetsTheBudget(input)
    /\ which = "selection" =>
         Frames!BudgetSpent(input) /\ Frames!PeakKept(input)
           /\ Frames!WindowIsNarrowest(input) /\ Frames!NeverWorseThanSmart(input)

(* The score of a clip: worse evidence never helps, and what is missing    *)
(* costs no more than what it would have said.                             *)
ScoreIsFair ==
    /\ which = "scored" =>
         Risk!RecognitionErasesNothing(input) /\ Risk!UnconfirmedContactDecidesNothing(input)
           /\ Risk!WorseEvidenceNeverRaises(input) /\ Risk!SecondSubjectAddsOnlyItsNumber(input)
    /\ which = "seen" => Risk!OnlyMissingStagesCost(input)

(* What is made of a subject's track: contacts, visits and impacts.        *)
DetectorIsRight ==
    /\ which = "footage" => Tracked!OneSubjectPerTrack(input)
    /\ which = "watched" =>
         Detector!DepthOutranksOutlines(input) /\ Detector!AnswersPointTheRightWay(input)
           /\ Detector!ProjectionNeverAlerts(input) /\ Detector!VisitNeverLingers(input)
           /\ Detector!DoorVisitorNeverAlerts(input)
    /\ which = "looked at" => Pipeline!PeopleComeFirst(input) /\ Pipeline!HintsAgree(input)
    /\ which = "recorded" => Pipeline!SilenceIsExplained(input)
    /\ which = "scan" => Pipeline!ScanFits(input)

(* From the model's answer to the verdict: nothing is cleared that must    *)
(* not be, the frame that raised the alarm decides, and a clip fails by no *)
(* fault of its provider's account.                                        *)
VerdictHolds ==
    /\ which = "judged" =>
         Verdicts!RiskIsNeverCleared(input) /\ Verdicts!BreakInIsNeverCleared(input)
           /\ Verdicts!UnsureModelClearsNothing(input)
    /\ which = "escalation" => Verdicts!SecondTierKeepsItsSide(input)
    /\ which = "frames" => Verdicts!AlarmedFrameDecides(input)
    /\ which = "attempts" => Calls!FailureIsDeserved(input) /\ Calls!HalfIsNoVerdict(input)
    /\ which = "view" => Calls!TouchIsNeverMissed(input) /\ Calls!OneCarIsNotTwo(input)
    /\ which = "frame by frame" => Calls!AlarmOutlivesFailures(input) /\ Calls!CarsAloneAreNoAlarm(input)

(* What sound, depth, contact, pose and zones say does not depend on the   *)
(* unit, the side or the window in which it is measured.                   *)
StagesMeasureRight ==
    /\ which = "sound" => Stages!NothingLouderMissed(input) /\ Stages!BriefSoundIsHeard(input)
    /\ which = "depth" => Stages!DepthHasNoUnit(input)
    /\ which = "contact" => Stages!GapNeverOverstated(input)
    /\ which = "body" => Stages!MirroredTheSame(input) /\ Stages!PostureHasNoSize(input)
    /\ which = "ring" => Zones!SharesAddUp(input) /\ Zones!InsideMeansCovered(input)
    /\ which = "rectangle" => Zones!TracedOrDrawn(input)

(* What a camera learns: a lasting change of its view becomes usual, a     *)
(* passing one does not, and neither habit nor feedback runs away.         *)
LearningSettles ==
    /\ which = "scenes" =>
         Learned!SceneSettles(input) /\ Learned!MomentsPass(input) /\ Learned!NightStaysNight(input)
    /\ which = "visits" => Learned!ScoreFollowsHistory(input)
    /\ which = "answers" => Learned!TuningIsBounded(input)

(* An alert arrives once on each channel, with or without its picture, and *)
(* the picture shows what it is about.                                     *)
AlertsArrive ==
    /\ which = "alert" => Sent!NeverTwice(input) /\ Sent!ArrivesAnyway(input) /\ Sent!ChannelsApart(input)
    /\ which = "pictures" => Sent!PictureShowsSubject(input)

(* DOCS.md:1620: a visit at "a rarely used hour, or one it has never seen" *)
(* is unusual.                                                             *)
UnseenHourIsUnusual == which = "visits" => Learned!UnseenHourIsUnusual(input)

=============================================================================
