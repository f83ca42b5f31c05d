------------------------------- MODULE Learning -------------------------------
(***************************************************************************)
(* What a camera learns (database/learning.py): the background it usually  *)
(* sees, by day and under infrared; how unusual a clip's hour and length   *)
(* are; and the confidence its alerts need after false alarms.  Shares are *)
(* in hundredths.  A thumbnail is the one brightness of its pixels.        *)
(***************************************************************************)
EXTENDS Integers, Sequences

Away(a, b) == IF a > b THEN a - b ELSE b - a
AtMost(a, b) == IF a < b THEN a ELSE b
AtLeast(a, b) == IF a > b THEN a ELSE b

-----------------------------------------------------------------------------
(* The background.  Brightness in ten thousandths, to average exactly.     *)
Grain == 10000
MinSamples == 20
Elevated == 1200
LongStreak == 5

Nothing == [mean |-> -1, count |-> 0, streak |-> 0]
Fresh == [night \in BOOLEAN |-> Nothing]

\* Mutant: however long the streak, the average moves at its own pace.
SnapNever(b, t) == IF b.count >= MinSamples /\ Away(b.mean, t) >= Elevated THEN b.streak + 1 ELSE -100

(* How many ordinary clips in a row looked different by now.               *)
Streak(b, t) == IF b.count >= MinSamples /\ Away(b.mean, t) >= Elevated THEN b.streak + 1 ELSE 0

Snaps(b, t) == Streak(b, t) >= LongStreak

Blend(b, t) ==
    LET weight == AtMost(MinSamples, b.count + 1)
    IN IF b.mean < 0 THEN [mean |-> t, count |-> 1, streak |-> 0]
       ELSE [mean |-> IF Snaps(b, t) THEN (b.mean + t) \div 2 ELSE (b.mean * (weight - 1) + t) \div weight,
             count |-> b.count + 1,
             streak |-> IF Snaps(b, t) THEN 0 ELSE Streak(b, t)]

(* A clip: its opening frame, its lighting and whether the verdict was     *)
(* suspicious with confidence 0.5 or more.                                 *)
Clip(at, night, alarming) == [at |-> at, night |-> night, alarming |-> alarming]

RecordScene(scenes, clip) ==
    IF clip.alarming THEN scenes ELSE [scenes EXCEPT ![clip.night] = Blend(@, clip.at)]

Scenes(history) ==
    LET after[i \in 0..Len(history)] == IF i = 0 THEN Fresh ELSE RecordScene(after[i - 1], history[i])
    IN after[Len(history)]

(* -1 while there is too little history.                                   *)
Deviation(scene, at) == IF scene.count < MinSamples THEN -1 ELSE AtMost(Grain, Away(scene.mean, at))

(* A camera that has seen one background for a while, and five clips after *)
(* which it may be another for good.                                       *)
Usual == 3000
Moments == {"same", "new", "night", "alarm"}
Histories == [before : {0, 6, 20, 40}, then : [1..LongStreak -> Moments], now : {0, 1700, 4300, Grain}]

Moment(x, m) ==
    CASE m = "same" -> Clip(Usual, FALSE, FALSE)
      [] m = "new" -> Clip(x.now, FALSE, FALSE)
      [] m = "night" -> Clip(800, TRUE, FALSE)
      [] m = "alarm" -> Clip(9000, FALSE, TRUE)
Before(x) == [i \in 1..x.before |-> Clip(Usual, FALSE, FALSE)]
History(x) == Before(x) \o [i \in 1..LongStreak |-> Moment(x, x.then[i])]

(* A change that stays is the new normal after fifteen ordinary clips,     *)
(* whatever came first.                                                    *)
SceneSettles(x) ==
    LET stays == [i \in 1..15 |-> Clip(x.now, FALSE, FALSE)]
    IN x.before >= MinSamples => Deviation(Scenes(History(x) \o stays)[FALSE], x.now) < Elevated

(* Fewer than five ordinary clips in a row move a learned background by    *)
(* less than a quarter of the difference, and an alarming one not at all.  *)
MomentsPass(x) ==
    LET moved == Away(Scenes(History(x))[FALSE].mean, Usual)
        news == {i \in 1..LongStreak : x.then[i] = "new"}
    IN x.before >= MinSamples =>
           /\ news # 1..LongStreak => 4 * moved <= Away(x.now, Usual) + 4
           /\ news = {} => moved = 0

(* Night clips leave no trace in what the days look like.                  *)
NightStaysNight(x) ==
    LET dayOnly == SelectSeq(History(x), LAMBDA c : ~c.night)
    IN Scenes(History(x))[FALSE] = Scenes(dayOnly)[FALSE]

-----------------------------------------------------------------------------
(* How unusual a clip is.  Its own hour and length are recorded when it is *)
(* downloaded, before its analysis asks.                                   *)
MinEvents == 30

HourRarity(inHour, total) ==
    CASE inHour = 0 -> 50
      [] 2400 * inHour < 15 * total -> 35
      [] 2400 * inHour >= 15 * total /\ 2400 * inHour < 35 * total -> 15
      [] OTHER -> 0

(* The average holds `samples` clips `sum` seconds long in all.            *)
LengthRarity(length, sum, samples) ==
    LET times(n) == n * sum
        long == 10 * length * samples
    IN IF samples < 10 \/ sum <= 0 THEN 0
       ELSE IF long > times(40) \/ long < times(2) THEN 25
       ELSE IF long > times(25) \/ long < times(4) THEN 10
       ELSE 0

(* A clip of an hour: earlier clips in that hour and outside it, and how   *)
(* long it is where the others lasted ten seconds.                         *)
Visits == [inHour : 0..6, outside : {0, 22, 29, 40, 67, 120, 170, 300}, length : {0, 1, 3, 10, 30, 60}]

AnomalyScore(v) ==
    LET total == v.inHour + v.outside + 1
        samples == total - (IF v.length > 0 THEN 0 ELSE 1)
    IN IF total < MinEvents THEN 0
       ELSE AtMost(100, HourRarity(v.inHour + 1, total)
                        + IF v.length > 0 THEN LengthRarity(v.length, 10 * (total - 1) + v.length, samples) ELSE 0)

(* security/routine.py: from here on a visit without a known face is not   *)
(* weighed as ordinary use of a door.                                      *)
DoorUseLimit == 35

(* An hour with more clips is never the more unusual one; an hour with its *)
(* share of them is ordinary for a door whatever the clip's length; and a  *)
(* new install calls nothing unusual.                                      *)
ScoreFollowsHistory(v) ==
    /\ v.outside > 0 => AnomalyScore([v EXCEPT !.inHour = @ + 1, !.outside = @ - 1]) <= AnomalyScore(v)
    /\ 24 * (v.inHour + 1) >= v.inHour + v.outside + 1 => AnomalyScore(v) < DoorUseLimit
    /\ v.inHour + v.outside + 1 < MinEvents => AnomalyScore(v) = 0

(* "0.35 for a rarely used hour, 0.5 for one it has never seen": a clip in *)
(* an hour with none before it is unusual once there is history.           *)
UnseenHourIsUnusual(v) ==
    (v.inHour = 0 /\ v.outside >= MinEvents) => AnomalyScore(v) >= DoorUseLimit

-----------------------------------------------------------------------------
(* The confidence an alert needs, from the newest twenty answers.  Answers *)
(* are TRUE for a false alarm, newest first.                               *)
Window == 20
Answers == [recent : 0..24, alarms : 0..24, base : {0, 40, 75, 85, 90, 93, 95, 97, 100}]
Given(a) == [i \in 1..(a.recent + a.alarms) |-> i > a.recent]
Newest(answers) == SubSeq(answers, 1, AtMost(Window, Len(answers)))

FalseAlarms(answers) == Len(SelectSeq(Newest(answers), LAMBDA wrong : wrong))

Threshold(answers, base) ==
    IF Len(Newest(answers)) < 10 THEN base
    ELSE AtLeast(base - 15, AtMost(95, base + 5 * AtMost(3, FalseAlarms(answers) \div 3)))

(* False alarms never raise a camera's bar by more than 0.15 or past 0.95, *)
(* another one never lowers it, and twenty good answers restore it.        *)
TuningIsBounded(a) ==
    LET bar == Threshold(Given(a), a.base)
    IN a.base <= 95 =>
           /\ a.base <= bar /\ bar <= AtMost(95, a.base + 15)
           /\ bar <= Threshold(<<TRUE>> \o Given(a), a.base)
           /\ a.recent >= Window => bar = a.base
=============================================================================
