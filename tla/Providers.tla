----------------------------- MODULE Providers -----------------------------
(***************************************************************************)
(* What a clip comes to when a call to its AI provider fails (analyzer/    *)
(* *_provider.py): how each provider tells that the account is refused,    *)
(* that a setting is wrong or that it was bad luck, what the queue makes   *)
(* of that over the attempts (analysis_queue.py), and the providers that   *)
(* are asked about each frame, any of which may fail on its own.           *)
(*                                                                         *)
(* A reply is an answer, half of one, or the status of an error: "404" has *)
(* no text, "404 model" names the model; a 400 may be about the account's  *)
(* credit, and a 400 or a 422 about the schema asked for; "lost" is a      *)
(* connection that breaks, a time-out, and a prediction that fails or does *)
(* not end.                                                                *)
(***************************************************************************)
EXTENDS Verdict

CONSTANT MaxRetries     \* _MAX_ANALYSIS_RETRIES

Services == {"openai", "anthropic", "huggingface", "replicate", "ollama", "moondream"}

Statuses == {"401", "402", "403", "404", "404 model", "400", "400 credit", "400 schema", "422",
             "422 schema", "429", "500", "lost"}
Returned == {"answer", "half"} \cup Statuses

-----------------------------------------------------------------------------
(* The error handlers: what stops the batch and leaves the clip as it is,  *)
(* and what is not worth another attempt.  All else is.                    *)
RateLimits ==
    [openai      |-> {"429"},
     anthropic   |-> {"429", "400 credit"},
     huggingface |-> {"429", "402"},
     replicate   |-> {"429", "402"},
     ollama      |-> {},
     moondream   |-> {"429"}]

LOCAL Denied == {"401", "403", "404 model", "400", "400 schema"}
Permanent ==
    [openai      |-> Denied \cup {"400 credit"},
     anthropic   |-> Denied,
     huggingface |-> Denied \cup {"400 credit", "422", "422 schema"},
     replicate   |-> {"401", "404", "404 model", "422", "422 schema"},
     ollama      |-> {},
     moondream   |-> {"401"}]

(* Hugging Face's half an answer is none; elsewhere it is read as it is.   *)
Text(service, reply) ==
    reply = "answer" \/ (reply = "half" /\ service # "huggingface")

(* A backend that refuses the schema is asked once more without it, and    *)
(* not asked for it again.                                                 *)
Resent(service, reply, schema) ==
    service = "huggingface" /\ schema /\ reply \in {"400 schema", "422 schema"}

(* One attempt at a clip, by the flags it leaves behind.                   *)
Attempt(service, reply) ==
    [text      |-> Text(service, reply),
     limited   |-> reply \in RateLimits[service],
     transient |-> reply \notin Permanent[service]]

(* _process_one, when the attempt has ended.                               *)
Settle(clip, attempt) ==
    CASE attempt.text                                           -> [clip EXCEPT !.status = "completed"]
      [] ~attempt.text /\ attempt.limited                       -> clip
      [] ~attempt.text /\ ~attempt.limited /\ attempt.transient /\ clip.retries < MaxRetries ->
            [clip EXCEPT !.retries = @ + 1]
      [] OTHER                                                  -> [clip EXCEPT !.status = "failed"]

Queued == [status |-> "pending", retries |-> 0, schema |-> TRUE, asked |-> 0]

(* A clip over its provider's replies, for as long as it is pending.       *)
Step(service, clip, reply) ==
    IF clip.status # "pending" THEN clip
    ELSE IF Resent(service, reply, clip.schema)
      THEN [clip EXCEPT !.schema = FALSE, !.asked = @ + 1]
    ELSE Settle([clip EXCEPT !.asked = @ + 1], Attempt(service, reply))

Outcome(h) ==
    LET after[i \in 0..Len(h.replies)] ==
            IF i = 0 THEN Queued ELSE Step(h.service, after[i - 1], h.replies[i])
    IN after[Len(h.replies)]

-----------------------------------------------------------------------------
(* Moondream, frame by frame.  A box is given in hundredths of the frame;  *)
(* areas and squares of distances stand for ratios and distances.          *)
Overlap(low1, high1, low2, high2) == Min({high1, high2}) - Max({low1, low2})

BboxGapSquared(a, b) ==
    LET x == Max({0, -Overlap(a.x1, a.x2, b.x1, b.x2)})
        y == Max({0, -Overlap(a.y1, a.y2, b.y1, b.y2)})
    IN x * x + y * y

BboxMinGapSquared(as, bs) == Min({10000} \cup {BboxGapSquared(a, b) : a \in as, b \in bs})

Area(b) == (b.x2 - b.x1) * (b.y2 - b.y1)
Shared(a, b) == Max({0, Overlap(a.x1, a.x2, b.x1, b.x2)}) * Max({0, Overlap(a.y1, a.y2, b.y1, b.y2)})

(* The intersection of the boxes is at least n tenths of their union.      *)
BboxIouAtLeast(a, b, n) == 10 * Shared(a, b) >= n * (Area(a) + Area(b) - Shared(a, b))

(* Of the boxes of one object the largest is kept, of equals the first.    *)
(* The order of those that are kept makes no difference to what follows.   *)
DedupeBoxes(boxes) ==
    LET Precedes(i, j) == \/ Area(boxes[i]) > Area(boxes[j])
                          \/ Area(boxes[i]) = Area(boxes[j]) /\ i < j
        kept[i \in DOMAIN boxes] ==
            \A j \in DOMAIN boxes :
                Precedes(j, i) /\ kept[j] => ~BboxIouAtLeast(boxes[i], boxes[j], 3)
    IN {boxes[i] : i \in {i \in DOMAIN boxes : kept[i]}}

OtherVehicleBoxes(protected, all) ==
    {box \in all : \A p \in protected : ~BboxIouAtLeast(box, p, 5)}

-----------------------------------------------------------------------------
(* A frame has what /detect would answer to each question, the questions   *)
(* whose answer is lost, whether /query fails, and the reply to it.        *)
Questions == {"person", "animal", "car", "car again", "description", "vehicle"}

DetectObjects(frame, question) ==
    IF question \in frame.lost THEN <<>> ELSE frame.boxes[question]

BoxesOf(list) == {list[i] : i \in DOMAIN list}
NoCars == [protected |-> {}, others |-> {}]

(* Which of several cars is the protected one is asked with its            *)
(* description; all of them are, where that finds nothing.                 *)
ToldApart(cars, mine) ==
    IF Cardinality(cars) <= 1 \/ mine = {} THEN [protected |-> cars, others |-> {}]
    ELSE [protected |-> mine, others |-> OtherVehicleBoxes(mine, cars)]

DetectProtectedVehicle(frame, question) ==
    ToldApart(DedupeBoxes(DetectObjects(frame, question)), BoxesOf(DetectObjects(frame, "description")))

(* Animals and vehicles are looked for where there is no person.           *)
DetectFrameSubjects(frame, carApplies) ==
    LET persons == DetectObjects(frame, "person")
        unmanned == persons = <<>>
    IN [persons  |-> persons,
        animals  |-> IF unmanned THEN DetectObjects(frame, "animal") ELSE <<>>,
        cars     |-> IF unmanned /\ carApplies THEN DetectProtectedVehicle(frame, "car") ELSE NoCars,
        vehicles |-> IF unmanned /\ ~carApplies THEN DetectObjects(frame, "vehicle") ELSE <<>>]

Subjects(seen) == seen.persons \o seen.animals

ProximityHint(gapSquared) ==
    CASE gapSquared = 0                        -> "touching"
      [] gapSquared > 0 /\ gapSquared < 25     -> "under a foot"
      [] gapSquared >= 25 /\ gapSquared < 225  -> "a few feet"
      [] gapSquared >= 225                     -> "well away"

(* What the model is told of a camera that watches the protected car.  No  *)
(* car found is asked for once more; the zone drawn for it stands in.      *)
CarHints(subjects, cars, zone) ==
    LET boxes == IF cars = NoCars THEN zone ELSE cars.protected \cup cars.others IN
    IF subjects # {} /\ boxes # {} THEN {ProximityHint(BboxMinGapSquared(subjects, boxes))}
    ELSE IF subjects = {} /\ cars.others # {} THEN {"other vehicle"} ELSE {}

AugmentCarPrompt(frame, seen) ==
    LET Prompt(cars) == [hints    |-> CarHints(BoxesOf(Subjects(seen)), cars, frame.zone),
                       multiple |-> cars.others # {}]
    IN Prompt(IF seen.cars = NoCars THEN DetectProtectedVehicle(frame, "car again") ELSE seen.cars)

(* Elsewhere it is told where the first three of all it shows are.         *)
PositionHint(labelled) ==
    LET Third(middle2, names) ==
            IF middle2 < 66 THEN names[1] ELSE IF middle2 > 134 THEN names[3] ELSE names[2]
    IN {<<labelled[i].label,
          Cardinality({j \in 1..i : labelled[j].label = labelled[i].label}),
          Third(labelled[i].box.y1 + labelled[i].box.y2, <<"top", "middle", "bottom">>),
          Third(labelled[i].box.x1 + labelled[i].box.x2, <<"left", "centre", "right">>)>>
        : i \in 1..Min({3, Len(labelled)})}

AugmentNoncarPrompt(seen) ==
    LET Labelled(label, list) == [i \in DOMAIN list |-> [label |-> label, box |-> list[i]]]
        passing == IF seen.vehicles # <<>> /\ seen.persons = <<>> THEN {<<"passing vehicle">>} ELSE {}
    IN [hints |-> PositionHint(Labelled("person", seen.persons) \o Labelled("animal", seen.animals)
                                 \o Labelled("vehicle", seen.vehicles)) \cup passing,
        multiple |-> FALSE]

NoSubject == [kind |-> "json", suspicious |-> FALSE, confidence |-> 90, described |-> TRUE, words |-> 0]
NoReply   == [kind |-> "empty", suspicious |-> FALSE, confidence |-> 0, described |-> FALSE, words |-> 0]

(* Two vehicles and no one near them are no alarm, whatever the model says.*)
ForceNotSuspicious(reply) ==
    IF reply.kind = "json" /\ reply.suspicious
      THEN [reply EXCEPT !.suspicious = FALSE, !.confidence = Min({30, @})] ELSE reply

Unseen(seen) == Subjects(seen) = <<>> /\ seen.cars.others = {} /\ seen.vehicles = <<>>

AskAboutFrame(frame, seen, told) ==
    IF frame.refused \/ frame.reply.kind = "empty"
      THEN [kind |-> "no_response", reply |-> NoReply, hints |-> told.hints]
    ELSE [kind |-> "result", hints |-> told.hints,
          reply |-> IF told.multiple /\ Subjects(seen) = <<>> THEN ForceNotSuspicious(frame.reply)
                    ELSE frame.reply]

AnalyzeFrame(frame, carApplies) ==
    LET Ranked(seen) ==
            IF Unseen(seen) THEN [kind |-> "no_subject", reply |-> NoSubject, hints |-> {}]
            ELSE AskAboutFrame(frame, seen,
                       IF carApplies THEN AugmentCarPrompt(frame, seen) ELSE AugmentNoncarPrompt(seen))
    IN Ranked(DetectFrameSubjects(frame, carApplies))

(* Moondream Cloud ranks a frame without a subject below every other; the  *)
(* local model ranks it by the confidence of its text.                     *)
Kept(best, i, frame, local) ==
    LET said == TryParseJson(frame.reply) IN
    IF frame.kind = "no_response" THEN best
    ELSE IF said.described /\ (local \/ frame.kind = "result") THEN Offered(best, said, i)
    ELSE OfferUnranked(best, i)

MostAlarming(analyzed, local) ==
    LET best[i \in 0..Len(analyzed)] ==
            IF i = 0 THEN [frame |-> 0, suspicious |-> FALSE, confidence |-> 0]
            ELSE Kept(best[i - 1], i, analyzed[i], local)
        kept == best[Len(analyzed)].frame
    IN IF kept = 0 THEN NoReply ELSE analyzed[kept].reply

(* Replicate's models that take one picture: one failure is the clip's.    *)
AskEachFrame(frames) ==
    LET kept == AnalyzeSequentially([i \in DOMAIN frames |-> frames[i].reply])
    IN IF kept = 0 \/ \E i \in DOMAIN frames : frames[i].refused THEN NoReply
       ELSE frames[kept].reply

ClipReply(f) ==
    IF f.by = "replicate" THEN AskEachFrame(f.frames)
    ELSE MostAlarming([i \in DOMAIN f.frames |-> AnalyzeFrame(f.frames[i], f.protected)], f.by = "local")

-----------------------------------------------------------------------------
(* Inputs.  Four replies use up the attempts of a clip.                    *)
Histories ==
    [service : Services, replies : [1..2 -> Returned]]
    \cup [service : Services,
          replies : [1..(MaxRetries + 1) -> {"answer", "402", "400 credit", "429", "401", "500"}]]
    \cup [service : {"huggingface"},
          replies : [1..3 -> {"answer", "half", "400 schema", "422 schema", "400", "lost"}]]

LOCAL Said == {r \in Replies : r.kind # "empty" /\ r.words = 0 /\ r.confidence \in {0, 40, 90}
                                /\ (r.kind = "json" => r.described /\ r.confidence > 0)}
LOCAL Box(x1, y1, x2, y2) == [x1 |-> x1, y1 |-> y1, x2 |-> x2, y2 |-> y2]

(* The car, drawn tighter, drawn with its front only (a half of it) and    *)
(* with less; another car beside it; and the one and the other's outlines. *)
LOCAL Own    == Box(10, 40, 50, 80)
LOCAL Tight  == Box(14, 44, 46, 78)
LOCAL Half   == Box(10, 40, 30, 80)
LOCAL Front  == Box(10, 40, 24, 80)
LOCAL Beside == Box(48, 40, 88, 80)
LOCAL Drawn  == {Own, Tight, Half, Front, Beside}
LOCAL Someone == {Box(4, 50, 12, 90), Box(46, 30, 50, 90), Box(86, 50, 94, 90),
                  Box(0, 50, 7, 90), Box(0, 10, 2, 34), Box(92, 0, 96, 20)}

LOCAL View(persons, animals, cars, mine, zone, lost) ==
    [boxes |-> [q \in Questions |->
                  CASE q = "person" -> persons
                    [] q = "animal" -> animals
                    [] q = "description" -> mine
                    [] q \in {"car", "car again", "vehicle"} -> cars],
     zone |-> zone, lost |-> lost, refused |-> FALSE, reply |-> NoReply]

LOCAL UpTo(n, S) == UNION {[1..i -> S] : i \in 0..n}
Views ==
    {View(p, <<>>, cars, mine, {}, {}) :
        p \in UpTo(1, Someone), cars \in UpTo(3, Drawn), mine \in UpTo(1, Drawn)}
    \cup {View(<<>>, <<a>>, cars, mine, zone, lost) :
        a \in Someone, cars \in UpTo(2, Drawn), mine \in UpTo(1, {Own, Front}),
        zone \in {{}, {Half}}, lost \in {{"car"}, {"car", "car again"}, {"description"}}}

LOCAL Look(alone, lost, refused, reply) ==
    [View(IF alone THEN <<>> ELSE <<Box(4, 50, 12, 90)>>, <<>>, <<Own, Tight, Beside>>, <<Own>>, {}, lost)
        EXCEPT !.refused = refused, !.reply = reply]
Looks == {Look(alone, {}, FALSE, r) : alone \in BOOLEAN, r \in Said}
         \cup {Look(FALSE, lost, refused, r) :
                  lost \in {{"person"}, {"person", "car", "vehicle"}}, refused \in BOOLEAN,
                  r \in {r \in Said : r.kind = "json" /\ r.confidence = 90 /\ r.suspicious}}
FrameRuns == [frames : UNION {[1..n -> Looks] : n \in 1..3}, protected : BOOLEAN,
              by : {"cloud", "local", "replicate"}]

(* "A fact about the provider, not about this clip": refusing the account  *)
(* fails no clip however long it lasts.  A clip fails for a reply that     *)
(* blames a setting or the request, or when all its attempts were bad luck.*)
Refusals ==
    [openai |-> {"429"}, anthropic |-> {"429", "400 credit"}, huggingface |-> {"429", "402"},
     replicate |-> {"429", "402"}, ollama |-> {}, moondream |-> {"429"}]
LOCAL Blames == {"401", "402", "403", "404", "404 model", "400", "400 credit", "400 schema", "422",
                  "422 schema"}

FailureIsDeserved(h) ==
    Outcome(h).status = "failed" =>
        LET tried == SubSeq(h.replies, 1, Outcome(h).asked)
            last  == tried[Len(tried)]
        IN /\ last \notin Refusals[h.service]
           /\ \/ last \in Blames
              \/ Cardinality({i \in DOMAIN tried : tried[i] \notin Refusals[h.service]}) > MaxRetries

(* Half of Hugging Face's answer names no verdict: only a whole one       *)
(* completes a clip, however the schema and the attempts went before.      *)
HalfIsNoVerdict(h) ==
    h.service = "huggingface" /\ Outcome(h).status = "completed" =>
        h.replies[Outcome(h).asked] = "answer"

(* Whatever else is lost or refused, an alarm about a frame in which a     *)
(* subject was found is the clip's answer, or the clip has none and is     *)
(* tried again.                                                            *)
AlarmOutlivesFailures(f) ==
    (\E i \in DOMAIN f.frames :
        LET frame == f.frames[i] IN
        /\ Subjects(DetectFrameSubjects(frame, f.protected)) # <<>>
        /\ ~frame.refused /\ TryParseJson(frame.reply).suspicious)
    => ClipReply(f) = NoReply \/ ParseResponse(ClipReply(f)).suspicious

(* Cars near a protected car never raise an alarm by what a readable reply *)
(* says of a clip without a subject.                                       *)
CarsAloneAreNoAlarm(f) ==
    /\ f.by # "replicate" /\ f.protected
    /\ \A i \in DOMAIN f.frames :
          /\ Subjects(DetectFrameSubjects(f.frames[i], TRUE)) = <<>>
          /\ f.frames[i].reply.kind = "json"
    => ~ParseResponse(ClipReply(f)).suspicious

(* "The one moment this hint must not miss": a subject that touches a car  *)
(* is said to, whichever car the description was taken for, where no other *)
(* box was drawn that stands for the same car.                             *)
TouchIsNeverMissed(view) ==
    LET seen  == DetectFrameSubjects(view, TRUE)
        first == DetectObjects(view, "car")
        cars  == BoxesOf(IF seen.persons = <<>> /\ first # <<>> THEN first
                         ELSE DetectObjects(view, "car again"))
        mine  == BoxesOf(DetectObjects(view, "description"))
    IN (\E who \in BoxesOf(Subjects(seen)), car \in cars :
          /\ BboxGapSquared(who, car) = 0
          /\ \A other \in cars \ {car} : ~BboxIouAtLeast(car, other, 3)
          /\ \A other \in mine \ {car} : ~BboxIouAtLeast(car, other, 5))
       => AnalyzeFrame(view, TRUE).hints = {"touching"}

(* A car parked alone, however often it was drawn, is no second car, so    *)
(* that a frame of it is not asked about.                                  *)
OneCarIsNotTwo(view) ==
    LET cars == BoxesOf(DetectObjects(view, "car")) IN
    /\ Subjects(DetectFrameSubjects(view, TRUE)) = <<>>
    /\ \E whole \in cars : \A car \in cars :
          Area(car) <= Area(whole) /\ BboxIouAtLeast(whole, car, 3)
    => AnalyzeFrame(view, TRUE).kind = "no_subject"
=============================================================================
